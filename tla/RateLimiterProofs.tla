------------------------- MODULE RateLimiterProofs --------------------------
(***************************************************************************)
(* Machine-checked proofs about RateLimiter, for any number of requests,   *)
(* any rules and every fault: the burst limit holds but for the keys the   *)
(* cache loses, and a ban takes several minutes of exceeded limits.        *)
(***************************************************************************)
EXTENDS RateLimiter, AutoBanProofs

-----------------------------------------------------------------------------
(* Types *)

LimiterLabel == Label \cup Limiting
Keys == Path \X BucketAge

Numbers ==
    /\ hits \in [Keys -> Nat] /\ served \in [Keys -> Nat]
    /\ once \in [Keys -> BOOLEAN]
    /\ bucket \in [Worker -> BucketAge] /\ count \in [Worker -> Nat]
    /\ minutes \subseteq MinuteAge /\ lost \in Nat

LimiterTypes == Types(LimiterLabel) /\ Numbers

(* The steps of the middleware itself. *)
Limits(w) ==
    \/ Arrive(w) \/ Hit(w) \/ Create(w) \/ Increase(w) \/ Pass(w)
    \/ FirstViolation(w) \/ LaterViolation(w) \/ CounterFails(w)

(* Such a step brings the request to another one, or ends it.               *)
LEMMA LimitsMoves ==
    ASSUME NEW w \in Worker, Limits(w)
    PROVE  /\ LimiterOnly
           /\ \/ Arrive(w)
              \/ /\ pc[w] \in Limiting /\ UNCHANGED <<req, since>>
                 /\ \E label \in Limiting : pc' = [pc EXCEPT ![w] = label]
              \/ pc[w] \in Limiting /\ Finish(w)
  <1> USE DEF Limiting, At, Goto
  <1>1. CASE Arrive(w)
    BY <1>1 DEF Arrive
  <1>2. CASE Hit(w)
    BY <1>2 DEF Hit
  <1>3. CASE Create(w)
    BY <1>3 DEF Create
  <1>4. CASE Increase(w)
    BY <1>4 DEF Increase
  <1>5. CASE Pass(w)
    BY <1>5 DEF Pass
  <1>6. CASE FirstViolation(w)
    BY <1>6 DEF FirstViolation
  <1>7. CASE LaterViolation(w)
    BY <1>7 DEF LaterViolation
  <1>8. CASE CounterFails(w)
    BY <1>8 DEF CounterFails
  <1> QED BY <1>1, <1>2, <1>3, <1>4, <1>5, <1>6, <1>7, <1>8 DEF Limits

LEMMA LabelsAreThere ==
    /\ {"idle", "persist", "count", "paths", "lock", "ban"} \subseteq LimiterLabel
    /\ Limiting \subseteq LimiterLabel /\ Limiting \cap Deciding = {} /\ "idle" \notin Limiting
  BY DEF LimiterLabel, Label, Limiting, Deciding

LEMMA LimitsKeepsTypes ==
    ASSUME Types(LimiterLabel), NEW w \in Worker, Limits(w)
    PROVE  Types(LimiterLabel)'
  <1>1. LimiterOnly
    BY LimitsMoves
  <1>2. Bag'
    BY <1>1 DEF LimiterOnly, Types, Bag
  <1>3. /\ pc' \in [Worker -> LimiterLabel]
        /\ DOMAIN req' = Worker /\ \A v \in Worker : Request(v)'
        /\ since' \in [Worker -> 0 .. Slack]
    <2>1. CASE Arrive(w)
      <3>1. PICK rule \in Path, who \in Who, reason \in Reason :
                req' = [req EXCEPT ![w] = [reason |-> reason, path |-> rule, who |-> who]]
        BY <2>1 DEF Arrive
      <3> DEFINE offence == [reason |-> reason, path |-> rule, who |-> who]
      <3>2. offence \in [reason : Reason, path : Path, who : Who]
        OBVIOUS
      <3>3. pc' = [pc EXCEPT ![w] = "hit"] /\ pc[w] = "idle" /\ UNCHANGED since
        BY <2>1 DEF Arrive, Goto, At
      <3>4. "hit" \in LimiterLabel /\ "hit" \notin Deciding /\ "idle" \notin Deciding
        BY DEF LimiterLabel, Limiting, Deciding
      <3>5. pc'[w] = "hit" /\ req'[w] = offence /\ since'[w] = 0
        BY <3>1, <3>3, <3>4 DEF Types, Request
      <3>6. Request(w)'
        BY <3>2, <3>4, <3>5 DEF Request
      <3> HIDE DEF offence
      <3> QED BY <3>1, <3>2, <3>3, <3>4, <3>6, RequestMoves
    <2>2. CASE /\ pc[w] \in Limiting /\ UNCHANGED <<req, since>>
               /\ \E label \in Limiting : pc' = [pc EXCEPT ![w] = label]
      <3>1. PICK label \in Limiting : pc' = [pc EXCEPT ![w] = label]
        BY <2>2
      <3>2. /\ label \in LimiterLabel /\ label \notin Deciding /\ pc[w] # "idle"
            /\ pc[w] \notin Deciding
        BY <2>2, LabelsAreThere
      <3>3. Request(w)'
        BY <2>2, <3>1, <3>2 DEF Types, Request
      <3> QED BY <2>2, <3>1, <3>2, <3>3, RequestMoves
    <2>3. CASE Finish(w)
      BY <2>3, LabelsAreThere, FinishIsTyped
    <2> QED BY <2>1, <2>2, <2>3, LimitsMoves
  <1> QED BY <1>1, <1>2, <1>3 DEF LimiterOnly, Types

LEMMA KeysAre ==
    ASSUME LimiterTypes, NEW w \in Worker
    PROVE  /\ pc[w] \in Limiting => Key(w) \in Keys /\ Key(w)[1] = req[w].path
           /\ Key(w)[2] = bucket[w] /\ bucket[w] \in {0, 1} /\ count[w] \in Nat
  <1>1. pc[w] \in Limiting => req[w].path \in Path
    <2>1. pc[w] \in Limiting => req[w] \in [reason : Reason, path : Path, who : Who]
      BY LabelsAreThere DEF LimiterTypes, Types, Request
    <2> QED BY <2>1
  <1> QED BY <1>1 DEF Key, Keys, LimiterTypes, Numbers, BucketAge

LEMMA LimitsKeepsNumbers ==
    ASSUME LimiterTypes, NEW w \in Worker, Limits(w)
    PROVE  Numbers'
  <1>1. Numbers /\ pc[w] \in Limiting => Key(w) \in Keys
    BY KeysAre
  <1>2. 0 \in BucketAge /\ BucketAge \subseteq MinuteAge /\ bucket[w] \in BucketAge
    BY PolicyAssumption DEF BucketAge, MinuteAge, LimiterTypes, Numbers
  <1>3. Numbers
    BY DEF LimiterTypes
  <1> USE DEF Numbers, Limiting, At, Forget, ForgetCount
  <1>4. CASE Arrive(w)
    BY <1>3, <1>4 DEF Arrive, limiterVars
  <1>5. CASE Hit(w)
    BY <1>1, <1>3, <1>5 DEF Hit
  <1>6. CASE Create(w)
    BY <1>1, <1>3, <1>6 DEF Create
  <1>7. CASE Increase(w)
    BY <1>1, <1>2, <1>3, <1>7 DEF Increase
  <1>8. CASE Pass(w)
    BY <1>1, <1>2, <1>3, <1>8 DEF Pass
  <1>9. CASE FirstViolation(w)
    BY <1>1, <1>2, <1>3, <1>9 DEF FirstViolation
  <1>10. CASE LaterViolation(w)
    BY <1>2, <1>3, <1>10 DEF LaterViolation
  <1>11. CASE CounterFails(w)
    BY <1>1, <1>2, <1>3, <1>11 DEF CounterFails
  <1> QED BY <1>4, <1>5, <1>6, <1>7, <1>8, <1>9, <1>10, <1>11 DEF Limits

(* The steps that RateLimiter takes over from AutoBan.                      *)
LEMMA LogKeepsTypes ==
    ASSUME LimiterTypes, NEW w \in Worker, Log(w) \/ CrashLimiter(w)
    PROVE  LimiterTypes'
  <1>1. Types(LimiterLabel)'
    <2>1. CASE Persist(w)
      BY <2>1, LabelsAreThere, PersistKeepsTypes DEF LimiterTypes
    <2>2. CASE Outage(w)
      BY <2>2, LabelsAreThere, OutageKeepsTypes DEF LimiterTypes
    <2>3. CASE Crash(w)
      BY <2>3, LabelsAreThere, CrashKeepsTypes DEF LimiterTypes
    <2> QED BY <2>1, <2>2, <2>3 DEF Log, CrashLimiter
  <1>2. UNCHANGED <<hits, once, served, minutes, lost>> /\ Forget(w)
    BY DEF Log, CrashLimiter
  <1>3. Numbers'
    BY <1>2 DEF LimiterTypes, Numbers, Forget, ForgetCount, BucketAge
  <1> QED BY <1>1, <1>3 DEF LimiterTypes

LEMMA AgedIsTyped ==
    /\ \A f \in [Keys -> Nat] : Aged(f, 0) \in [Keys -> Nat]
    /\ \A f \in [Keys -> BOOLEAN] : Aged(f, FALSE) \in [Keys -> BOOLEAN]
    /\ \A key \in Keys : /\ key = <<key[1], key[2]>> /\ key[1] \in Path
                         /\ key[2] \in {0, 1}
  <1>1. \A key \in Keys : <<key[1], 0>> \in Keys
    BY DEF Keys, BucketAge
  <1>2. \A f, fresh : Aged(f, fresh) =
            [key \in Keys |-> IF key[2] = 0 THEN fresh ELSE f[<<key[1], 0>>]]
    BY DEF Aged, Keys
  <1>3. \A f \in [Keys -> Nat] : Aged(f, 0) \in [Keys -> Nat]
    BY <1>1, <1>2
  <1>4. \A f \in [Keys -> BOOLEAN] : Aged(f, FALSE) \in [Keys -> BOOLEAN]
    BY <1>1, <1>2
  <1>5. \A key \in Keys : /\ key = <<key[1], key[2]>> /\ key[1] \in Path
                          /\ key[2] \in {0, 1}
    BY DEF Keys, BucketAge
  <1> QED BY <1>3, <1>4, <1>5

LEMMA AgedMoves ==
    ASSUME NEW f, NEW fresh, NEW g, g = Aged(f, fresh), NEW path \in Path
    PROVE  g[<<path, 1>>] = f[<<path, 0>>]
  <1> DEFINE old == <<path, 1>>
  <1>1. old \in Path \X BucketAge /\ old[1] = path /\ old[2] # 0
    BY DEF BucketAge
  <1> HIDE DEF old
  <1>2. g[old] = f[<<path, 0>>]
    BY <1>1 DEF Aged
  <1> QED BY <1>2 DEF old

LEMMA AgedStarts ==
    ASSUME NEW path \in Path
    PROVE  /\ \A f : Aged(f, 0)[<<path, 0>>] = 0
           /\ \A f : Aged(f, FALSE)[<<path, 0>>] = FALSE
  <1> DEFINE new == <<path, 0>>
  <1>1. new \in Path \X BucketAge /\ new[2] = 0
    BY DEF BucketAge
  <1> HIDE DEF new
  <1>2. \A f : Aged(f, 0)[new] = 0
    BY <1>1 DEF Aged
  <1>3. \A f : Aged(f, FALSE)[new] = FALSE
    BY <1>1 DEF Aged
  <1> QED BY <1>2, <1>3 DEF new

LEMMA TickLimiterKeepsTypes ==
    ASSUME LimiterTypes, TickLimiter
    PROVE  LimiterTypes'
  <1>1. Types(LimiterLabel)'
    BY TickKeepsTypes DEF LimiterTypes, TickLimiter
  <1>2. /\ hits' = Aged(hits, 0) /\ once' = Aged(once, FALSE) /\ served' = Aged(served, 0)
        /\ minutes' \subseteq MinuteAge /\ UNCHANGED <<count, lost>>
    BY DEF TickLimiter
  <1>3. bucket' \in [Worker -> BucketAge]
    BY DEF TickLimiter, LimiterTypes, Numbers, BucketAge
  <1>4. hits' \in [Keys -> Nat] /\ served' \in [Keys -> Nat] /\ once' \in [Keys -> BOOLEAN]
    BY <1>2, AgedIsTyped DEF LimiterTypes, Numbers
  <1> QED BY <1>1, <1>2, <1>3, <1>4 DEF LimiterTypes, Numbers

LEMMA AroundKeepsTypes ==
    ASSUME LimiterTypes, \/ (Lift \/ Evict) /\ UNCHANGED limiterVars
                         \/ EvictCounter \/ UNCHANGED allVars
    PROVE  LimiterTypes'
  <1>1. CASE (Lift \/ Evict) /\ UNCHANGED limiterVars
    <2>1. Types(LimiterLabel)'
      BY <1>1, OthersKeepTypes DEF LimiterTypes
    <2> QED BY <1>1, <2>1 DEF LimiterTypes, Numbers, limiterVars
  <1>2. CASE EvictCounter \/ UNCHANGED allVars
    <2>1. UNCHANGED vars
      BY <1>2 DEF EvictCounter, allVars
    <2>2. Types(LimiterLabel)'
      BY <2>1 DEF LimiterTypes, Types, Bag, Request, vars
    <2>3. Numbers'
      <3>1. Numbers
        BY DEF LimiterTypes
      <3>2. UNCHANGED <<bucket, count, served, minutes>> /\ (lost' = lost \/ lost' = lost + 1)
        BY <1>2 DEF EvictCounter, allVars, limiterVars
      <3>3. /\ hits' = hits \/ \E key \in Keys : hits' = [hits EXCEPT ![key] = 0]
            /\ once' = once \/ \E key \in Keys : once' = [once EXCEPT ![key] = FALSE]
        BY <1>2, <3>1 DEF EvictCounter, allVars, limiterVars, Numbers
      <3>4. hits' \in [Keys -> Nat]
        <4>1. hits \in [Keys -> Nat]
          BY <3>1 DEF Numbers
        <4> QED BY <3>3, <4>1
      <3>5. once' \in [Keys -> BOOLEAN]
        <4>1. once \in [Keys -> BOOLEAN]
          BY <3>1 DEF Numbers
        <4> QED BY <3>3, <4>1
      <3> QED BY <3>1, <3>2, <3>4, <3>5 DEF Numbers
    <2> QED BY <2>2, <2>3 DEF LimiterTypes
  <1> QED BY <1>1, <1>2

LEMMA StepKeepsLimiterTypes ==
    ASSUME LimiterTypes, [LimiterNext]_allVars
    PROVE  LimiterTypes'
  <1>1. ASSUME NEW w \in Worker, LimiterStep(w) PROVE LimiterTypes'
    <2>1. CASE Limits(w)
      BY <2>1, LimitsKeepsTypes, LimitsKeepsNumbers DEF LimiterTypes
    <2>2. CASE Log(w) \/ CrashLimiter(w)
      BY <2>2, LogKeepsTypes
    <2>3. CASE Evaluate(w) /\ UNCHANGED limiterVars
      <3>1. Types(LimiterLabel)'
        BY <2>3, LabelsAreThere, EvaluateKeepsTypes DEF LimiterTypes
      <3> QED BY <2>3, <3>1 DEF LimiterTypes, Numbers, limiterVars
    <2> QED BY <1>1, <2>1, <2>2, <2>3 DEF LimiterStep, Limits
  <1> QED BY <1>1, TickLimiterKeepsTypes, AroundKeepsTypes DEF LimiterNext

LEMMA InitLimiterTypes == LimiterInit => LimiterTypes
  <1> SUFFICES ASSUME LimiterInit PROVE LimiterTypes
    OBVIOUS
  <1>1. Types(Label)
    BY InitTypes DEF LimiterInit
  <1>2. Types(LimiterLabel)
    BY <1>1 DEF Types, LimiterLabel
  <1>3. Numbers
    BY DEF LimiterInit, Numbers, Keys, BucketAge
  <1> QED BY <1>2, <1>3 DEF LimiterTypes

-----------------------------------------------------------------------------
(* The burst limit *)

(* What one lost key lets through: a burst, and every other request between *)
(* its failed add and its second increment.                                 *)
Share == Burst + Cardinality(Worker) - 1
Paid == lost * Share

Passing(key) == {w \in Worker : pc[w] = "judge" /\ Key(w) = key /\ count[w] <= Burst}
Increasing(key) == {w \in Worker : pc[w] = "increase" /\ Key(w) = key}
Creating(key) == {w \in Worker : pc[w] \in {"create", "increase"} /\ Key(w) = key}

(* The inductive invariant: of an absent counter, the requests let through, *)
(* with those whose count lets them pass and those that will find no key,   *)
(* were paid for by lost keys; a counter that is there admits its own value *)
(* besides, and the request that created it is past its creation.           *)
Within(key) ==
    LET passed == served[key] + Cardinality(Passing(key))
    IN  IF hits[key] = 0
        THEN passed + Cardinality(Increasing(key)) <= Paid
        ELSE /\ passed <= hits[key] + Paid /\ passed <= Burst + Paid
             /\ Creating(key) # Worker

LimitInv == \A key \in Keys : Within(key)

LEMMA ShareIs ==
    /\ IsFiniteSet(Worker) /\ Cardinality(Worker) \in Nat /\ Share \in Nat
    /\ \A n \in Nat : n * Share \in Nat /\ (n + 1) * Share = n * Share + Share
    /\ \A w \in Worker : Share >= Burst /\ Share >= 1
  <1>1. IsFiniteSet(Worker) /\ Cardinality(Worker) \in Nat
    BY FiniteAssumption, FS_CardinalityType
  <1>2. Burst \in Nat /\ Burst >= 1
    BY LimiterAssumption
  <1>3. Share \in Nat
    BY <1>1, <1>2 DEF Share
  <1>4. \A n, s \in Nat : n * s \in Nat /\ (n + 1) * s = n * s + s
    BY SMT
  <1>5. \A w \in Worker : Cardinality(Worker) >= 1
    BY <1>1, FS_EmptySet
  <1> QED BY <1>1, <1>2, <1>3, <1>4, <1>5 DEF Share

(* Counting with one request that moves and the others that stay.           *)
Others(w) ==
    \A v \in Worker \ {w} : /\ pc'[v] = pc[v] /\ req'[v] = req[v]
                            /\ bucket'[v] = bucket[v] /\ count'[v] = count[v]

LEMMA OneMoves ==
    \A S, T, w : IsFiniteSet(S) /\ IsFiniteSet(T) /\ T \ {w} = S \ {w} =>
        \E n \in Nat : /\ Cardinality(S) = (IF w \in S THEN n + 1 ELSE n)
                       /\ Cardinality(T) = (IF w \in T THEN n + 1 ELSE n)
  <1>1. \A X, w : IsFiniteSet(X) =>
            /\ Cardinality(X \ {w}) \in Nat /\ Cardinality(X) \in Nat
            /\ Cardinality(X \ {w}) =
                  (IF w \in X THEN Cardinality(X) - 1 ELSE Cardinality(X))
    BY FS_RemoveElement, FS_CardinalityType
  <1>2. ASSUME NEW S, NEW T, NEW w, IsFiniteSet(S), IsFiniteSet(T), T \ {w} = S \ {w}
        PROVE  \E n \in Nat : /\ Cardinality(S) = (IF w \in S THEN n + 1 ELSE n)
                              /\ Cardinality(T) = (IF w \in T THEN n + 1 ELSE n)
    <2> DEFINE n == Cardinality(S \ {w})
    <2>1. n \in Nat /\ Cardinality(S) = (IF w \in S THEN n + 1 ELSE n)
      BY <1>1, <1>2
    <2>2. Cardinality(T) = (IF w \in T THEN n + 1 ELSE n)
      BY <1>1, <1>2
    <2> HIDE DEF n
    <2> QED BY <2>1, <2>2
  <1> QED BY <1>2

LEMMA Turnout ==
    ASSUME NEW w \in Worker, Others(w), NEW key
    PROVE  /\ \E n \in Nat :
                  /\ Cardinality(Passing(key)) = (IF w \in Passing(key) THEN n + 1 ELSE n)
                  /\ Cardinality(Passing(key)') = (IF w \in Passing(key)' THEN n + 1 ELSE n)
           /\ \E n \in Nat :
                  /\ Cardinality(Increasing(key)) = (IF w \in Increasing(key) THEN n + 1 ELSE n)
                  /\ Cardinality(Increasing(key)') = (IF w \in Increasing(key)' THEN n + 1 ELSE n)
           /\ Creating(key)' \ {w} = Creating(key) \ {w}
  <1>1. /\ Passing(key)' \ {w} = Passing(key) \ {w}
        /\ Increasing(key)' \ {w} = Increasing(key) \ {w}
        /\ Creating(key)' \ {w} = Creating(key) \ {w}
    BY DEF Others, Passing, Increasing, Creating, Key
  <1>2. \A S \in {Passing(key), Passing(key)', Increasing(key), Increasing(key)'} :
            S \subseteq Worker
    BY DEF Passing, Increasing
  <1>3. \A S \in {Passing(key), Passing(key)', Increasing(key), Increasing(key)'} :
            IsFiniteSet(S)
    BY <1>2, ShareIs, FS_Subset
  <1>4. \E n \in Nat :
            /\ Cardinality(Passing(key)) = (IF w \in Passing(key) THEN n + 1 ELSE n)
            /\ Cardinality(Passing(key)') = (IF w \in Passing(key)' THEN n + 1 ELSE n)
    <2> DEFINE S == Passing(key)
               T == Passing(key)'
    <2>1. IsFiniteSet(S) /\ IsFiniteSet(T) /\ T \ {w} = S \ {w}
      BY <1>1, <1>3
    <2> HIDE DEF S, T
    <2>2. \E n \in Nat : /\ Cardinality(S) = (IF w \in S THEN n + 1 ELSE n)
                         /\ Cardinality(T) = (IF w \in T THEN n + 1 ELSE n)
      BY <2>1, OneMoves
    <2> QED BY <2>2 DEF S, T
  <1>5. \E n \in Nat :
            /\ Cardinality(Increasing(key)) = (IF w \in Increasing(key) THEN n + 1 ELSE n)
            /\ Cardinality(Increasing(key)') = (IF w \in Increasing(key)' THEN n + 1 ELSE n)
    <2> DEFINE S == Increasing(key)
               T == Increasing(key)'
    <2>1. IsFiniteSet(S) /\ IsFiniteSet(T) /\ T \ {w} = S \ {w}
      BY <1>1, <1>3
    <2> HIDE DEF S, T
    <2>2. \E n \in Nat : /\ Cardinality(S) = (IF w \in S THEN n + 1 ELSE n)
                         /\ Cardinality(T) = (IF w \in T THEN n + 1 ELSE n)
      BY <2>1, OneMoves
    <2> QED BY <2>2 DEF S, T
  <1> QED BY <1>1, <1>4, <1>5

(* What the invariant says, with its numbers typed.                         *)
LEMMA WithinIs ==
    ASSUME LimiterTypes, NEW key \in Keys
    PROVE  /\ hits[key] \in Nat /\ served[key] \in Nat /\ lost \in Nat
           /\ Paid \in Nat /\ Burst \in Nat /\ Burst >= 1
           /\ Cardinality(Passing(key)) \in Nat /\ Cardinality(Increasing(key)) \in Nat
  <1>1. Passing(key) \subseteq Worker /\ Increasing(key) \subseteq Worker
    BY DEF Passing, Increasing
  <1>2. Cardinality(Passing(key)) \in Nat /\ Cardinality(Increasing(key)) \in Nat
    BY <1>1, ShareIs, FS_Subset, FS_CardinalityType
  <1>3. hits[key] \in Nat /\ served[key] \in Nat /\ lost \in Nat
    BY DEF LimiterTypes, Numbers
  <1>4. Paid \in Nat
    <2>1. lost * Share \in Nat
      BY <1>3, ShareIs
    <2> QED BY <2>1 DEF Paid
  <1>5. Burst \in Nat /\ Burst >= 1
    BY LimiterAssumption
  <1> QED BY <1>2, <1>3, <1>4, <1>5

LEMMA PaidGrows ==
    ASSUME LimiterTypes
    PROVE  /\ Paid \in Nat /\ Share \in Nat
           /\ lost' = lost => Paid' = Paid
           /\ lost' = lost + 1 => Paid' = Paid + Share
  <1>1. lost \in Nat /\ Share' = Share
    BY DEF LimiterTypes, Numbers, Share
  <1>2. Share \in Nat /\ (lost + 1) * Share = lost * Share + Share /\ lost * Share \in Nat
    BY <1>1, ShareIs
  <1> QED BY <1>1, <1>2 DEF Paid

(* A request that does not touch a counter leaves its bound as it is, and   *)
(* so does one that leaves it for good.                                     *)
LEMMA Untouched ==
    ASSUME LimiterTypes, LimiterTypes', NEW w \in Worker, Others(w), NEW key \in Keys,
           Within(key), hits'[key] = hits[key], served'[key] = served[key],
           lost' = lost \/ lost' = lost + 1,
           w \notin Passing(key)', w \notin Increasing(key)', w \notin Creating(key)'
    PROVE  Within(key)'
  <1>1. Paid' \in Nat /\ Paid \in Nat /\ Paid <= Paid'
    BY PaidGrows
  <1>2. /\ Cardinality(Passing(key)') <= Cardinality(Passing(key))
        /\ Cardinality(Increasing(key)') <= Cardinality(Increasing(key))
        /\ Cardinality(Passing(key)') \in Nat /\ Cardinality(Increasing(key)') \in Nat
    BY Turnout, ShareIs
  <1>3. Creating(key)' # Worker
    OBVIOUS
  <1>4. hits[key] \in Nat /\ served[key] \in Nat /\ Burst \in Nat
        /\ Cardinality(Passing(key)) \in Nat /\ Cardinality(Increasing(key)) \in Nat
    BY WithinIs
  <1>5. IF hits[key] = 0
        THEN served[key] + Cardinality(Passing(key)') + Cardinality(Increasing(key)') <= Paid'
        ELSE /\ served[key] + Cardinality(Passing(key)') <= hits[key] + Paid'
             /\ served[key] + Cardinality(Passing(key)') <= Burst + Paid'
    BY <1>1, <1>2, <1>4 DEF Within
  <1> QED BY <1>3, <1>5 DEF Within

LEMMA OthersStay ==
    ASSUME LimiterTypes, NEW w \in Worker,
           Limits(w) \/ Log(w) \/ CrashLimiter(w) \/ (Evaluate(w) /\ UNCHANGED limiterVars)
    PROVE  Others(w)
  <1>1. /\ pc \in [Worker -> LimiterLabel] /\ DOMAIN req = Worker
        /\ since \in [Worker -> 0 .. Slack]
        /\ bucket \in [Worker -> BucketAge] /\ count \in [Worker -> Nat]
    BY DEF LimiterTypes, Types, Numbers
  <1>2. /\ req' = req \/ \E r : req' = [req EXCEPT ![w] = r]
        /\ pc' = pc \/ \E label : pc' = [pc EXCEPT ![w] = label]
    <2> USE DEF Finish, Goto
    <2>1. CASE Limits(w)
      <3> USE DEF Limits, Arrive, Hit, Create, Increase, Pass, FirstViolation,
                  LaterViolation, CounterFails
      <3> QED BY <2>1
    <2>2. CASE Log(w) \/ CrashLimiter(w)
      BY <2>2 DEF Log, CrashLimiter, Persist, Outage, Crash
    <2>3. CASE Evaluate(w)
      BY <2>3 DEF Evaluate, CountEvents, CountPaths, TakeLock, WriteBan
    <2> QED BY <2>1, <2>2, <2>3
  <1>3. /\ bucket' = bucket \/ bucket' = [bucket EXCEPT ![w] = 0]
        /\ count' = count \/ \E n : count' = [count EXCEPT ![w] = n]
    <2> USE DEF Forget, ForgetCount
    <2>1. CASE Limits(w)
      <3> USE DEF Limits, Arrive, Hit, Create, Increase, Pass, FirstViolation,
                  LaterViolation, CounterFails, limiterVars
      <3> QED BY <2>1
    <2>2. CASE Log(w) \/ CrashLimiter(w)
      BY <2>2 DEF Log, CrashLimiter
    <2>3. CASE UNCHANGED limiterVars
      BY <2>3 DEF limiterVars
    <2> QED BY <2>1, <2>2, <2>3
  <1> QED BY <1>1, <1>2, <1>3 DEF Others

(* The steps that touch the counter of the request.                         *)
LEMMA HitKeepsLimit ==
    ASSUME LimiterTypes, NEW w \in Worker, Others(w), Hit(w), NEW key \in Keys,
           key = Key(w), Within(key)
    PROVE  Within(key)'
  <1>1. /\ pc[w] = "hit" /\ UNCHANGED <<served, lost>>
        /\ \/ hits[key] = 0 /\ pc'[w] = "create" /\ UNCHANGED hits
           \/ /\ hits[key] # 0 /\ hits'[key] = hits[key] + 1
              /\ count'[w] = hits'[key] /\ pc'[w] = "judge"
    BY DEF Hit, At, Goto, LimiterTypes, Types, Numbers
  <1>2. /\ w \notin Passing(key) /\ w \notin Increasing(key) /\ w \notin Creating(key)
        /\ w \notin Increasing(key)' /\ (w \in Passing(key)' => hits[key] + 1 <= Burst)
        /\ w \in Passing(key)' => hits[key] # 0
    BY <1>1 DEF Passing, Increasing, Creating
  <1>3. hits[key] # 0 => Creating(key)' # Worker
    BY <1>1 DEF Creating
  <1>4. Paid' = Paid
    BY <1>1, PaidGrows
  <1> QED BY <1>1, <1>2, <1>3, <1>4, Turnout, WithinIs DEF Within

LEMMA CreateKeepsLimit ==
    ASSUME LimiterTypes, NEW w \in Worker, Others(w), Create(w), NEW key \in Keys,
           key = Key(w), Within(key)
    PROVE  Within(key)'
  <1>1. /\ pc[w] = "create" /\ UNCHANGED <<served, lost>>
        /\ \/ /\ hits[key] = 0 /\ hits'[key] = 1 /\ count'[w] = 1 /\ pc'[w] = "judge"
           \/ hits[key] # 0 /\ pc'[w] = "increase" /\ UNCHANGED <<hits, req, bucket>>
    BY DEF Create, At, Goto, LimiterTypes, Types, Numbers
  <1>2. /\ w \notin Passing(key) /\ w \notin Increasing(key)
        /\ (hits[key] = 0 => w \notin Increasing(key)')
        /\ (hits[key] # 0 => w \notin Passing(key)')
    BY <1>1 DEF Passing, Increasing
  <1>3. Creating(key)' # Worker \/ (hits[key] # 0 /\ Creating(key)' = Creating(key))
    <2>1. CASE hits[key] = 0
      BY <2>1, <1>1 DEF Creating
    <2>2. CASE hits[key] # 0
      <3>1. w \in Creating(key)
        BY <1>1 DEF Creating
      <3> QED BY <2>2, <3>1, Turnout DEF Creating
    <2> QED BY <2>1, <2>2
  <1>4. Paid' = Paid
    BY <1>1, PaidGrows
  <1> QED BY <1>1, <1>2, <1>3, <1>4, Turnout, WithinIs DEF Within

LEMMA IncreaseKeepsLimit ==
    ASSUME LimiterTypes, NEW w \in Worker, Others(w), Increase(w), NEW key \in Keys,
           key = Key(w), Within(key)
    PROVE  Within(key)'
  <1>1. /\ pc[w] = "increase" /\ UNCHANGED lost
        /\ \/ /\ hits[key] = 0 /\ served'[key] = served[key] + 1 /\ UNCHANGED hits
              /\ pc'[w] = "idle"
           \/ /\ hits[key] # 0 /\ hits'[key] = hits[key] + 1 /\ UNCHANGED served
              /\ count'[w] = hits'[key] /\ pc'[w] = "judge"
    BY DEF Increase, Finish, At, Goto, LimiterTypes, Types, Numbers
  <1>2. /\ w \notin Passing(key) /\ w \in Increasing(key)
        /\ w \notin Increasing(key)' /\ (hits[key] = 0 => w \notin Passing(key)')
        /\ (hits[key] # 0 /\ w \in Passing(key)' => hits[key] + 1 <= Burst)
    BY <1>1 DEF Passing, Increasing
  <1>3. Creating(key)' # Worker
    BY <1>1 DEF Creating
  <1>4. Paid' = Paid
    BY <1>1, PaidGrows
  <1> QED BY <1>1, <1>2, <1>3, <1>4, Turnout, WithinIs DEF Within

LEMMA PassKeepsLimit ==
    ASSUME LimiterTypes, NEW w \in Worker, Others(w), Pass(w), NEW key \in Keys,
           key = Key(w), Within(key)
    PROVE  Within(key)'
  <1>1. /\ pc[w] = "judge" /\ count[w] <= Burst /\ UNCHANGED <<lost, hits>>
        /\ served'[key] = served[key] + 1 /\ pc'[w] = "idle"
    BY DEF Pass, Finish, At, Goto, LimiterTypes, Types, Numbers
  <1>2. /\ w \in Passing(key) /\ w \notin Increasing(key)
        /\ w \notin Increasing(key)' /\ w \notin Passing(key)'
    BY <1>1 DEF Passing, Increasing
  <1>3. Creating(key)' # Worker
    BY <1>1 DEF Creating
  <1>4. Paid' = Paid
    BY <1>1, PaidGrows
  <1> QED BY <1>1, <1>2, <1>3, <1>4, Turnout, WithinIs DEF Within

LEMMA FailureKeepsLimit ==
    ASSUME LimiterTypes, NEW w \in Worker, Others(w), CounterFails(w), NEW key \in Keys,
           key = Key(w), Within(key)
    PROVE  Within(key)'
  <1>1. /\ pc[w] \in Limiting /\ lost' = lost + 1 /\ UNCHANGED hits
        /\ served'[key] \in {served[key], served[key] + 1} /\ pc'[w] \in {"idle", "persist"}
    BY DEF CounterFails, Finish, At, Goto, LimiterTypes, Types, Numbers, Limiting
  <1>2. w \notin Increasing(key)' /\ w \notin Passing(key)'
    BY <1>1 DEF Passing, Increasing
  <1>3. Creating(key)' # Worker
    BY <1>1 DEF Creating
  <1>4. Paid' = Paid + Share /\ Share \in Nat /\ Share >= 1
    BY <1>1, PaidGrows, ShareIs
  <1> QED BY <1>1, <1>2, <1>3, <1>4, Turnout, WithinIs DEF Within

(* Of a step of one request, every counter it does not touch.               *)
LEMMA LimitsKeepsLimit ==
    ASSUME LimiterTypes, LimiterTypes', NEW w \in Worker, Others(w), LimitInv, Limits(w)
    PROVE  LimitInv'
  <1> SUFFICES ASSUME NEW key \in Keys PROVE Within(key)'
    BY DEF LimitInv, Keys
  <1>1. Within(key)
    BY DEF LimitInv
  <1>2. CASE key = Key(w) /\ ~(Arrive(w) \/ FirstViolation(w) \/ LaterViolation(w))
    BY <1>1, <1>2, HitKeepsLimit, CreateKeepsLimit, IncreaseKeepsLimit, PassKeepsLimit,
       FailureKeepsLimit DEF Limits
  <1>3. CASE key # Key(w) \/ Arrive(w) \/ FirstViolation(w) \/ LaterViolation(w)
    <2>1. lost' = lost \/ lost' = lost + 1
      BY DEF Limits, Arrive, Hit, Create, Increase, Pass, FirstViolation,
             LaterViolation, CounterFails, limiterVars
    <2>2. hits'[key] = hits[key] /\ served'[key] = served[key]
      BY <1>3 DEF Limits, Arrive, Hit, Create, Increase, Pass, FirstViolation,
             LaterViolation, CounterFails, limiterVars, LimiterTypes, Numbers
    <2>3. pc'[w] \in {"create", "increase", "judge"} => key # Key(w)'
      <3> USE DEF Goto, Finish, LimiterTypes, Types, Key
      <3>1. CASE Hit(w) \/ Create(w)
        BY <1>3, <3>1 DEF Hit, Create, Arrive, FirstViolation, LaterViolation, At
      <3>2. CASE Increase(w) \/ CounterFails(w)
        BY <1>3, <3>2 DEF Increase, CounterFails, Arrive, FirstViolation, LaterViolation, At
      <3>3. CASE Pass(w) \/ Arrive(w) \/ FirstViolation(w) \/ LaterViolation(w)
        BY <3>3 DEF Pass, Arrive, FirstViolation, LaterViolation
      <3> QED BY <3>1, <3>2, <3>3 DEF Limits
    <2>4. w \notin Passing(key)' /\ w \notin Increasing(key)' /\ w \notin Creating(key)'
      BY <2>3 DEF Passing, Increasing, Creating
    <2> QED BY <1>1, <2>1, <2>2, <2>4, Untouched
  <1> QED BY <1>2, <1>3

(* The steps past the limiter.                                              *)
LEMMA PastKeepsLimit ==
    ASSUME LimiterTypes, LimiterTypes', NEW w \in Worker, Others(w), LimitInv,
           Log(w) \/ CrashLimiter(w) \/ (Evaluate(w) /\ UNCHANGED limiterVars)
    PROVE  LimitInv'
  <1> SUFFICES ASSUME NEW key \in Keys PROVE Within(key)'
    BY DEF LimitInv, Keys
  <1>1. Within(key) /\ UNCHANGED <<hits, served, lost>>
    BY DEF LimitInv, Log, CrashLimiter, limiterVars
  <1>2. \E label \in {"idle", "count", "paths", "lock", "ban"} :
            pc' = [pc EXCEPT ![w] = label]
    <2> USE DEF Finish, Goto, At
    <2>1. CASE Log(w) \/ CrashLimiter(w)
      BY <2>1 DEF Log, CrashLimiter, Persist, Outage, Crash
    <2>2. CASE Evaluate(w)
      BY <2>2 DEF Evaluate, CountEvents, CountPaths, TakeLock, WriteBan
    <2> QED BY <2>1, <2>2
  <1>3. pc'[w] \notin Limiting
    BY <1>2 DEF LimiterTypes, Types, Limiting
  <1>4. w \notin Passing(key)' /\ w \notin Increasing(key)' /\ w \notin Creating(key)'
    BY <1>3 DEF Passing, Increasing, Creating, Limiting
  <1> QED BY <1>1, <1>4, Untouched

(* A counter dropped: its creators are not all the requests there are.      *)
LEMMA EvictionKeepsLimit ==
    ASSUME LimiterTypes, LimitInv, EvictCounter
    PROVE  LimitInv'
  <1> SUFFICES ASSUME NEW key \in Keys PROVE Within(key)'
    BY DEF LimitInv, Keys
  <1>1. Within(key)
    BY DEF LimitInv
  <1>2. /\ UNCHANGED <<pc, req, bucket, count, served>> /\ lost' = lost + 1
        /\ hits'[key] = hits[key] \/ (hits[key] > 0 /\ hits'[key] = 0)
    BY DEF EvictCounter, vars, LimiterTypes, Numbers
  <1>3. /\ Passing(key)' = Passing(key) /\ Increasing(key)' = Increasing(key)
        /\ Creating(key)' = Creating(key)
    BY <1>2 DEF Passing, Increasing, Creating, Key
  <1>4. Paid' = Paid + Share /\ Share \in Nat
    BY <1>2, PaidGrows
  <1>5. Creating(key) # Worker =>
            Burst + Cardinality(Increasing(key)) <= Share
    <2>1. Increasing(key) \subseteq Creating(key) /\ Creating(key) \subseteq Worker
      BY DEF Increasing, Creating
    <2>2. SUFFICES ASSUME Creating(key) # Worker
                   PROVE  Cardinality(Increasing(key)) <= Cardinality(Worker) - 1
      BY <2>2, LimiterAssumption, ShareIs, WithinIs DEF Share
    <2>3. PICK v \in Worker : v \notin Increasing(key)
      BY <2>1, <2>2
    <2>4. Increasing(key) \subseteq Worker \ {v}
      BY <2>1, <2>3
    <2>5. IsFiniteSet(Worker \ {v}) /\ Cardinality(Worker \ {v}) = Cardinality(Worker) - 1
      BY ShareIs, FS_RemoveElement
    <2> QED BY <2>4, <2>5, FS_Subset
  <1> QED BY <1>1, <1>2, <1>3, <1>4, <1>5, WithinIs DEF Within

(* A minute ends: requests are in its bucket, and the new one is empty.     *)
LEMMA TickKeepsLimit ==
    ASSUME LimiterTypes, LimitInv, TickLimiter
    PROVE  LimitInv'
  <1> SUFFICES ASSUME NEW path \in Path, NEW age \in {0, 1}
               PROVE  Within(<<path, age>>)'
    <2>1. \A key \in Keys : /\ key = <<key[1], key[2]>> /\ key[1] \in Path
                            /\ key[2] \in {0, 1}
      BY AgedIsTyped
    <2> QED BY <2>1 DEF LimitInv, Keys
  <1>1. /\ pc' = pc /\ req' = req /\ count' = count /\ lost' = lost
        /\ \A w \in Worker : pc[w] \in Limiting => bucket[w] = 0 /\ bucket'[w] = 1
    BY DEF TickLimiter, Tick, LimiterTypes, Numbers, BucketAge
  <1>2. Paid' = Paid /\ Paid \in Nat
    BY <1>1, PaidGrows
  <1>3. /\ hits' = Aged(hits, 0) /\ served' = Aged(served, 0)
    BY DEF TickLimiter
  <1>4. CASE age = 0
    <2>1. hits'[<<path, 0>>] = 0 /\ served'[<<path, 0>>] = 0
      BY <1>3, AgedStarts
    <2>2. Passing(<<path, 0>>)' = {} /\ Increasing(<<path, 0>>)' = {}
      BY <1>1 DEF Passing, Increasing, Key, Limiting
    <2>3. Cardinality(Passing(<<path, 0>>)') = 0 /\ Cardinality(Increasing(<<path, 0>>)') = 0
      BY <2>2, FS_EmptySet
    <2> QED BY <1>2, <1>4, <2>1, <2>3 DEF Within
  <1>5. CASE age = 1
    <2>1. hits'[<<path, 1>>] = hits[<<path, 0>>] /\ served'[<<path, 1>>] = served[<<path, 0>>]
      BY <1>3, AgedMoves
    <2>2. /\ Passing(<<path, 1>>)' = Passing(<<path, 0>>)
          /\ Increasing(<<path, 1>>)' = Increasing(<<path, 0>>)
          /\ Creating(<<path, 1>>)' = Creating(<<path, 0>>)
      BY <1>1 DEF Passing, Increasing, Creating, Key, Limiting
    <2>3. Within(<<path, 0>>)
      BY DEF LimitInv, Keys, BucketAge
    <2> QED BY <1>2, <1>5, <2>1, <2>2, <2>3 DEF Within
  <1> QED BY <1>4, <1>5

LEMMA StepKeepsLimit ==
    ASSUME LimiterTypes, LimiterTypes', LimitInv, [LimiterNext]_allVars
    PROVE  LimitInv'
  <1>1. ASSUME NEW w \in Worker, LimiterStep(w) PROVE LimitInv'
    <2>1. \/ Limits(w)
          \/ Log(w) \/ CrashLimiter(w) \/ (Evaluate(w) /\ UNCHANGED limiterVars)
      BY <1>1 DEF LimiterStep, Limits
    <2>2. Others(w)
      BY <2>1, OthersStay
    <2> QED BY <2>1, <2>2, LimitsKeepsLimit, PastKeepsLimit
  <1>2. CASE \/ (Lift \/ Evict) /\ UNCHANGED limiterVars
             \/ UNCHANGED allVars
    <2>1. UNCHANGED <<pc, req, limiterVars>>
      BY <1>2 DEF Lift, Evict, allVars, vars
    <2> QED BY <2>1 DEF LimitInv, Within, Passing, Increasing, Creating, Key, Paid, Share,
                        limiterVars
  <1> QED BY <1>1, <1>2, EvictionKeepsLimit, TickKeepsLimit DEF LimiterNext

LEMMA InitLimit == LimiterInit => LimitInv
  <1> SUFFICES ASSUME LimiterInit, NEW key \in Keys PROVE Within(key)
    BY DEF LimitInv
  <1>1. hits[key] = 0 /\ served[key] = 0 /\ lost = 0
    BY DEF LimiterInit, Keys
  <1>2. Passing(key) = {} /\ Increasing(key) = {}
    BY DEF Passing, Increasing, LimiterInit, Init
  <1>3. Cardinality(Passing(key)) = 0 /\ Cardinality(Increasing(key)) = 0
    BY <1>2, FS_EmptySet
  <1>4. Paid \in Nat
    BY InitLimiterTypes, PaidGrows
  <1> QED BY <1>1, <1>3, <1>4 DEF Within

(* No rule lets more requests through in a minute than its limit and one    *)
(* share for each lost key, of any number of requests, rules and limits.    *)
THEOREM TheLimitHolds == LimiterSpec => []LimitHolds
  <1>1. LimiterInit => LimiterTypes /\ LimitInv
    BY InitLimiterTypes, InitLimit
  <1>2. LimiterTypes /\ LimitInv /\ [LimiterNext]_allVars => (LimiterTypes /\ LimitInv)'
    BY StepKeepsLimiterTypes, StepKeepsLimit
  <1>3. LimiterTypes /\ LimitInv => LimitHolds
    <2> SUFFICES ASSUME LimiterTypes, LimitInv, NEW key \in Keys
                 PROVE  served[key] <= Burst + lost * (Burst + Cardinality(Worker) - 1)
      BY DEF LimitHolds, LimiterTypes, Numbers
    <2>1. served[key] <= Burst + Paid
      BY WithinIs DEF LimitInv, Within
    <2> QED BY <2>1 DEF Paid, Share
  <1> QED BY <1>1, <1>2, <1>3, PTL DEF LimiterSpec

-----------------------------------------------------------------------------
(* The minutes behind a ban *)

Tenfold == Burst * Hammer

(* Up to an age of buckets: the requests about to log the event of one, the *)
(* first violations marked, and of the minutes M the requests whose count   *)
(* makes them log the hammering, and the counters that have come that far.  *)
Persisting(age) == {w \in Worker : pc[w] = "persist" /\ bucket[w] <= age}
Marked(age) == {key \in Keys : once[key] /\ key[2] <= age}
Hammering(age, M) ==
    {w \in Worker : pc[w] = "judge" /\ count[w] = Tenfold /\ bucket[w] <= age
                    /\ bucket[w] \in M}
Hammered(age, M) ==
    {key \in Keys : hits[key] >= Tenfold /\ key[2] <= age /\ key[2] \in M}

(* Two events for each rule and minute whose counters are gone, and one for *)
(* each key that was lost.                                                  *)
Past(age) == minutes \cap (2 .. age)
Twice(n) == 2 * Cardinality(Path) * n
Allowed(age) == lost + Twice(Cardinality(Past(age)))

(* The inductive invariant: up to any age, the events that are logged or    *)
(* will be are allowed by the minutes before, or have a marker or a         *)
(* counter that shows them.  An event of age a is of a bucket of age a or   *)
(* a + 1.  M is any set that holds the minutes exceeded: the request that   *)
(* finds its count at ten times the limit before its minute is exceeded     *)
(* will be the first violation.                                             *)
Spends(age, M) ==
    Total(events, age - 1) + Cardinality(Persisting(age)) + Cardinality(Hammering(age, M))
        <= Allowed(age) + Cardinality(Marked(age)) + Cardinality(Hammered(age, M))

SpanInv ==
    /\ \A key \in Keys : once[key] => key[2] \in minutes
    /\ \A age \in MinuteAge, M \in SUBSET BucketAge :
           minutes \cap BucketAge \subseteq M => Spends(age, M)

LEMMA TenfoldIs ==
    Tenfold \in Nat /\ Burst \in Nat /\ Tenfold > Burst /\ Tenfold >= 2
  <1>1. \A m, n \in Nat : m >= 1 /\ n >= 2 => m * n \in Nat /\ m * n > m /\ m * n >= 2
    <2>1. \A m, n \in Nat : m >= 1 /\ n >= 2 => m * n = m * (n - 1) + m
      BY SMT
    <2>2. \A m, k \in Nat : m >= 1 /\ k >= 1 => m * k \in Nat /\ m * k >= 1
      BY SMT
    <2>3. \A n \in Nat : n >= 2 => n - 1 \in Nat /\ n - 1 >= 1
      OBVIOUS
    <2> QED BY <2>1, <2>2, <2>3
  <1> QED BY <1>1, LimiterAssumption DEF Tenfold

LEMMA TwiceIs ==
    /\ \A n \in Nat : Twice(n) \in Nat
    /\ \A m, n \in Nat : Twice(m + n) = Twice(m) + Twice(n)
    /\ Twice(1) = Cardinality(Path) + Cardinality(Path) /\ Cardinality(Path) \in Nat
    /\ \A n \in Nat : Twice(n) = Cardinality(Path) * n + Cardinality(Path) * n
  <1>1. Cardinality(Path) \in Nat
    BY FiniteAssumption, FS_CardinalityType
  <1>2. \A p, m, n \in Nat : /\ 2 * p * n \in Nat /\ 2 * p * (m + n) = 2 * p * m + 2 * p * n
                             /\ 2 * p * n = p * n + p * n
    BY SMT
  <1> QED BY <1>1, <1>2 DEF Twice

LEMMA KeysAreFinite ==
    /\ IsFiniteSet(Keys)
    /\ \A age, M : Marked(age) \subseteq Keys /\ Hammered(age, M) \subseteq Keys
    /\ \A age, M : Persisting(age) \subseteq Worker /\ Hammering(age, M) \subseteq Worker
  <1>1. IsFiniteSet(BucketAge)
    <2>1. BucketAge = ({} \cup {0}) \cup {1}
      BY DEF BucketAge
    <2>2. IsFiniteSet({} \cup {0})
      BY FS_EmptySet, FS_AddElement
    <2> QED BY <2>1, <2>2, FS_AddElement
  <1> QED BY <1>1, FiniteAssumption, FS_Product
          DEF Keys, Marked, Hammered, Persisting, Hammering

LEMMA AllowedIs ==
    ASSUME LimiterTypes, NEW age \in MinuteAge
    PROVE  /\ Cardinality(Past(age)) \in Nat /\ Allowed(age) \in Nat
           /\ lost' = lost /\ Past(age)' = Past(age) => Allowed(age)' = Allowed(age)
           /\ lost' = lost + 1 /\ Past(age)' = Past(age) => Allowed(age)' = Allowed(age) + 1
  <1>1. IsFiniteSet(2 .. age)
    BY PolicyAssumption, FS_Interval DEF MinuteAge
  <1>2. Cardinality(Past(age)) \in Nat
    BY <1>1, FS_Subset, FS_CardinalityType DEF Past
  <1>3. lost \in Nat /\ Twice(Cardinality(Past(age))) \in Nat
    BY <1>2, TwiceIs DEF LimiterTypes, Numbers
  <1>4. Past(age)' = Past(age) => Twice(Cardinality(Past(age)))' = Twice(Cardinality(Past(age)))
    BY DEF Twice
  <1> QED BY <1>2, <1>3, <1>4 DEF Allowed

LEMMA SpendsAreNumbers ==
    ASSUME LimiterTypes, NEW age \in MinuteAge, NEW M
    PROVE  /\ Total(events, age - 1) \in Nat
           /\ Cardinality(Persisting(age)) \in Nat /\ Cardinality(Hammering(age, M)) \in Nat
           /\ Cardinality(Marked(age)) \in Nat /\ Cardinality(Hammered(age, M)) \in Nat
  <1>1. Total(events, age - 1) \in Nat
    BY QueriesAre DEF LimiterTypes, Types
  <1> QED BY <1>1, KeysAreFinite, ShareIs, FS_Subset, FS_CardinalityType

(* How the four sets change with one request and one key.                   *)
LEMMA SpanTurnout ==
    ASSUME NEW w \in Worker, Others(w), NEW age, NEW M
    PROVE  /\ \E n \in Nat :
                  /\ Cardinality(Persisting(age)) = (IF w \in Persisting(age) THEN n + 1 ELSE n)
                  /\ Cardinality(Persisting(age)') = (IF w \in Persisting(age)' THEN n + 1 ELSE n)
           /\ \E n \in Nat :
                  /\ Cardinality(Hammering(age, M)) =
                        (IF w \in Hammering(age, M) THEN n + 1 ELSE n)
                  /\ Cardinality(Hammering(age, M)') =
                        (IF w \in Hammering(age, M)' THEN n + 1 ELSE n)
  <1> DEFINE S1 == Persisting(age)
             T1 == Persisting(age)'
             S2 == Hammering(age, M)
             T2 == Hammering(age, M)'
  <1>1. T1 \ {w} = S1 \ {w} /\ T2 \ {w} = S2 \ {w}
    BY DEF Others, Persisting, Hammering, Tenfold
  <1>2. S1 \subseteq Worker /\ T1 \subseteq Worker /\ S2 \subseteq Worker /\ T2 \subseteq Worker
    BY DEF Persisting, Hammering
  <1>3. IsFiniteSet(S1) /\ IsFiniteSet(T1) /\ IsFiniteSet(S2) /\ IsFiniteSet(T2)
    BY <1>2, ShareIs, FS_Subset
  <1> HIDE DEF S1, T1, S2, T2
  <1>4. \E n \in Nat : /\ Cardinality(S1) = (IF w \in S1 THEN n + 1 ELSE n)
                       /\ Cardinality(T1) = (IF w \in T1 THEN n + 1 ELSE n)
    BY <1>1, <1>3, OneMoves
  <1>5. \E n \in Nat : /\ Cardinality(S2) = (IF w \in S2 THEN n + 1 ELSE n)
                       /\ Cardinality(T2) = (IF w \in T2 THEN n + 1 ELSE n)
    BY <1>1, <1>3, OneMoves
  <1> QED BY <1>4, <1>5 DEF S1, T1, S2, T2

LEMMA KeyTurnout ==
    ASSUME NEW key \in Keys, NEW age, NEW M,
           \A other \in Keys \ {key} : once'[other] = once[other] /\ hits'[other] = hits[other]
    PROVE  /\ \E n \in Nat :
                  /\ Cardinality(Marked(age)) = (IF key \in Marked(age) THEN n + 1 ELSE n)
                  /\ Cardinality(Marked(age)') = (IF key \in Marked(age)' THEN n + 1 ELSE n)
           /\ \E n \in Nat :
                  /\ Cardinality(Hammered(age, M)) =
                        (IF key \in Hammered(age, M) THEN n + 1 ELSE n)
                  /\ Cardinality(Hammered(age, M)') =
                        (IF key \in Hammered(age, M)' THEN n + 1 ELSE n)
  <1> DEFINE S1 == Marked(age)
             T1 == Marked(age)'
             S2 == Hammered(age, M)
             T2 == Hammered(age, M)'
  <1>1. T1 \ {key} = S1 \ {key} /\ T2 \ {key} = S2 \ {key}
    BY DEF Marked, Hammered, Tenfold, Keys
  <1>2. S1 \subseteq Keys /\ T1 \subseteq Keys /\ S2 \subseteq Keys /\ T2 \subseteq Keys
    BY DEF Marked, Hammered, Keys
  <1>3. IsFiniteSet(S1) /\ IsFiniteSet(T1) /\ IsFiniteSet(S2) /\ IsFiniteSet(T2)
    BY <1>2, KeysAreFinite, FS_Subset
  <1> HIDE DEF S1, T1, S2, T2
  <1>4. \E n \in Nat : /\ Cardinality(S1) = (IF key \in S1 THEN n + 1 ELSE n)
                       /\ Cardinality(T1) = (IF key \in T1 THEN n + 1 ELSE n)
    BY <1>1, <1>3, OneMoves
  <1>5. \E n \in Nat : /\ Cardinality(S2) = (IF key \in S2 THEN n + 1 ELSE n)
                       /\ Cardinality(T2) = (IF key \in T2 THEN n + 1 ELSE n)
    BY <1>1, <1>3, OneMoves
  <1> QED BY <1>4, <1>5 DEF S1, T1, S2, T2

(* What a request and its key put on the two sides.                         *)
One(condition) == IF condition THEN 1 ELSE 0
Asks(w, age, M) == One(w \in Persisting(age)) + One(w \in Hammering(age, M))
Shows(key, age, M) == One(key \in Marked(age)) + One(key \in Hammered(age, M))

LEMMA Exchange ==
    ASSUME LimiterTypes, NEW w \in Worker, Others(w), NEW key \in Keys,
           NEW age \in MinuteAge, NEW M,
           \A other \in Keys \ {key} : once'[other] = once[other] /\ hits'[other] = hits[other],
           Total(events', age - 1) = Total(events, age - 1), Past(age)' = Past(age),
           NEW failed \in {0, 1}, lost' = lost + failed,
           Asks(w, age, M)' + Shows(key, age, M)
               <= Asks(w, age, M) + Shows(key, age, M)' + failed,
           Spends(age, M)
    PROVE  Spends(age, M)'
  <1>1. PICK p \in Nat :
            /\ Cardinality(Persisting(age)) = p + One(w \in Persisting(age))
            /\ Cardinality(Persisting(age)') = p + One(w \in Persisting(age)')
    BY SpanTurnout DEF One
  <1>2. PICK h \in Nat :
            /\ Cardinality(Hammering(age, M)) = h + One(w \in Hammering(age, M))
            /\ Cardinality(Hammering(age, M)') = h + One(w \in Hammering(age, M)')
    BY SpanTurnout DEF One
  <1>3. PICK m \in Nat :
            /\ Cardinality(Marked(age)) = m + One(key \in Marked(age))
            /\ Cardinality(Marked(age)') = m + One(key \in Marked(age)')
    BY KeyTurnout DEF One
  <1>4. PICK k \in Nat :
            /\ Cardinality(Hammered(age, M)) = k + One(key \in Hammered(age, M))
            /\ Cardinality(Hammered(age, M)') = k + One(key \in Hammered(age, M)')
    BY KeyTurnout DEF One
  <1>5. Allowed(age) \in Nat /\ Allowed(age)' = Allowed(age) + failed
    <2>1. lost \in Nat
      BY DEF LimiterTypes, Numbers
    <2> QED BY <2>1, AllowedIs
  <1>6. Total(events, age - 1) \in Nat
    BY SpendsAreNumbers
  <1>7. \A condition : One(condition) \in {0, 1}
    BY DEF One
  <1> DEFINE p0 == One(w \in Persisting(age))
             p1 == One(w \in Persisting(age)')
             h0 == One(w \in Hammering(age, M))
             h1 == One(w \in Hammering(age, M)')
             m0 == One(key \in Marked(age))
             m1 == One(key \in Marked(age)')
             k0 == One(key \in Hammered(age, M))
             k1 == One(key \in Hammered(age, M)')
  <1>8. /\ {p0, p1, h0, h1, m0, m1, k0, k1} \subseteq {0, 1}
        /\ p1 + h1 + (m0 + k0) <= p0 + h0 + (m1 + k1) + failed
    BY <1>7 DEF Asks, Shows
  <1>9. /\ Total(events, age - 1) + (p + p0) + (h + h0) <= Allowed(age) + (m + m0) + (k + k0)
    BY <1>1, <1>2, <1>3, <1>4 DEF Spends
  <1>10. Spends(age, M)' <=>
             Total(events, age - 1) + (p + p1) + (h + h1)
                 <= Allowed(age) + failed + (m + m1) + (k + k1)
    BY <1>1, <1>2, <1>3, <1>4, <1>5 DEF Spends, Total, Upto
  <1> HIDE DEF p0, p1, h0, h1, m0, m1, k0, k1
  <1> QED BY <1>5, <1>6, <1>8, <1>9, <1>10

(* Membership, of a request and of the key it has. *)
LEMMA MembershipIs ==
    ASSUME LimiterTypes, LimiterTypes', NEW w \in Worker, NEW key \in Keys,
           key[2] = bucket[w], NEW age, NEW M
    PROVE  /\ w \in Persisting(age) <=> pc[w] = "persist" /\ key[2] <= age
           /\ w \in Hammering(age, M) <=>
                  pc[w] = "judge" /\ count[w] = Tenfold /\ key[2] <= age /\ key[2] \in M
           /\ key \in Marked(age) <=> once[key] /\ key[2] <= age
           /\ key \in Hammered(age, M) <=>
                  hits[key] >= Tenfold /\ key[2] <= age /\ key[2] \in M
           /\ w \in Persisting(age)' <=> pc'[w] = "persist" /\ bucket'[w] <= age
           /\ w \in Hammering(age, M)' <=>
                  pc'[w] = "judge" /\ count'[w] = Tenfold /\ bucket'[w] <= age
                      /\ bucket'[w] \in M
           /\ key \in Marked(age)' <=> once'[key] /\ key[2] <= age
           /\ key \in Hammered(age, M)' <=>
                  hits'[key] >= Tenfold /\ key[2] <= age /\ key[2] \in M
  BY DEF Persisting, Hammering, Marked, Hammered, Tenfold, Keys

LEMMA KeyOfRequest ==
    ASSUME LimiterTypes, NEW w \in Worker, pc[w] # "idle"
    PROVE  Key(w) \in Keys /\ Key(w)[2] = bucket[w]
  <1>1. req[w] \in [reason : Reason, path : Path, who : Who]
    BY DEF LimiterTypes, Types, Request
  <1> QED BY <1>1 DEF Key, Keys, LimiterTypes, Numbers

(* What each step of the limiter puts on the two sides.                     *)
LEMMA LimitsExchange ==
    ASSUME LimiterTypes, LimiterTypes', NEW w \in Worker, Others(w), Limits(w),
           NEW key \in Keys, key = Key(w), NEW age, NEW M,
           once[key] => key[2] \in M, ~Arrive(w)
    PROVE  \E failed \in {0, 1} :
               /\ lost' = lost + failed
               /\ \A other \in Keys \ {key} :
                      once'[other] = once[other] /\ hits'[other] = hits[other]
               /\ Asks(w, age, M)' + Shows(key, age, M)
                      <= Asks(w, age, M) + Shows(key, age, M)' + failed
  <1> DEFINE early == key[2] <= age
             inM == key[2] \in M
  <1>1. /\ pc \in [Worker -> LimiterLabel] /\ hits \in [Keys -> Nat]
        /\ once \in [Keys -> BOOLEAN] /\ count \in [Worker -> Nat] /\ lost \in Nat
        /\ key[2] = bucket[w] /\ lost = lost + 0
    BY DEF LimiterTypes, Types, Numbers, Key
  <1>2. /\ Asks(w, age, M) = One(pc[w] = "persist" /\ early)
                             + One(pc[w] = "judge" /\ count[w] = Tenfold /\ early /\ inM)
        /\ Shows(key, age, M) = One(once[key] /\ early)
                                + One(hits[key] >= Tenfold /\ early /\ inM)
        /\ Shows(key, age, M)' = One(once'[key] /\ early)
                                 + One(hits'[key] >= Tenfold /\ early /\ inM)
    BY <1>1, MembershipIs DEF Asks, Shows, One
  <1>3. UNCHANGED bucket \/ pc'[w] = "idle" =>
            Asks(w, age, M)' = One(pc'[w] = "persist" /\ early)
                + One(pc'[w] = "judge" /\ count'[w] = Tenfold /\ early /\ inM)
    BY <1>1, MembershipIs DEF Asks, One
  <1> HIDE DEF early, inM
  <1> USE DEF At, Goto, Finish, Forget, ForgetCount
  <1>4. CASE Hit(w)
    <2>1. /\ UNCHANGED <<bucket, once, lost>> /\ pc[w] = "hit"
          /\ \/ pc'[w] = "create" /\ UNCHANGED hits
             \/ /\ pc'[w] = "judge" /\ count'[w] = hits[key] + 1
                /\ hits' = [hits EXCEPT ![key] = @ + 1]
      BY <1>1, <1>4 DEF Hit
    <2> QED BY <1>1, <1>2, <1>3, <2>1, TenfoldIs DEF One
  <1>5. CASE Create(w)
    <2>1. /\ UNCHANGED <<bucket, once, lost>> /\ pc[w] = "create"
          /\ \/ pc'[w] = "increase" /\ UNCHANGED hits
             \/ /\ pc'[w] = "judge" /\ count'[w] = 1 /\ hits[key] = 0
                /\ hits' = [hits EXCEPT ![key] = 1]
      BY <1>1, <1>5 DEF Create
    <2> QED BY <1>1, <1>2, <1>3, <2>1, TenfoldIs DEF One
  <1>6. CASE Increase(w)
    <2>1. /\ UNCHANGED <<once, lost>> /\ pc[w] = "increase"
          /\ \/ pc'[w] = "idle" /\ UNCHANGED hits
             \/ /\ pc'[w] = "judge" /\ count'[w] = hits[key] + 1 /\ UNCHANGED bucket
                /\ hits' = [hits EXCEPT ![key] = @ + 1]
      BY <1>1, <1>6 DEF Increase
    <2> QED BY <1>1, <1>2, <1>3, <2>1, TenfoldIs DEF One
  <1>7. CASE Pass(w)
    <2>1. /\ UNCHANGED <<once, lost, hits>> /\ pc[w] = "judge" /\ count[w] <= Burst
          /\ pc'[w] = "idle"
      BY <1>1, <1>7 DEF Pass
    <2> QED BY <1>1, <1>2, <1>3, <2>1, TenfoldIs DEF One
  <1>8. CASE FirstViolation(w)
    <2>1. /\ UNCHANGED <<bucket, lost, hits>> /\ pc[w] = "judge" /\ pc'[w] = "persist"
          /\ ~once[key] /\ once' = [once EXCEPT ![key] = TRUE]
      BY <1>1, <1>8 DEF FirstViolation
    <2> QED BY <1>1, <1>2, <1>3, <2>1 DEF One
  <1>9. CASE LaterViolation(w)
    <2>1. /\ UNCHANGED <<once, lost, hits>> /\ pc[w] = "judge" /\ once[key]
          /\ \/ pc'[w] = "persist" /\ count[w] = Tenfold /\ UNCHANGED bucket
             \/ pc'[w] = "idle"
      BY <1>1, <1>9 DEF LaterViolation, Tenfold
    <2>2. inM
      BY <2>1 DEF inM
    <2> QED BY <1>1, <1>2, <1>3, <2>1, <2>2 DEF One
  <1>10. CASE CounterFails(w)
    <2>1. /\ UNCHANGED <<once, hits>> /\ lost' = lost + 1
          /\ \/ pc'[w] = "persist" /\ UNCHANGED bucket
             \/ pc'[w] = "idle"
          /\ pc[w] # "persist"
      BY <1>1, <1>10 DEF CounterFails
    <2> QED BY <1>1, <1>2, <1>3, <2>1 DEF One
  <1> QED BY <1>4, <1>5, <1>6, <1>7, <1>8, <1>9, <1>10 DEF Limits

LEMMA LeavesExchange ==
    ASSUME LimiterTypes, LimiterTypes', NEW w \in Worker, NEW key \in Keys,
           key[2] = bucket[w], NEW age, NEW M, UNCHANGED <<hits, once, lost>>,
           pc'[w] \notin {"persist", "judge"}
    PROVE  \E failed \in {0, 1} :
               /\ lost' = lost + failed
               /\ Asks(w, age, M)' + Shows(key, age, M)
                      <= Asks(w, age, M) + Shows(key, age, M)' + failed
  <1>1. /\ w \notin Persisting(age)' /\ w \notin Hammering(age, M)'
        /\ key \in Marked(age)' <=> key \in Marked(age)
        /\ key \in Hammered(age, M)' <=> key \in Hammered(age, M)
    BY MembershipIs
  <1>2. Asks(w, age, M)' = 0 /\ Shows(key, age, M)' = Shows(key, age, M)
    BY <1>1 DEF Asks, Shows, One
  <1>3. Asks(w, age, M) \in Nat /\ Shows(key, age, M) \in Nat
    BY DEF Asks, Shows, One
  <1>4. lost' = lost + 0
    BY DEF LimiterTypes, Numbers
  <1> QED BY <1>2, <1>3, <1>4

(* The steps that leave the events to others. *)
LEMMA LimitsKeepsSpan ==
    ASSUME LimiterTypes, LimiterTypes', NEW w \in Worker, Others(w), SpanInv, Limits(w)
    PROVE  SpanInv'
  <1>1. /\ UNCHANGED events
        /\ minutes' = minutes \/ minutes' = minutes \cup {bucket[w]}
    BY DEF Limits, Arrive, Hit, Create, Increase, Pass, FirstViolation, LaterViolation,
           CounterFails, LimiterOnly, limiterVars
  <1>2. \A age : Past(age)' = Past(age) /\ Total(events', age - 1) = Total(events, age - 1)
    BY <1>1 DEF LimiterTypes, Numbers, BucketAge, Past
  <1>3. \A M : minutes' \cap BucketAge \subseteq M => minutes \cap BucketAge \subseteq M
    BY <1>1
  <1>4. CASE Arrive(w)
    <2>1. PICK path \in Path : TRUE
      BY <1>4 DEF Arrive
    <2> DEFINE key == <<path, bucket[w]>>
    <2>2. key \in Keys /\ key[2] = bucket[w]
      BY DEF Keys, LimiterTypes, Numbers
    <2>3. /\ UNCHANGED <<hits, once, bucket, minutes, lost>> /\ pc[w] = "idle" /\ pc'[w] = "hit"
      BY <1>4 DEF Arrive, limiterVars, At, Goto, LimiterTypes, Types
    <2> HIDE DEF key
    <2>4. ASSUME NEW age \in MinuteAge, NEW M \in SUBSET BucketAge, Spends(age, M)
          PROVE  Spends(age, M)'
      BY <1>2, <2>2, <2>3, <2>4, LeavesExchange, Exchange
    <2> QED BY <1>3, <2>3, <2>4 DEF SpanInv, Keys
  <1>5. CASE ~Arrive(w)
    <2>1. pc[w] \in Limiting /\ pc[w] # "idle"
      BY <1>5, LimitsMoves DEF Limiting
    <2> DEFINE key == Key(w)
    <2>2. key \in Keys /\ key[2] = bucket[w] /\ bucket[w] \in BucketAge
      BY <2>1, KeyOfRequest DEF LimiterTypes, Numbers
    <2>3. \A other \in Keys : once'[other] => once[other] \/ (other = key /\ key[2] \in minutes')
      BY <2>2 DEF Limits, Arrive, Hit, Create, Increase, Pass, FirstViolation, LaterViolation,
                  CounterFails, limiterVars, LimiterTypes, Numbers
    <2> HIDE DEF key
    <2>4. ASSUME NEW age \in MinuteAge, NEW M \in SUBSET BucketAge, Spends(age, M),
                 minutes \cap BucketAge \subseteq M
          PROVE  Spends(age, M)'
      <3>1. once[key] => key[2] \in M
        BY <2>2, <2>4 DEF SpanInv
      <3>2. key = Key(w)
        BY DEF key
      <3> QED BY <1>2, <1>5, <2>2, <2>4, <3>1, <3>2, LimitsExchange, Exchange
    <2> QED BY <1>1, <1>3, <2>3, <2>4 DEF SpanInv, Keys
  <1> QED BY <1>4, <1>5

(* A request past the limiter, or cut short. *)
LEMMA LeavesSpan ==
    ASSUME LimiterTypes, LimiterTypes', NEW w \in Worker, Others(w), SpanInv,
           Outage(w) \/ Crash(w) \/ Evaluate(w),
           At(w, "persist") \/ ~Outage(w),
           UNCHANGED <<hits, once, minutes, lost>>
    PROVE  SpanInv'
  <1>1. UNCHANGED events /\ pc[w] # "idle" /\ pc'[w] \notin {"persist", "judge"}
    BY DEF Outage, Crash, Evaluate, CountEvents, CountPaths, TakeLock, WriteBan, At, Goto,
           Finish, LimiterTypes, Types
  <1> DEFINE key == Key(w)
  <1>2. key \in Keys /\ key[2] = bucket[w]
    BY <1>1, KeyOfRequest
  <1> HIDE DEF key
  <1>3. ASSUME NEW age \in MinuteAge, NEW M \in SUBSET BucketAge, Spends(age, M)
        PROVE  Spends(age, M)'
    BY <1>1, <1>2, <1>3, LeavesExchange, Exchange DEF Past
  <1> QED BY <1>3 DEF SpanInv, Keys

(* The event of a request is logged: it was allowed when it was due.        *)
LEMMA PersistAddsOne ==
    ASSUME NEW labels, Types(labels), NEW w \in Worker, Persist(w), NEW age \in Int
    PROVE  IF age >= 0 THEN Total(events', age) = Total(events, age) + 1
                       ELSE Total(events', age) = Total(events, age)
  <1> DEFINE new == EventOf(w)
             S == Upto(events, age)
             T == Upto(events', age)
  <1>1. /\ DOMAIN events' = DOMAIN events \cup {new} /\ new \in Event
        /\ events'[new] = IF new \in DOMAIN events THEN events[new] + 1 ELSE 1
        /\ \A e \in DOMAIN events \ {new} : events'[e] = events[e]
    BY PersistAdds
  <1>2. new.age = 0
    BY DEF EventOf
  <1>3. /\ IsFiniteSet(DOMAIN events) /\ \A e \in DOMAIN events : events[e] \in Nat \ {0}
        /\ \A e \in DOMAIN events : e.age \in Int
    BY DEF Types, Bag, Event, Age
  <1>4. IsFiniteSet(S) /\ Counts(events, S) /\ Counts(events', S)
    BY <1>1, <1>3, FS_Subset DEF Upto, Counts
  <1>5. CASE age < 0
    <2>1. T = S /\ new \notin S
      BY <1>1, <1>2, <1>5 DEF Upto
    <2> HIDE DEF new, S, T
    <2>2. \A e \in S : events'[e] = events[e]
      BY <1>1, <2>1 DEF S, Upto
    <2>3. SumOf(events', S) = SumOf(events, S)
      BY <1>4, <2>2, SumCongruence
    <2> QED BY <1>5, <2>1, <2>3 DEF Total, S, T
  <1>6. CASE age >= 0
    <2>1. T = S \cup {new}
      BY <1>1, <1>2, <1>6 DEF Upto
    <2>2. Counts(events', S \cup {new})
      BY <1>1, <1>3, <1>4 DEF Counts
    <2>3. S \subseteq DOMAIN events /\ (new \in DOMAIN events => new \in S)
      BY <1>2, <1>6 DEF Upto
    <2> HIDE DEF new, S, T
    <2>4. CASE new \in S
      <3>1. events'[new] = events[new] + 1 /\ events[new] \in Nat
        BY <1>1, <1>3, <2>3, <2>4
      <3>2. \A e \in S \ {new} : events'[e] = events[e]
        BY <1>1, <2>3
      <3>3. SumOf(events', S) + events[new] = SumOf(events, S) + events'[new]
        BY <1>4, <2>4, <3>2, SumChange
      <3>4. SumOf(events', S) \in Nat /\ SumOf(events, S) \in Nat
        BY <1>4, SumType
      <3>5. T = S
        BY <2>1, <2>4
      <3> QED BY <1>6, <3>1, <3>3, <3>4, <3>5 DEF Total, S, T
    <2>5. CASE new \notin S
      <3>1. events'[new] = 1
        BY <1>1, <2>3, <2>5
      <3>2. \A e \in S : events'[e] = events[e]
        BY <1>1, <2>3, <2>5
      <3>3. SumOf(events', S) = SumOf(events, S)
        BY <1>4, <3>2, SumCongruence
      <3>4. SumOf(events', S \cup {new}) = events'[new] + SumOf(events', S)
        BY <1>4, <2>2, <2>5, SumAdd
      <3>5. SumOf(events, S) \in Nat
        BY <1>4, SumType
      <3> QED BY <1>6, <2>1, <3>1, <3>3, <3>4, <3>5 DEF Total, S, T
    <2> QED BY <2>4, <2>5
  <1> QED BY <1>5, <1>6

LEMMA PersistKeepsSpan ==
    ASSUME LimiterTypes, LimiterTypes', NEW w \in Worker, Others(w), SpanInv, Persist(w),
           UNCHANGED <<hits, once, minutes, lost>>
    PROVE  SpanInv'
  <1>1. pc[w] = "persist" /\ pc'[w] = "count"
    BY DEF Persist, At, Goto, LimiterTypes, Types
  <1>2. ASSUME NEW age \in MinuteAge, NEW M \in SUBSET BucketAge, Spends(age, M)
        PROVE  Spends(age, M)'
    <2>1. age \in Nat /\ bucket[w] \in {0, 1}
      BY DEF MinuteAge, LimiterTypes, Numbers, BucketAge
    <2>2. /\ w \notin Persisting(age)' /\ w \notin Hammering(age, M)'
          /\ w \notin Hammering(age, M) /\ (age >= 1 => w \in Persisting(age))
      BY <1>1, <2>1 DEF Persisting, Hammering
    <2>3. IF age >= 1 THEN Total(events', age - 1) = Total(events, age - 1) + 1
                      ELSE Total(events', age - 1) = Total(events, age - 1)
      BY <2>1, PersistAddsOne DEF LimiterTypes
    <2>4. Marked(age)' = Marked(age) /\ Hammered(age, M)' = Hammered(age, M)
      BY DEF Marked, Hammered, Keys, Tenfold
    <2>5. Allowed(age)' = Allowed(age) /\ Allowed(age) \in Nat
      BY AllowedIs DEF Past
    <2>6. Total(events, age - 1) \in Nat
      BY SpendsAreNumbers
    <2>7. Cardinality(Hammering(age, M)') = Cardinality(Hammering(age, M))
      BY <2>2, SpanTurnout
    <2>8. /\ Cardinality(Persisting(age)') <= Cardinality(Persisting(age))
          /\ age >= 1 => Cardinality(Persisting(age)') = Cardinality(Persisting(age)) - 1
          /\ Cardinality(Persisting(age)') \in Nat
      BY <2>2, SpanTurnout
    <2>9. /\ Cardinality(Persisting(age)) \in Nat /\ Cardinality(Hammering(age, M)) \in Nat
          /\ Cardinality(Marked(age)) \in Nat /\ Cardinality(Hammered(age, M)) \in Nat
      BY SpendsAreNumbers
    <2>10. Total(events, age - 1)' = Total(events', age - 1)
      BY DEF Total, Upto
    <2> QED BY <1>2, <2>1, <2>3, <2>4, <2>5, <2>6, <2>7, <2>8, <2>9, <2>10 DEF Spends
  <1> QED BY <1>2 DEF SpanInv, Keys

LEMMA EvictionKeepsSpan ==
    ASSUME LimiterTypes, SpanInv, EvictCounter
    PROVE  SpanInv'
  <1>1. UNCHANGED <<vars, bucket, count, minutes>> /\ lost' = lost + 1
    BY DEF EvictCounter
  <1>2. PICK key \in Keys :
            /\ \A other \in Keys \ {key} : once'[other] = once[other] /\ hits'[other] = hits[other]
            /\ \/ once'[key] = once[key] \/ hits'[key] = hits[key]
            /\ once'[key] => once[key]
    BY DEF EvictCounter, LimiterTypes, Numbers
  <1>3. ASSUME NEW age \in MinuteAge, NEW M \in SUBSET BucketAge, Spends(age, M)
        PROVE  Spends(age, M)'
    <2>1. Persisting(age)' = Persisting(age) /\ Hammering(age, M)' = Hammering(age, M)
      BY <1>1 DEF Persisting, Hammering, Tenfold, vars
    <2>2. \/ key \in Marked(age)' <=> key \in Marked(age)
          \/ key \in Hammered(age, M)' <=> key \in Hammered(age, M)
      BY <1>2 DEF Marked, Hammered, Keys, Tenfold
    <2>3. Allowed(age)' = Allowed(age) + 1 /\ Allowed(age) \in Nat
      BY <1>1, AllowedIs DEF Past
    <2>4. Total(events, age - 1)' = Total(events, age - 1)
      BY <1>1 DEF Total, Upto, vars
    <2>5. PICK m \in Nat :
            /\ Cardinality(Marked(age)) = (IF key \in Marked(age) THEN m + 1 ELSE m)
            /\ Cardinality(Marked(age)') = (IF key \in Marked(age)' THEN m + 1 ELSE m)
      BY <1>2, KeyTurnout
    <2>6. PICK n \in Nat :
            /\ Cardinality(Hammered(age, M)) = (IF key \in Hammered(age, M) THEN n + 1 ELSE n)
            /\ Cardinality(Hammered(age, M)') = (IF key \in Hammered(age, M)' THEN n + 1 ELSE n)
      BY <1>2, KeyTurnout
    <2>7. /\ Total(events, age - 1) \in Nat
          /\ Cardinality(Persisting(age)) \in Nat /\ Cardinality(Hammering(age, M)) \in Nat
      BY SpendsAreNumbers
    <2>8. Cardinality(Marked(age)) + Cardinality(Hammered(age, M))
              <= Cardinality(Marked(age)') + Cardinality(Hammered(age, M)') + 1
      BY <2>2, <2>5, <2>6
    <2> QED BY <1>3, <2>1, <2>3, <2>4, <2>5, <2>6, <2>7, <2>8 DEF Spends
  <1>4. \A other \in Keys : once'[other] => once[other]
    BY <1>2
  <1> QED BY <1>1, <1>3, <1>4 DEF SpanInv, Keys

-----------------------------------------------------------------------------
(* A minute ends *)

(* The rules with a key of an age in a set of keys.                         *)
RulesOf(S, age) == {path \in Path : <<path, age>> \in S}

LEMMA KeysSplit ==
    ASSUME NEW S, S \subseteq Keys
    PROVE  /\ Cardinality(S) = Cardinality(RulesOf(S, 0)) + Cardinality(RulesOf(S, 1))
           /\ Cardinality(RulesOf(S, 0)) \in Nat /\ Cardinality(RulesOf(S, 1)) \in Nat
           /\ Cardinality(RulesOf(S, 0)) <= Cardinality(Path)
           /\ Cardinality(RulesOf(S, 1)) <= Cardinality(Path)
  <1> DEFINE A == RulesOf(S, 0)
             B == RulesOf(S, 1)
  <1>1. S = (A \X {0}) \cup (B \X {1}) /\ (A \X {0}) \cap (B \X {1}) = {}
    <2>1. \A key \in S : key = <<key[1], key[2]>> /\ key[1] \in Path /\ key[2] \in {0, 1}
      BY AgedIsTyped
    <2>2. S \subseteq (A \X {0}) \cup (B \X {1})
      BY <2>1 DEF RulesOf
    <2>3. (A \X {0}) \cup (B \X {1}) \subseteq S
      BY DEF RulesOf
    <2> QED BY <2>2, <2>3
  <1>2. A \subseteq Path /\ B \subseteq Path
    BY DEF RulesOf
  <1> HIDE DEF A, B
  <1>3. /\ IsFiniteSet(A) /\ Cardinality(A) <= Cardinality(Path) /\ Cardinality(A) \in Nat
        /\ IsFiniteSet(B) /\ Cardinality(B) <= Cardinality(Path) /\ Cardinality(B) \in Nat
    BY <1>2, FiniteAssumption, FS_Subset, FS_CardinalityType
  <1>4. \A X, n : IsFiniteSet(X) =>
            IsFiniteSet(X \X {n}) /\ Cardinality(X \X {n}) = Cardinality(X)
    <2> SUFFICES ASSUME NEW X, NEW n, IsFiniteSet(X)
                 PROVE  IsFiniteSet(X \X {n}) /\ Cardinality(X \X {n}) = Cardinality(X)
      OBVIOUS
    <2>1. IsFiniteSet({n}) /\ Cardinality({n}) = 1
      BY FS_Singleton
    <2>2. IsFiniteSet(X \X {n}) /\ Cardinality(X \X {n}) = Cardinality(X) * Cardinality({n})
      BY <2>1, FS_Product
    <2>3. Cardinality(X) \in Nat
      BY FS_CardinalityType
    <2> QED BY <2>1, <2>2, <2>3
  <1>5. Cardinality(S) = Cardinality(A) + Cardinality(B) - Cardinality({})
    <2> DEFINE C == A \X {0}
               D == B \X {1}
    <2>1. /\ IsFiniteSet(C) /\ Cardinality(C) = Cardinality(A)
          /\ IsFiniteSet(D) /\ Cardinality(D) = Cardinality(B)
      BY <1>3, <1>4
    <2>2. S = C \cup D /\ C \cap D = {}
      BY <1>1
    <2> HIDE DEF C, D
    <2> QED BY <2>1, <2>2, FS_Union
  <1>6. Cardinality({}) = 0
    BY FS_EmptySet
  <1> QED BY <1>3, <1>5, <1>6 DEF A, B

(* Keys that grow a minute older lose those of the minute before.           *)
LEMMA AgedKeys ==
    ASSUME NEW S, S \subseteq Keys, NEW T, T \subseteq Keys,
           RulesOf(S, 0) \subseteq RulesOf(T, 1)
    PROVE  /\ Cardinality(S) <= Cardinality(T) + Cardinality(Path)
           /\ RulesOf(S, 1) = {} => Cardinality(S) <= Cardinality(T)
           /\ Cardinality(S) \in Nat /\ Cardinality(T) \in Nat
  <1>1. RulesOf(T, 1) \subseteq Path
    BY DEF RulesOf
  <1>2. Cardinality(RulesOf(S, 0)) <= Cardinality(RulesOf(T, 1))
    <2>1. IsFiniteSet(RulesOf(T, 1))
      BY <1>1, FiniteAssumption, FS_Subset
    <2> QED BY <2>1, FS_Subset
  <1>3. RulesOf(S, 1) = {} => Cardinality(RulesOf(S, 1)) = 0
    BY FS_EmptySet
  <1>4. Cardinality(Path) \in Nat
    BY FiniteAssumption, FS_CardinalityType
  <1>5. /\ Cardinality(S) = Cardinality(RulesOf(S, 0)) + Cardinality(RulesOf(S, 1))
        /\ Cardinality(RulesOf(S, 0)) \in Nat /\ Cardinality(RulesOf(S, 1)) \in Nat
        /\ Cardinality(RulesOf(S, 1)) <= Cardinality(Path)
    BY KeysSplit
  <1>6. /\ Cardinality(T) = Cardinality(RulesOf(T, 0)) + Cardinality(RulesOf(T, 1))
        /\ Cardinality(RulesOf(T, 0)) \in Nat /\ Cardinality(RulesOf(T, 1)) \in Nat
    BY KeysSplit
  <1> QED BY <1>2, <1>3, <1>4, <1>5, <1>6

(* The minute before has now passed. *)
LEMMA AgedMinutes ==
    ASSUME LimiterTypes, TickLimiter, NEW age \in MinuteAge, age >= 1
    PROVE  \E extra \in Nat :
               /\ Cardinality(Past(age)') = Cardinality(Past(age - 1)) + extra
               /\ 1 \in minutes /\ age >= 2 => extra >= 1
               /\ Cardinality(Past(age - 1)) \in Nat
  <1> DEFINE new == Past(age)'
             old == minutes \cap (1 .. age - 1)
             back == [m \in new |-> m - 1]
  <1>1. minutes' = {m + 1 : m \in minutes} \cap MinuteAge /\ minutes \subseteq MinuteAge
    BY DEF TickLimiter, LimiterTypes, Numbers
  <1>2. age \in Nat /\ \A m \in MinuteAge : m \in Nat
    BY DEF MinuteAge
  <1>3. \A m \in 1 .. age - 1 : m + 1 \in MinuteAge
    BY <1>2, PolicyAssumption DEF MinuteAge
  <1>4. new = {m + 1 : m \in old}
    BY <1>1, <1>2, <1>3 DEF Past
  <1>5. back \in Surjection(new, old)
    <2>1. \A m \in old : m \in Nat
      BY <1>1, <1>2
    <2>2. \A m \in new : m - 1 \in old
      BY <1>4, <2>1
    <2>3. \A m \in old : m + 1 \in new /\ (m + 1) - 1 = m
      BY <1>4, <2>1
    <2> HIDE DEF new, old
    <2> QED BY <2>2, <2>3 DEF Surjection
  <1>6. IsFiniteSet(new)
    <2>1. IsFiniteSet(2 .. age)
      BY <1>2, FS_Interval
    <2> QED BY <2>1, FS_Subset DEF Past
  <1>7. IsFiniteSet(old) /\ Cardinality(old) <= Cardinality(new) /\ Cardinality(new) \in Nat
    <2> HIDE DEF new, old, back
    <2> QED BY <1>5, <1>6, FS_Surjection, FS_CardinalityType
  <1>8. old = Past(age - 1) \cup (IF 1 \in minutes /\ age >= 2 THEN {1} ELSE {})
    BY <1>1, <1>2 DEF Past
  <1>9. IsFiniteSet(Past(age - 1)) /\ 1 \notin Past(age - 1)
    BY <1>2, <1>7, <1>8, FS_Subset DEF Past
  <1>10. Cardinality(old) =
            IF 1 \in minutes /\ age >= 2 THEN Cardinality(Past(age - 1)) + 1
                                         ELSE Cardinality(Past(age - 1))
    <2> HIDE DEF old
    <2> QED BY <1>8, <1>9, FS_AddElement
  <1>11. Cardinality(Past(age - 1)) \in Nat
    BY <1>9, FS_CardinalityType
  <1> HIDE DEF new, old
  <1> DEFINE extra == Cardinality(new) - Cardinality(Past(age - 1))
  <1>12. extra \in Nat /\ (1 \in minutes /\ age >= 2 => extra >= 1)
    BY <1>7, <1>10, <1>11
  <1>13. Cardinality(new) = Cardinality(Past(age - 1)) + extra
    BY <1>7, <1>11
  <1> HIDE DEF extra
  <1> QED BY <1>11, <1>12, <1>13 DEF new

LEMMA TickKeepsSpends ==
    ASSUME LimiterTypes, SpanInv, TickLimiter, NEW age \in MinuteAge,
           NEW M \in SUBSET BucketAge, minutes' \cap BucketAge \subseteq M
    PROVE  Spends(age, M)'
  <1> DEFINE prior == (IF 1 \in M THEN {0} ELSE {}) \cup (minutes \cap {1})
             before == age - 1
  <1>1. /\ pc' = pc /\ req' = req /\ count' = count /\ lost' = lost /\ events' = AgedEvents
        /\ \A w \in Worker : pc[w] \in Limiting => bucket[w] = 0 /\ bucket'[w] = 1
        /\ hits' = Aged(hits, 0) /\ once' = Aged(once, FALSE)
        /\ minutes' = {m + 1 : m \in minutes} \cap MinuteAge
    BY DEF TickLimiter, Tick, LimiterTypes, Numbers, BucketAge
  <1>2. age \in Nat /\ Window + Slack \in Nat /\ Window + Slack >= 1 /\ Bag
    BY PolicyAssumption DEF MinuteAge, LimiterTypes, Types
  <1>3. /\ Marked(age)' \subseteq Keys /\ Hammered(age, M)' \subseteq Keys
        /\ Past(age)' \subseteq 2 .. age
    BY DEF Marked, Hammered, Keys, Past
  <1>4. /\ Cardinality(Marked(age)') \in Nat /\ Cardinality(Hammered(age, M)') \in Nat
        /\ Cardinality(Past(age)') \in Nat
    <2>1. IsFiniteSet(2 .. age)
      BY <1>2, FS_Interval
    <2> QED BY <1>3, <2>1, KeysAreFinite, FS_Subset, FS_CardinalityType
  <1>5. Allowed(age)' = lost + Twice(Cardinality(Past(age)')) /\ lost \in Nat
    BY <1>1 DEF Allowed, Twice, LimiterTypes, Numbers
  <1>6. Total(events, age - 1)' = Total(events', age - 1)
    BY DEF Total, Upto
  <1>7. CASE age = 0
    <2>1. Persisting(age)' = {} /\ Hammering(age, M)' = {}
      BY <1>1, <1>7 DEF Persisting, Hammering, Limiting
    <2>2. Cardinality(Persisting(age)') = 0 /\ Cardinality(Hammering(age, M)') = 0
      BY <2>1, FS_EmptySet
    <2>3. Total(events', age - 1) = 0
      <3>1. Bag'
        BY <1>1, <1>2, AgingKeepsBag
      <3>2. Upto(events', age - 1) = {}
        BY <1>7, <3>1 DEF Upto, Bag, Event, Age
      <3> QED BY <3>2, SumEmpty DEF Total
    <2>4. Twice(Cardinality(Past(age)')) \in Nat
      BY <1>4, TwiceIs
    <2> QED BY <1>4, <1>5, <1>6, <2>2, <2>3, <2>4 DEF Spends
  <1>8. CASE age >= 1
    <2>1. before \in MinuteAge /\ prior \in SUBSET BucketAge
      BY <1>2, <1>8 DEF MinuteAge, BucketAge
    <2>2. minutes \cap BucketAge \subseteq prior
      <3>1. 0 \in minutes => 1 \in M
        <4>1. 1 \in MinuteAge
          BY <1>2 DEF MinuteAge
        <4>2. 0 \in minutes => 1 \in minutes'
          BY <1>1, <4>1
        <4> QED BY <4>2 DEF BucketAge
      <3> QED BY <3>1 DEF BucketAge
    <2>3. Spends(before, prior)
      BY <2>1, <2>2 DEF SpanInv
    <2>4. Total(events', age - 1) = Total(events, before - 1)
      <3>1. before - 1 \in Int /\ (before - 1) + 1 <= Window + Slack
        BY <1>2, <1>8 DEF MinuteAge
      <3>2. Total(events', (before - 1) + 1) = Total(events, before - 1)
        BY <1>1, <1>2, <3>1, AgedUpto
      <3>3. (before - 1) + 1 = age - 1
        BY <1>2
      <3> QED BY <3>2, <3>3
    <2>5. Persisting(age)' = Persisting(before) /\ Hammering(age, M)' = Hammering(before, prior)
      <3>1. 1 <= age /\ 0 <= before /\ (1 \in M <=> 0 \in prior)
        BY <1>2, <1>8
      <3> HIDE DEF prior, before
      <3> QED BY <1>1, <3>1 DEF Persisting, Hammering, Limiting, Tenfold
    <2>6. PICK extra \in Nat :
              /\ Cardinality(Past(age)') = Cardinality(Past(before)) + extra
              /\ 1 \in minutes /\ age >= 2 => extra >= 1
              /\ Cardinality(Past(before)) \in Nat
      BY <1>8, AgedMinutes
    <2>7. \A path \in Path :
              /\ hits'[<<path, 1>>] = hits[<<path, 0>>]
              /\ once'[<<path, 1>>] = once[<<path, 0>>]
              /\ <<path, 0>> \in Keys /\ <<path, 1>> \in Keys
              /\ <<path, 0>>[2] = 0 /\ <<path, 1>>[2] = 1
      <3>1. \A path \in Path : hits'[<<path, 1>>] = hits[<<path, 0>>]
        BY <1>1, AgedMoves
      <3>2. \A path \in Path : once'[<<path, 1>>] = once[<<path, 0>>]
        BY <1>1, AgedMoves
      <3>3. \A path \in Path : /\ <<path, 0>> \in Keys /\ <<path, 1>> \in Keys
                               /\ <<path, 0>>[2] = 0 /\ <<path, 1>>[2] = 1
        BY DEF Keys, BucketAge
      <3> QED BY <3>1, <3>2, <3>3
    <2>8. /\ RulesOf(Marked(before), 0) \subseteq RulesOf(Marked(age)', 1)
          /\ RulesOf(Hammered(before, prior), 0) \subseteq RulesOf(Hammered(age, M)', 1)
      BY <1>8, <2>7 DEF RulesOf, Marked, Hammered, Keys, Tenfold
    <2>9. \/ 1 \in minutes /\ age >= 2
          \/ RulesOf(Marked(before), 1) = {} /\ RulesOf(Hammered(before, prior), 1) = {}
      <3>1. \A path \in Path : once[<<path, 1>>] => 1 \in minutes
        BY <2>7 DEF SpanInv
      <3>2. 1 \in prior => 1 \in minutes
        OBVIOUS
      <3>3. before \in Int /\ (before < 1 \/ age >= 2)
        BY <1>2
      <3> HIDE DEF before, prior
      <3> QED BY <2>7, <3>1, <3>2, <3>3 DEF RulesOf, Marked, Hammered
    <2>10. Marked(before) \subseteq Keys /\ Hammered(before, prior) \subseteq Keys
      BY KeysAreFinite
    <2> HIDE DEF before, prior
    <2>11. /\ Cardinality(Marked(before)) <= Cardinality(Marked(age)') + Cardinality(Path)
           /\ RulesOf(Marked(before), 1) = {} =>
                  Cardinality(Marked(before)) <= Cardinality(Marked(age)')
           /\ Cardinality(Marked(before)) \in Nat
      <3> DEFINE S == Marked(before)
                 T == Marked(age)'
      <3>1. S \subseteq Keys /\ T \subseteq Keys /\ RulesOf(S, 0) \subseteq RulesOf(T, 1)
        BY <1>3, <2>8, <2>10
      <3> HIDE DEF S, T
      <3>2. /\ Cardinality(S) <= Cardinality(T) + Cardinality(Path)
            /\ RulesOf(S, 1) = {} => Cardinality(S) <= Cardinality(T)
            /\ Cardinality(S) \in Nat
        BY <3>1, AgedKeys
      <3> QED BY <3>2 DEF S, T
    <2>12. /\ Cardinality(Hammered(before, prior))
                  <= Cardinality(Hammered(age, M)') + Cardinality(Path)
           /\ RulesOf(Hammered(before, prior), 1) = {} =>
                  Cardinality(Hammered(before, prior)) <= Cardinality(Hammered(age, M)')
           /\ Cardinality(Hammered(before, prior)) \in Nat
      <3> DEFINE S == Hammered(before, prior)
                 T == Hammered(age, M)'
      <3>1. S \subseteq Keys /\ T \subseteq Keys /\ RulesOf(S, 0) \subseteq RulesOf(T, 1)
        BY <1>3, <2>8, <2>10
      <3> HIDE DEF S, T
      <3>2. /\ Cardinality(S) <= Cardinality(T) + Cardinality(Path)
            /\ RulesOf(S, 1) = {} => Cardinality(S) <= Cardinality(T)
            /\ Cardinality(S) \in Nat
        BY <3>1, AgedKeys
      <3> QED BY <3>2 DEF S, T
    <2>13. /\ Twice(Cardinality(Past(age)')) = Twice(Cardinality(Past(before))) + Twice(extra)
           /\ Twice(Cardinality(Past(before))) \in Nat /\ Twice(extra) \in Nat
           /\ extra >= 1 => Twice(extra) >= Cardinality(Path) + Cardinality(Path)
      <3>1. extra >= 1 => /\ extra - 1 \in Nat /\ extra = 1 + (extra - 1)
        OBVIOUS
      <3>2. extra >= 1 => Twice(extra) = Twice(1) + Twice(extra - 1) /\ Twice(extra - 1) \in Nat
        <4>1. SUFFICES ASSUME extra >= 1
                       PROVE  Twice(extra) = Twice(1) + Twice(extra - 1)
                              /\ Twice(extra - 1) \in Nat
          OBVIOUS
        <4> DEFINE rest == extra - 1
        <4>2. rest \in Nat /\ extra = 1 + rest
          BY <3>1, <4>1
        <4> HIDE DEF rest
        <4>3. Twice(1 + rest) = Twice(1) + Twice(rest) /\ Twice(rest) \in Nat
          BY <4>2, TwiceIs
        <4> QED BY <4>2, <4>3 DEF rest
      <3>3. Twice(Cardinality(Past(before)) + extra) =
                Twice(Cardinality(Past(before))) + Twice(extra)
        BY <2>6, TwiceIs
      <3>4. Twice(Cardinality(Past(before))) \in Nat /\ Twice(extra) \in Nat
        BY <2>6, TwiceIs
      <3>5. Twice(1) = Cardinality(Path) + Cardinality(Path) /\ Cardinality(Path) \in Nat
        BY TwiceIs
      <3>6. extra >= 1 => Twice(extra) >= Cardinality(Path) + Cardinality(Path)
        BY <3>2, <3>4, <3>5
      <3> QED BY <2>6, <3>3, <3>4, <3>6
    <2>14. /\ Total(events, before - 1) \in Nat /\ Allowed(before) = lost + Twice(Cardinality(Past(before)))
           /\ Cardinality(Persisting(before)) \in Nat
           /\ Cardinality(Hammering(before, prior)) \in Nat
      BY <2>1, SpendsAreNumbers DEF Allowed
    <2>15. Cardinality(Path) \in Nat
      BY TwiceIs
    <2> DEFINE sum == Total(events, before - 1) + Cardinality(Persisting(before))
                      + Cardinality(Hammering(before, prior))
    <2>16. sum \in Nat /\ sum <= lost + Twice(Cardinality(Past(before)))
                              + Cardinality(Marked(before)) + Cardinality(Hammered(before, prior))
      BY <2>3, <2>14 DEF Spends
    <2>17. Spends(age, M)' <=>
               sum <= Allowed(age)' + Cardinality(Marked(age)') + Cardinality(Hammered(age, M)')
      BY <1>6, <2>4, <2>5 DEF Spends
    <2> HIDE DEF sum
    <2> QED BY <1>4, <1>5, <2>6, <2>9, <2>11, <2>12, <2>13, <2>15, <2>16, <2>17
  <1> QED BY <1>2, <1>7, <1>8

LEMMA TickKeepsSpan ==
    ASSUME LimiterTypes, SpanInv, TickLimiter
    PROVE  SpanInv'
  <1>1. ASSUME NEW key \in Keys, once'[key] PROVE key[2] \in minutes'
    <2>1. PICK path \in Path : key = <<path, 0>> \/ key = <<path, 1>>
      BY AgedIsTyped
    <2>2. ~once'[<<path, 0>>] /\ once'[<<path, 1>>] = once[<<path, 0>>]
      BY AgedStarts, AgedMoves DEF TickLimiter
    <2>3. key = <<path, 1>> /\ once[<<path, 0>>]
      BY <1>1, <2>1, <2>2
    <2>4. 0 \in minutes
      BY <2>3 DEF SpanInv, Keys, BucketAge
    <2>5. 1 \in MinuteAge
      BY PolicyAssumption DEF MinuteAge
    <2> QED BY <2>3, <2>4, <2>5 DEF TickLimiter
  <1> QED BY <1>1, TickKeepsSpends DEF SpanInv, Keys

-----------------------------------------------------------------------------
(* The evidence of a ban, of the limiter *)

LEMMA StepKeepsLimiterEvidence ==
    ASSUME LimiterTypes, EvidenceInv, [LimiterNext]_allVars
    PROVE  EvidenceInv'
  <1>1. ASSUME NEW w \in Worker, LimiterStep(w) PROVE EvidenceInv'
    <2>1. CASE Limits(w) \/ (Outage(w) /\ At(w, "persist")) \/ Crash(w)
      <3>1. /\ events' = events
            /\ since' = since \/ since' = [since EXCEPT ![w] = 0]
            /\ \E label \in LimiterLabel : label \notin Deciding /\ pc' = [pc EXCEPT ![w] = label]
        <4>1. CASE Limits(w)
          <5>1. \E label \in Limiting \cup {"idle"} : pc' = [pc EXCEPT ![w] = label]
            BY <4>1, LimitsMoves DEF Arrive, Goto, Finish, Limiting
          <5>2. UNCHANGED since \/ Finish(w)
            BY <4>1, LimitsMoves DEF Arrive
          <5> QED BY <4>1, <5>1, <5>2, LimitsMoves
                  DEF LimiterOnly, Finish, Limiting, Deciding, LimiterLabel, Label
        <4>2. CASE (Outage(w) /\ At(w, "persist")) \/ Crash(w)
          BY <4>2 DEF Outage, Crash, Finish, Goto, At, Deciding, LimiterLabel, Label
        <4> QED BY <2>1, <4>1, <4>2
      <3> QED BY <3>1, EvidenceStays DEF LimiterTypes
    <2>2. CASE Persist(w) \/ Evaluate(w)
      BY <2>2, PersistKeepsEvidence, EvaluateKeepsEvidence DEF LimiterTypes
    <2> QED BY <1>1, <2>1, <2>2 DEF LimiterStep, Limits, Log, CrashLimiter
  <1>2. CASE Lift \/ Evict \/ EvictCounter \/ UNCHANGED allVars
    BY <1>2 DEF Lift, Evict, EvictCounter, vars, allVars, EvidenceInv, Counted, Spread
  <1>3. CASE TickLimiter
    BY <1>3, TickKeepsEvidence DEF TickLimiter, LimiterTypes
  <1> QED BY <1>1, <1>2, <1>3 DEF LimiterNext

LEMMA StepKeepsSpan ==
    ASSUME LimiterTypes, LimiterTypes', SpanInv, [LimiterNext]_allVars
    PROVE  SpanInv'
  <1>1. ASSUME NEW w \in Worker, LimiterStep(w) PROVE SpanInv'
    <2>1. \/ Limits(w)
          \/ Log(w) \/ CrashLimiter(w) \/ (Evaluate(w) /\ UNCHANGED limiterVars)
      BY <1>1 DEF LimiterStep, Limits
    <2>2. Others(w)
      BY <2>1, OthersStay
    <2>3. CASE Limits(w)
      BY <2>2, <2>3, LimitsKeepsSpan
    <2>4. CASE Log(w) \/ CrashLimiter(w) \/ (Evaluate(w) /\ UNCHANGED limiterVars)
      <3>1. UNCHANGED <<hits, once, minutes, lost>>
        BY <2>4 DEF Log, CrashLimiter, limiterVars
      <3>2. CASE Persist(w)
        BY <2>2, <3>1, <3>2, PersistKeepsSpan
      <3>3. CASE (At(w, "persist") /\ Outage(w)) \/ Crash(w)
        <4>1. At(w, "persist") \/ ~Outage(w)
          BY <3>3 DEF Crash, Outage, Finish, Goto, At, LimiterTypes, Types
        <4> QED BY <2>2, <3>1, <3>3, <4>1, LeavesSpan
      <3>4. CASE Evaluate(w)
        <4>1. At(w, "count") \/ At(w, "paths") \/ At(w, "lock") \/ At(w, "ban")
          BY <3>4 DEF Evaluate, CountEvents, CountPaths, TakeLock, WriteBan
        <4>2. ~Outage(w)
          BY <4>1 DEF Outage, At
        <4> QED BY <2>2, <3>1, <3>4, <4>2, LeavesSpan
      <3> QED BY <2>4, <3>2, <3>3, <3>4 DEF Log, CrashLimiter
    <2> QED BY <2>1, <2>3, <2>4
  <1>2. CASE \/ (Lift \/ Evict) /\ UNCHANGED limiterVars
             \/ UNCHANGED allVars
    <2>1. UNCHANGED <<pc, req, events, limiterVars>>
      BY <1>2 DEF Lift, Evict, allVars, vars
    <2>2. UNCHANGED <<hits, once, bucket, count, minutes, lost>>
      BY <2>1 DEF limiterVars
    <2>3. \A age, M :
              /\ Total(events', age) = Total(events, age)
              /\ Persisting(age)' = Persisting(age) /\ Hammering(age, M)' = Hammering(age, M)
              /\ Marked(age)' = Marked(age) /\ Hammered(age, M)' = Hammered(age, M)
              /\ Allowed(age)' = Allowed(age)
      BY <2>1, <2>2 DEF Persisting, Hammering, Marked, Hammered, Allowed, Past
    <2>4. \A age, M : Spends(age, M)' <=> Spends(age, M)
      BY <2>3 DEF Spends
    <2> QED BY <2>2, <2>4 DEF SpanInv
  <1>3. CASE EvictCounter
    BY <1>3, EvictionKeepsSpan
  <1>4. CASE TickLimiter
    BY <1>4, TickKeepsSpan
  <1> QED BY <1>1, <1>2, <1>3, <1>4 DEF LimiterNext

LEMMA InitSpan == LimiterInit => SpanInv
  <1> SUFFICES ASSUME LimiterInit PROVE SpanInv
    OBVIOUS
  <1>1. \A key \in Keys : ~once[key]
    BY DEF LimiterInit, Keys
  <1>2. ASSUME NEW age \in MinuteAge, NEW M \in SUBSET BucketAge PROVE Spends(age, M)
    <2>1. LimiterTypes
      BY InitLimiterTypes
    <2>2. Persisting(age) = {} /\ Hammering(age, M) = {}
      BY DEF Persisting, Hammering, LimiterInit, Init
    <2>3. Cardinality(Persisting(age)) = 0 /\ Cardinality(Hammering(age, M)) = 0
      BY <2>2, FS_EmptySet
    <2>4. Total(events, age - 1) = 0
      <3>1. Upto(events, age - 1) = {}
        BY DEF LimiterInit, Init, EmptyBag, SetToBag, Upto
      <3> QED BY <3>1, SumEmpty DEF Total
    <2>5. Allowed(age) \in Nat
      BY <2>1, AllowedIs
    <2>6. Cardinality(Marked(age)) \in Nat /\ Cardinality(Hammered(age, M)) \in Nat
      BY <2>1, SpendsAreNumbers
    <2> QED BY <2>3, <2>4, <2>5, <2>6 DEF Spends
  <1> QED BY <1>1, <1>2 DEF SpanInv

(* What is behind a ban, at the oldest age an event can have.               *)
LEMMA KeysOfMinutes ==
    ASSUME LimiterTypes, NEW S, S \subseteq Keys, \A key \in S : key[2] \in minutes
    PROVE  /\ Cardinality(S) <= Cardinality(Path) * Cardinality(minutes \cap BucketAge)
           /\ Cardinality(S) \in Nat
  <1>1. S \subseteq Path \X (minutes \cap BucketAge)
    BY DEF Keys
  <1>2. IsFiniteSet(BucketAge)
    <2>1. BucketAge = ({} \cup {0}) \cup {1}
      BY DEF BucketAge
    <2>2. IsFiniteSet({} \cup {0})
      BY FS_EmptySet, FS_AddElement
    <2> QED BY <2>1, <2>2, FS_AddElement
  <1>3. IsFiniteSet(minutes \cap BucketAge)
    BY <1>2, FS_Subset
  <1>4. /\ IsFiniteSet(Path \X (minutes \cap BucketAge))
        /\ Cardinality(Path \X (minutes \cap BucketAge)) =
              Cardinality(Path) * Cardinality(minutes \cap BucketAge)
    BY <1>3, FiniteAssumption, FS_Product
  <1> QED BY <1>1, <1>4, FS_Subset, FS_CardinalityType

LEMMA SpanIsEnough ==
    ASSUME LimiterTypes, SpanInv, EvidenceInv
    PROVE  BanSpansMinutes
  <1> SUFFICES ASSUME NEW w \in Worker, pc[w] = "ban"
               PROVE  2 * Cardinality(Path) * Cardinality(minutes) + lost >= Threshold
    BY DEF BanSpansMinutes
  <1> DEFINE age == Window + Slack + 1
             recent == minutes \cap BucketAge
  <1>1. age \in MinuteAge /\ age \in Nat /\ since[w] \in 0 .. Slack
    BY PolicyAssumption DEF MinuteAge, LimiterTypes, Types
  <1>2. Total(events, Window + since[w]) >= Threshold
    BY DEF EvidenceInv, Counted, Deciding
  <1>3. Total(events, Window + since[w]) <= Total(events, age - 1)
    <2>1. Bag
      BY DEF LimiterTypes, Types
    <2>2. IsFiniteSet(Upto(events, age - 1)) /\ Counts(events, Upto(events, age - 1))
      BY <2>1, FS_Subset DEF Bag, Upto, Counts
    <2>3. Upto(events, Window + since[w]) \subseteq Upto(events, age - 1)
      BY <1>1, <2>1, PolicyAssumption DEF Upto, Bag, Event, Age
    <2> QED BY <2>2, <2>3, SumMonotone DEF Total
  <1>4. Spends(age, recent)
    BY <1>1 DEF SpanInv
  <1>5. /\ \A key \in Marked(age) : key[2] \in minutes
        /\ \A key \in Hammered(age, recent) : key[2] \in minutes
    BY DEF SpanInv, Marked, Hammered
  <1>6. recent \subseteq MinuteAge /\ IsFiniteSet(minutes)
    <2>1. minutes \subseteq MinuteAge /\ IsFiniteSet(MinuteAge)
      BY <1>1, FS_Interval DEF LimiterTypes, Numbers, MinuteAge
    <2> QED BY <2>1, FS_Subset
  <1>7. Cardinality(minutes) = Cardinality(recent) + Cardinality(Past(age))
        /\ Cardinality(recent) \in Nat /\ Cardinality(Past(age)) \in Nat
    <2>1. minutes = recent \cup Past(age) /\ recent \cap Past(age) = {}
      <3>1. \A n \in MinuteAge : n \in BucketAge <=> n \notin 2 .. age
        <4>1. ASSUME NEW n \in MinuteAge
              PROVE  n \in Int /\ 0 <= n /\ n <= age
          BY <1>1 DEF MinuteAge
        <4> HIDE DEF age
        <4>2. age \in Nat
          BY <1>1
        <4> QED BY <4>1, <4>2 DEF BucketAge
      <3>2. minutes \subseteq MinuteAge
        BY DEF LimiterTypes, Numbers
      <3> HIDE DEF age
      <3> QED BY <3>1, <3>2 DEF Past
    <2>2. IsFiniteSet(recent) /\ IsFiniteSet(Past(age)) /\ Cardinality({}) = 0
      BY <1>6, FS_Subset, FS_EmptySet DEF Past
    <2> HIDE DEF recent, age
    <2>3. Cardinality(recent) \in Nat /\ Cardinality(Past(age)) \in Nat
      BY <2>2, FS_CardinalityType
    <2>4. Cardinality(recent \cup Past(age)) =
              Cardinality(recent) + Cardinality(Past(age)) - Cardinality(recent \cap Past(age))
      BY <2>2, FS_Union
    <2>5. Cardinality(recent \cap Past(age)) = 0
      BY <2>1, <2>2
    <2>6. Cardinality(minutes) = Cardinality(recent \cup Past(age))
      BY <2>1
    <2> QED BY <2>3, <2>4, <2>5, <2>6
  <1>8. /\ Cardinality(Marked(age)) <= Cardinality(Path) * Cardinality(recent)
        /\ Cardinality(Hammered(age, recent)) <= Cardinality(Path) * Cardinality(recent)
        /\ Cardinality(Marked(age)) \in Nat /\ Cardinality(Hammered(age, recent)) \in Nat
    BY <1>5, KeysAreFinite, KeysOfMinutes
  <1>9. /\ Twice(Cardinality(recent) + Cardinality(Past(age))) =
               Twice(Cardinality(recent)) + Twice(Cardinality(Past(age)))
        /\ Twice(Cardinality(recent)) = Cardinality(Path) * Cardinality(recent)
                                        + Cardinality(Path) * Cardinality(recent)
        /\ Twice(Cardinality(recent)) \in Nat /\ Twice(Cardinality(Past(age))) \in Nat
    BY <1>7, TwiceIs
  <1>10. /\ Total(events, age - 1) \in Nat /\ Threshold \in Nat /\ lost \in Nat
         /\ Total(events, Window + since[w]) \in Nat
         /\ Cardinality(Persisting(age)) \in Nat /\ Cardinality(Hammering(age, recent)) \in Nat
    BY <1>1, SpendsAreNumbers, PolicyAssumption, QueriesAre DEF LimiterTypes, Types, Numbers
  <1>11. Cardinality(Path) * Cardinality(recent) \in Nat
    <2>1. Cardinality(Path) \in Nat /\ \A m, n \in Nat : m * n \in Nat
      BY TwiceIs
    <2> QED BY <1>7, <2>1
  <1>12. 2 * Cardinality(Path) * Cardinality(minutes) = Twice(Cardinality(minutes))
    BY DEF Twice
  <1> DEFINE square == Cardinality(Path) * Cardinality(recent)
             rest == Twice(Cardinality(Past(age)))
  <1>13. Twice(Cardinality(minutes)) = square + square + rest /\ square \in Nat /\ rest \in Nat
    BY <1>7, <1>9, <1>11
  <1>14. Total(events, age - 1) <= lost + rest + square + square
    <2>1. Total(events, age - 1) + Cardinality(Persisting(age)) + Cardinality(Hammering(age, recent))
              <= lost + rest + Cardinality(Marked(age)) + Cardinality(Hammered(age, recent))
      BY <1>4 DEF Spends, Allowed
    <2> HIDE DEF square, rest, age, recent
    <2> QED BY <1>8, <1>10, <1>13, <2>1 DEF square
  <1> HIDE DEF square, rest, age, recent
  <1> QED BY <1>2, <1>3, <1>10, <1>12, <1>13, <1>14

(* A burst over one rule is not a ban: the minutes in which limits were     *)
(* exceeded, at two events for each rule, and the keys the cache lost are   *)
(* enough for the threshold of the ban that a request is about to write,    *)
(* however many requests came at once, of any rules, thresholds, limits and *)
(* bounds.                                                                  *)
THEOREM BansSpanMinutes == LimiterSpec => []BanSpansMinutes
  <1> DEFINE Inv == LimiterTypes /\ SpanInv /\ EvidenceInv
  <1>1. LimiterInit => Inv
    <2>1. LimiterInit => EvidenceInv
      BY DEF LimiterInit, Init, EvidenceInv, Deciding
    <2> QED BY <2>1, InitLimiterTypes, InitSpan
  <1>2. Inv /\ [LimiterNext]_allVars => Inv'
    BY StepKeepsLimiterTypes, StepKeepsSpan, StepKeepsLimiterEvidence
  <1>3. Inv => BanSpansMinutes
    BY SpanIsEnough
  <1> QED BY <1>1, <1>2, <1>3, PTL DEF LimiterSpec

=============================================================================
