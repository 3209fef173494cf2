-------------------------- MODULE DeploymentProofs --------------------------
(***************************************************************************)
(* What a deployment can rely on, for all settings and environments an     *)
(* operator may write, all addresses and any number of proxies.            *)
(***************************************************************************)
EXTENDS Deployment, SumProofs, SequenceTheorems

-----------------------------------------------------------------------------
(* The address of a request.  What the proxies wrote are the last entries of*)
(* the header, in the order of the hops: each is the peer of the hop after. *)

Chained ==
    /\ hops \in Seq(DOMAIN Address) /\ forwarded \in Seq(DOMAIN Address)
    /\ written \in Nat /\ written <= Len(forwarded)
    /\ hops # <<>> => written < Len(hops)
    /\ \A i \in 1 .. written : forwarded[Len(forwarded) + 1 - i] = hops[Len(hops) - i]

(* The address was read from this header, with these settings.              *)
AddressInv ==
    /\ Chained
    /\ hops = <<>> => ip = NoAddress /\ written = 0
    /\ ip # NoAddress => ip = ResolveClientIp(TrustedProxyCount)

LEMMA CountsAreNat == TrustedProxyCount \in Nat /\ ShadowProxyCount \in Nat
  <1>1. \A k : Number(k, 0) \in Int
    BY DEF Number, Numeral
  <1> QED BY <1>1 DEF TrustedProxyCount, ShadowProxyCount, AtLeast0

LEMMA AddressRelay ==
    ASSUME AddressInv, Relay
    PROVE  AddressInv'
  <1>1. PICK proxy \in Proxy : hops' = Append(hops, proxy)
    BY DEF Relay
  <1>2. /\ proxy \in DOMAIN Address /\ hops \in Seq(DOMAIN Address)
        /\ forwarded \in Seq(DOMAIN Address) /\ Len(hops) \in Nat \ {0}
        /\ Len(forwarded) \in Nat /\ written \in Nat
    BY AddressAssumption DEF AddressInv, Chained, Relay
  <1>3. Last(hops) = hops[Len(hops)] /\ hops[Len(hops)] \in DOMAIN Address
    BY <1>2 DEF Last
  <1>4. /\ hops' \in Seq(DOMAIN Address) /\ Len(hops') = Len(hops) + 1 /\ hops' # <<>>
        /\ \A i \in 1 .. Len(hops) : hops'[i] = hops[i]
    BY <1>1, <1>2
  <1>5. ip' = NoAddress
    BY DEF Relay
  <1>6. CASE forwarded' = Append(forwarded, Last(hops)) /\ written' = written + 1
    <2>1. /\ forwarded' \in Seq(DOMAIN Address) /\ Len(forwarded') = Len(forwarded) + 1
          /\ forwarded'[Len(forwarded) + 1] = hops[Len(hops)]
          /\ \A i \in 1 .. Len(forwarded) : forwarded'[i] = forwarded[i]
      BY <1>2, <1>3, <1>6
    <2>2. ASSUME NEW i \in 1 .. written'
          PROVE  forwarded'[Len(forwarded') + 1 - i] = hops'[Len(hops') - i]
      <3>1. CASE i = 1
        BY <1>2, <1>4, <2>1, <3>1
      <3>2. CASE i # 1
        <4>1. i - 1 \in 1 .. written
          BY <1>2, <1>6, <2>2, <3>2
        <4>2. forwarded[Len(forwarded) + 1 - (i - 1)] = hops[Len(hops) - (i - 1)]
          BY <4>1 DEF AddressInv, Chained
        <4>3. written <= Len(forwarded) /\ written < Len(hops)
          BY <1>2 DEF AddressInv, Chained
        <4>4. /\ Len(forwarded) + 1 - (i - 1) \in 1 .. Len(forwarded)
              /\ Len(hops) - (i - 1) \in 1 .. Len(hops)
              /\ Len(forwarded') + 1 - i = Len(forwarded) + 1 - (i - 1)
              /\ Len(hops') - i = Len(hops) - (i - 1)
          BY <1>2, <1>4, <2>1, <4>1, <4>3
        <4> QED BY <1>4, <2>1, <4>2, <4>4
      <3> QED BY <3>1, <3>2
    <2> QED
      BY <1>2, <1>4, <1>5, <1>6, <2>1, <2>2 DEF AddressInv, Chained
  <1>7. CASE forwarded' = <<Last(hops)>> /\ written' = 1
    <2>1. /\ forwarded' \in Seq(DOMAIN Address) /\ Len(forwarded') = 1
          /\ forwarded'[1] = hops[Len(hops)]
      BY <1>3, <1>7
    <2>2. ASSUME NEW i \in 1 .. written'
          PROVE  forwarded'[Len(forwarded') + 1 - i] = hops'[Len(hops') - i]
      <3>1. i = 1 /\ Len(forwarded') + 1 - i = 1 /\ Len(hops') - i = Len(hops)
        BY <1>2, <1>4, <1>7, <2>1
      <3> QED BY <1>2, <1>4, <2>1, <3>1
    <2>3. written' \in Nat /\ written' <= Len(forwarded') /\ written' < Len(hops')
      BY <1>2, <1>4, <1>7, <2>1
    <2> QED BY <1>4, <1>5, <2>1, <2>2, <2>3 DEF AddressInv, Chained
  <1> QED BY <1>6, <1>7 DEF Relay

LEMMA AddressStep ==
    ASSUME AddressInv, [Next]_vars
    PROVE  AddressInv'
  <1>1. CASE UNCHANGED requestVars /\ (hops = <<>> \/ UNCHANGED <<settings, environ>>)
    BY <1>1
       DEF AddressInv, Chained, requestVars, ResolveClientIp, Fallback, Hop,
           TrustedProxyCount, AtLeast0, Number, Raw
  <1>2. CASE Send /\ UNCHANGED <<settings, environ>>
    <2>1. PICK client \in Client, header \in Forged : hops' = <<client>> /\ forwarded' = header
      BY <1>2 DEF Send
    <2>2. hops' \in Seq(DOMAIN Address) /\ Len(hops') = 1 /\ forwarded' \in Seq(DOMAIN Address)
      BY <2>1, AddressAssumption
    <2>3. ip' = NoAddress /\ written' = 0
      BY <1>2 DEF Send, AddressInv
    <2> QED BY <2>2, <2>3 DEF AddressInv, Chained
  <1>3. CASE ClientIPMiddleware /\ UNCHANGED <<settings, environ>>
    BY <1>3
       DEF AddressInv, Chained, ClientIPMiddleware, ResolveClientIp, Fallback, Hop,
           TrustedProxyCount, AtLeast0, Number, Raw
  <1>4. CASE Respond
    BY <1>4 DEF AddressInv, Chained, Respond
  <1> QED
    BY <1>1, <1>2, <1>3, <1>4, AddressRelay
       DEF Next, Configure, RunChecks, Request, Idle, vars

(* "The right-most trusted position is used" (resolve_client_ip), for any   *)
(* number of proxies, whatever each of them does with the header, whatever  *)
(* the client wrote into it, and every way the count is configured.         *)
THEOREM AddressesAreHops == Spec => []AddressIsAHop
  <1>1. Init => AddressInv
    BY DEF Init, NoRequest, AddressInv, Chained
  <1>2. AddressInv /\ [Next]_vars => AddressInv'
    BY AddressStep
  <1>3. AddressInv => AddressIsAHop
    <2>1. SUFFICES ASSUME AddressInv, ip # NoAddress, TrustedProxyCount <= written
                   PROVE  /\ ip \in Hops \cup {Unspecified}
                          /\ Hop(TrustedProxyCount) # NoAddress => ip = Hop(TrustedProxyCount)
      BY DEF AddressIsAHop
    <2> DEFINE count == TrustedProxyCount
    <2>2. /\ hops \in Seq(DOMAIN Address) /\ Len(hops) \in Nat /\ written < Len(hops)
          /\ written \in Nat /\ written <= Len(forwarded) /\ count \in Nat
          /\ Len(forwarded) \in Nat
      BY <2>1, CountsAreNat DEF AddressInv, Chained
    <2> HIDE DEF count
    <2>3. \A back \in 0 .. Len(hops) - 1 : Hop(back) = NoAddress \/ Hop(back) \in Hops
      <3>1. SUFFICES ASSUME NEW back \in 0 .. Len(hops) - 1
                     PROVE  Len(hops) - back \in DOMAIN hops
        BY DEF Hop, Hops
      <3> QED BY <2>2
    <2>4. Fallback \in Hops \cup {Unspecified}
      BY <2>2, <2>3 DEF Fallback
    <2>5. ip = ResolveClientIp(count)
      BY <2>1 DEF AddressInv, count
    <2>6. CASE count = 0
      BY <2>1, <2>4, <2>5, <2>6 DEF ResolveClientIp, Fallback, count
    <2>7. CASE count # 0
      <3>1. count \in 1 .. written /\ ~(Len(forwarded) < count)
        BY <2>1, <2>2, <2>7 DEF count
      <3>2. Address[forwarded[Len(forwarded) + 1 - count]] = Hop(count)
        BY <2>1, <3>1 DEF AddressInv, Chained, Hop
      <3>3. ip = IF Hop(count) = NoAddress THEN Fallback ELSE Hop(count)
        BY <2>5, <2>7, <3>1, <3>2 DEF ResolveClientIp
      <3>4. Hop(count) = NoAddress \/ Hop(count) \in Hops
        BY <2>2, <2>3, <3>1
      <3> QED BY <2>4, <3>3, <3>4 DEF count
    <2> QED BY <2>6, <2>7
  <1> QED BY <1>1, <1>2, <1>3, PTL DEF Spec

-----------------------------------------------------------------------------
(* The settings hold what was written into them, and a report is the one of *)
(* the settings in force.                                                   *)

ConfigInv ==
    /\ settings = [k \in DOMAIN Initial |-> settings[k]]
    /\ environ = [k \in DOMAIN Initial |-> environ[k]]
    /\ \A k \in DOMAIN Initial :
           settings[k] \in MayHold(k) /\ environ[k] \in MayHoldEnviron(k)
    /\ \/ report = NotRun
       \/ report = [checks |-> "plain", issues |-> Check]
       \/ report = [checks |-> "deploy", issues |-> CheckDeploy]

(* A check says the same as long as nothing is written.                     *)
LEMMA ChecksRepeat ==
    ASSUME UNCHANGED <<settings, environ>>
    PROVE  Check' = Check /\ CheckDeploy' = CheckDeploy
  <1>1. /\ Installed' = Installed /\ Expected' = Expected /\ Found' = Found
        /\ DroppedItems' = DroppedItems
        /\ TrustedIps' = TrustedIps /\ LayerModes' = LayerModes /\ Mode' = Mode
        /\ StaffBypassEnabled' = StaffBypassEnabled /\ AutoBanEnabled' = AutoBanEnabled
        /\ BanEnforcementEnabled' = BanEnforcementEnabled
        /\ TrustedProxyCount' = TrustedProxyCount /\ ShadowProxyCount' = ShadowProxyCount
    BY DEF Installed, Expected, Found, Position, DroppedItems, DeclaredItems, TrustedIps,
           LayerModes, Mode, StaffBypassEnabled, AutoBanEnabled, BanEnforcementEnabled, Bool, Or,
           TrustedProxyCount, ShadowProxyCount, Number, Raw
  <1>2. CheckMiddleware' = CheckMiddleware
    BY <1>1 DEF CheckMiddleware, Issues
  <1>3. CheckValues' = CheckValues
    BY <1>1 DEF CheckValues, Issues, Raw
  <1>4. CheckRuntimeDependencies' = CheckRuntimeDependencies
    BY <1>1 DEF CheckRuntimeDependencies, Issues
  <1>5. CheckPolicyCoherence' = CheckPolicyCoherence
    BY <1>1 DEF CheckPolicyCoherence, Issues
  <1>6. CheckDeployment' = CheckDeployment
    BY <1>1 DEF CheckDeployment, Issues, IsEnforcing, LayerMode
  <1> QED BY <1>2, <1>3, <1>4, <1>5, <1>6 DEF Check, CheckDeploy

LEMMA ConfigStep ==
    ASSUME ConfigInv, [Next]_vars
    PROVE  ConfigInv'
  <1>1. CASE Configure
    <2>1. CASE \E k \in DOMAIN EnvChoice : \E v \in EnvChoice[k] :
                   environ' = [environ EXCEPT ![k] = v] /\ UNCHANGED settings
      BY <1>1, <2>1 DEF ConfigInv, Configure, MayHoldEnviron
    <2>2. CASE \E k \in DOMAIN Choice : \E v \in Choice[k] :
                   settings' = [settings EXCEPT ![k] = v] /\ UNCHANGED environ
      BY <1>1, <2>2 DEF ConfigInv, Configure, MayHold
    <2> QED BY <1>1, <2>1, <2>2 DEF Configure
  <1>2. CASE UNCHANGED <<settings, environ>>
    <2>1. \/ report' \in {report, NotRun}
          \/ report' = [checks |-> "plain", issues |-> Check]
          \/ report' = [checks |-> "deploy", issues |-> CheckDeploy]
      BY <1>2 DEF Next, Configure, RunChecks, vars
    <2> QED BY <1>2, <2>1, ChecksRepeat DEF ConfigInv
  <1> QED BY <1>1, <1>2 DEF Next, RunChecks, vars

THEOREM ConfigInvariant == Spec => []ConfigInv
  <1>1. Init => ConfigInv
    BY SettingsAssumption DEF Init, ConfigInv, MayHold, MayHoldEnviron
  <1>2. ConfigInv /\ [Next]_vars => ConfigInv'
    BY ConfigStep
  <1> QED BY <1>1, <1>2, PTL DEF Spec

-----------------------------------------------------------------------------
(* Conditions none of which holds.                                          *)
LEMMA NoIssues ==
    ASSUME NEW conditions, Issues(conditions) = {}, NEW id \in DOMAIN conditions
    PROVE  ~conditions[id]
  BY DEF Issues

(* "manage.py check --deploy" with nothing to say (check_deployment,        *)
(* check_policy_coherence): whatever is in settings and environment, every  *)
(* layer that is installed enforces, bans that detectors write are enforced,*)
(* and a deployment behind proxies reads its addresses behind them.         *)
THEOREM SilenceIsProtection == Spec => []QuietChecksMeanProtection
  <1>1. ConfigInv => QuietChecksMeanProtection
    <2>1. SUFFICES ASSUME ConfigInv, report = [checks |-> "deploy", issues |-> {}]
                   PROVE  /\ \A layer \in Installed \ {"client_ip"} : IsEnforcing(layer)
                          /\ AutoBanEnabled => BanEnforcementEnabled
                          /\ ShadowProxyCount = 0 \/ ShadowProxyCount # TrustedProxyCount
                          /\ settings["PROXIED"] => TrustedProxyCount > 0
      BY DEF QuietChecksMeanProtection
    <2>2. CheckDeploy = {}
      BY <2>1 DEF ConfigInv, NotRun
    <2>3. CheckMiddleware = {} /\ CheckPolicyCoherence = {} /\ CheckDeployment = {}
      BY <2>2 DEF CheckDeploy, Check
    <2>4. Installed # {}
      BY <2>3 DEF CheckMiddleware
    <2>5. /\ ~(AutoBanEnabled /\ ~BanEnforcementEnabled)
          /\ ~(ShadowProxyCount > 0 /\ ShadowProxyCount = TrustedProxyCount)
      <3> DEFINE conditions ==
                   [W005 |-> AutoBanEnabled /\ ~BanEnforcementEnabled,
                    W006 |-> /\ BanEnforcementEnabled /\ ~StaffBypassEnabled
                             /\ TrustedIps = {},
                    W007 |-> /\ ShadowProxyCount > 0
                             /\ ShadowProxyCount = TrustedProxyCount]
      <3>1. Issues(conditions) = {}
        BY <2>3, <2>4 DEF CheckPolicyCoherence
      <3>2. /\ conditions["W005"] = (AutoBanEnabled /\ ~BanEnforcementEnabled)
            /\ conditions["W007"] = (/\ ShadowProxyCount > 0
                                     /\ ShadowProxyCount = TrustedProxyCount)
        BY Zenon
      <3>3. "W005" \in DOMAIN conditions /\ "W007" \in DOMAIN conditions
        OBVIOUS
      <3> HIDE DEF conditions
      <3>4. ~conditions["W005"] /\ ~conditions["W007"]
        BY <3>1, <3>3, NoIssues
      <3> QED BY <3>2, <3>4, Zenon
    <2>6. /\ ~(settings["PROXIED"] /\ TrustedProxyCount = 0)
          /\ ~(Mode # "enforce")
          /\ ~(Mode = "enforce" /\ \E layer \in Layers : ~IsEnforcing(layer))
      <3> DEFINE conditions ==
                   [W008 |-> settings["PROXIED"] /\ TrustedProxyCount = 0,
                    W009 |-> Mode # "enforce",
                    W010 |-> /\ Mode = "enforce"
                             /\ \E layer \in Layers : ~IsEnforcing(layer)]
      <3>1. Issues(conditions) = {}
        BY <2>3, <2>4 DEF CheckDeployment
      <3>2. /\ conditions["W008"] = (settings["PROXIED"] /\ TrustedProxyCount = 0)
            /\ conditions["W009"] = (Mode # "enforce")
            /\ conditions["W010"] = (/\ Mode = "enforce"
                                     /\ \E layer \in Layers : ~IsEnforcing(layer))
        BY Zenon
      <3>3. {"W008", "W009", "W010"} \subseteq DOMAIN conditions
        OBVIOUS
      <3> HIDE DEF conditions
      <3>4. ~conditions["W008"] /\ ~conditions["W009"] /\ ~conditions["W010"]
        BY <3>1, <3>3, NoIssues
      <3> QED BY <3>2, <3>4, Zenon
    <2>7. Installed \ {"client_ip"} \subseteq Layers
      <3>1. settings["MIDDLEWARE"] \in Seq(ToSet(MiddlewareOrder) \cup {"other"})
        BY <2>1, SettingsAssumption DEF ConfigInv
      <3>2. Installed \subseteq ToSet(MiddlewareOrder)
        BY <3>1 DEF Installed, ToSet
      <3>3. ToSet(MiddlewareOrder) \ {"client_ip"} \subseteq Layers
        BY DEF ToSet, MiddlewareOrder, Layers
      <3> QED BY <3>2, <3>3
    <2> QED BY <2>5, <2>6, <2>7, CountsAreNat
  <1> QED BY <1>1, ConfigInvariant, PTL

-----------------------------------------------------------------------------
(* AtIndices is a recursion over the length; what it keeps, least counter-  *)
(* examples show.                                                           *)

Keeps(s, I, g, m) ==
    g = [n \in 0 .. m |->
            IF n = 0 THEN <<>>
            ELSE IF n \in I THEN Append(g[n - 1], s[n]) ELSE g[n - 1]]

LEMMA KeepingSolved ==
    ASSUME NEW s, NEW I, NEW m \in Nat
    PROVE  \E g : Keeps(s, I, g, m)
  <1> DEFINE Bad == {k \in Nat : ~\E g : Keeps(s, I, g, k)}
  <1>1. SUFFICES ASSUME Bad # {} PROVE FALSE
    OBVIOUS
  <1>2. PICK k \in Bad : \A y \in Bad : k <= y
    BY <1>1, LeastNumber
  <1>3. k # 0
    <2>1. Keeps(s, I, [n \in 0 .. 0 |-> <<>>], 0)
      BY DEF Keeps
    <2> QED BY <2>1
  <1>4. k - 1 \in Nat /\ k - 1 \notin Bad
    BY <1>2, <1>3
  <1>5. PICK g : Keeps(s, I, g, k - 1)
    BY <1>4
  <1> DEFINE h == [n \in 0 .. k |->
                     IF n = k THEN IF k \in I THEN Append(g[k - 1], s[k]) ELSE g[k - 1]
                     ELSE g[n]]
  <1>6. Keeps(s, I, h, k)
    <2>1. ASSUME NEW n \in 0 .. k
          PROVE  h[n] = IF n = 0 THEN <<>>
                        ELSE IF n \in I THEN Append(h[n - 1], s[n]) ELSE h[n - 1]
      <3>1. CASE n = k
        BY <1>2, <1>3, <1>4, <3>1
      <3>2. CASE n # k
        <4>1. n \in 0 .. k - 1 /\ (n # 0 => n - 1 \in 0 .. k - 1)
          BY <1>2, <3>2
        <4>2. g[n] = IF n = 0 THEN <<>>
                     ELSE IF n \in I THEN Append(g[n - 1], s[n]) ELSE g[n - 1]
          BY <1>5, <4>1 DEF Keeps
        <4> QED BY <3>2, <4>1, <4>2
      <3> QED BY <3>1, <3>2
    <2> QED BY <2>1 DEF Keeps
  <1> QED BY <1>2, <1>6

LEMMA ToSetAppend ==
    ASSUME NEW T, NEW s \in Seq(T), NEW e \in T
    PROVE  Append(s, e) \in Seq(T) /\ ToSet(Append(s, e)) = ToSet(s) \cup {e}
  <1>1. DOMAIN Append(s, e) = DOMAIN s \cup {Len(s) + 1}
    OBVIOUS
  <1> QED BY <1>1 DEF ToSet

(* What was kept of the first n elements is in their order. *)
InOrder(s, I, n, kept) ==
    \A a, b \in DOMAIN kept :
        a < b => \E i, j \in (1 .. n) \cap I :
                     i < j /\ kept[a] = s[i] /\ kept[b] = s[j]

LEMMA AppendInOrder ==
    ASSUME NEW T, NEW s \in Seq(T), NEW I, NEW n \in 1 .. Len(s), n \in I,
           NEW kept \in Seq(T), InOrder(s, I, n - 1, kept),
           ToSet(kept) = {s[i] : i \in (1 .. n - 1) \cap I}
    PROVE  InOrder(s, I, n, Append(kept, s[n]))
  <1> DEFINE longer == Append(kept, s[n])
  <1>1. SUFFICES ASSUME NEW a \in DOMAIN longer, NEW b \in DOMAIN longer, a < b
                 PROVE  \E i, j \in (1 .. n) \cap I :
                            i < j /\ longer[a] = s[i] /\ longer[b] = s[j]
    BY DEF InOrder
  <1>2. /\ Len(kept) \in Nat /\ DOMAIN kept = 1 .. Len(kept) /\ n \in Nat
        /\ DOMAIN longer = 1 .. Len(kept) + 1
        /\ longer[Len(kept) + 1] = s[n]
        /\ \A c \in 1 .. Len(kept) : longer[c] = kept[c]
    OBVIOUS
  <1> HIDE DEF longer
  <1>3. a \in DOMAIN kept /\ longer[a] = kept[a]
    BY <1>1, <1>2
  <1>4. CASE b \in DOMAIN kept
    <2>1. PICK i, j \in (1 .. n - 1) \cap I : i < j /\ kept[a] = s[i] /\ kept[b] = s[j]
      BY <1>1, <1>3, <1>4 DEF InOrder
    <2> QED BY <1>2, <1>3, <1>4, <2>1
  <1>5. CASE b \notin DOMAIN kept
    <2>1. b = Len(kept) + 1 /\ longer[b] = s[n]
      BY <1>1, <1>2, <1>5
    <2>2. PICK i \in (1 .. n - 1) \cap I : kept[a] = s[i]
      BY <1>3 DEF ToSet
    <2>3. i \in (1 .. n) \cap I /\ n \in (1 .. n) \cap I /\ i < n
      BY <1>2
    <2> QED BY <1>3, <2>1, <2>2, <2>3
  <1> QED BY <1>4, <1>5

(* It is a sequence of the elements at the indices, in their order. *)
LEMMA AtIndicesKeeps ==
    ASSUME NEW T, NEW s \in Seq(T), NEW I
    PROVE  /\ AtIndices(s, I) \in Seq(T)
           /\ ToSet(AtIndices(s, I)) = {s[i] : i \in DOMAIN s \cap I}
           /\ InOrder(s, I, Len(s), AtIndices(s, I))
  <1> DEFINE g == CHOOSE k : Keeps(s, I, k, Len(s))
  <1>1. Len(s) \in Nat /\ DOMAIN s = 1 .. Len(s)
    OBVIOUS
  <1>2. Keeps(s, I, g, Len(s))
    BY <1>1, KeepingSolved
  <1>3. AtIndices(s, I) = g[Len(s)]
    BY DEF AtIndices, Keeps
  <1> HIDE DEF g
  <1> DEFINE Right(n) == /\ g[n] \in Seq(T)
                         /\ ToSet(g[n]) = {s[i] : i \in (1 .. n) \cap I}
                         /\ InOrder(s, I, n, g[n])
             Bad == {n \in 0 .. Len(s) : ~Right(n)}
  <1> HIDE DEF Right
  <1>4. Bad = {}
    <2>1. SUFFICES ASSUME Bad # {} PROVE FALSE
      OBVIOUS
    <2>2. PICK n \in Bad : \A y \in Bad : n <= y
      <3>1. Bad \subseteq Nat
        BY <1>1
      <3> HIDE DEF Bad
      <3> QED BY <2>1, <3>1, LeastNumber
    <2>3. g[n] = IF n = 0 THEN <<>>
                 ELSE IF n \in I THEN Append(g[n - 1], s[n]) ELSE g[n - 1]
      BY <1>2, <2>2 DEF Keeps
    <2>4. CASE n = 0
      <3>1. /\ ToSet(<<>>) = {} /\ 1 .. 0 = {} /\ <<>> \in Seq(T)
            /\ InOrder(s, I, 0, <<>>)
        BY DEF ToSet, InOrder
      <3> QED BY <2>2, <2>3, <2>4, <3>1 DEF Right
    <2>5. CASE n # 0
      <3>1. n - 1 \in 0 .. Len(s) /\ s[n] \in T
        BY <1>1, <2>2, <2>5
      <3>2. Right(n - 1)
        BY <2>2, <3>1
      <3>3. 1 .. n = (1 .. n - 1) \cup {n}
        BY <2>2, <2>5, <1>1
      <3>4. g[n] \in Seq(T) /\ ToSet(g[n]) = {s[i] : i \in (1 .. n) \cap I}
        BY <2>3, <2>5, <3>1, <3>2, <3>3, ToSetAppend DEF Right
      <3>5. CASE n \in I
        <4>1. n \in 1 .. Len(s)
          BY <1>1, <2>2, <2>5
        <4>2. InOrder(s, I, n, Append(g[n - 1], s[n]))
          BY <3>2, <3>5, <4>1, AppendInOrder DEF Right
        <4> QED BY <2>2, <2>3, <2>5, <3>4, <3>5, <4>2 DEF Right
      <3>6. CASE n \notin I
        <4>1. (1 .. n - 1) \cap I \subseteq (1 .. n) \cap I
          BY <3>3
        <4>2. InOrder(s, I, n, g[n - 1])
          BY <3>2, <4>1 DEF InOrder, Right
        <4> QED BY <2>2, <2>3, <2>5, <3>4, <3>6, <4>2 DEF Right
      <3> QED BY <3>5, <3>6
    <2> QED BY <2>4, <2>5
  <1>5. Right(Len(s))
    BY <1>1, <1>4
  <1> QED BY <1>1, <1>3, <1>5 DEF Right

-----------------------------------------------------------------------------
(* The order of the middleware.  index() finds the first place of a name.   *)
LEMMA PositionsTell ==
    ASSUME NEW T, settings["MIDDLEWARE"] \in Seq(T), NEW name \in Installed
    PROVE  /\ Position(name) \in DOMAIN settings["MIDDLEWARE"]
           /\ settings["MIDDLEWARE"][Position(name)] = name
           /\ \A i \in DOMAIN settings["MIDDLEWARE"] :
                  settings["MIDDLEWARE"][i] = name => Position(name) <= i
  <1> DEFINE names == settings["MIDDLEWARE"]
             Places == {i \in DOMAIN names : names[i] = name}
  <1>1. Places \subseteq Nat /\ Places # {}
    BY DEF Installed, ToSet
  <1>2. PICK i \in Places : \A j \in Places : i <= j
    <2> HIDE DEF Places
    <2> QED BY <1>1, LeastNumber
  <1>3. i \in DOMAIN names /\ names[i] = name /\ \A j \in 1 .. i - 1 : names[j] # name
    BY <1>2
  <1>4. /\ Position(name) \in DOMAIN names /\ names[Position(name)] = name
        /\ \A j \in 1 .. Position(name) - 1 : names[j] # name
    BY <1>3 DEF Position
  <1> QED BY <1>4

(* Two of ours whose first places are the wrong way round are noticed. *)
LEMMA OrderIsNoticed ==
    ASSUME NEW T, settings["MIDDLEWARE"] \in Seq(T), Expected = Found,
           NEW m \in 1 .. 7, NEW n \in 1 .. 7, m < n,
           {MiddlewareOrder[m], MiddlewareOrder[n]} \subseteq Installed
    PROVE  Position(MiddlewareOrder[m]) < Position(MiddlewareOrder[n])
  <1> DEFINE names == settings["MIDDLEWARE"]
             ours == {i \in DOMAIN MiddlewareOrder : MiddlewareOrder[i] \in Installed}
             places == {Position(name) : name \in Installed}
             first == MiddlewareOrder[m]
             second == MiddlewareOrder[n]
  <1>1. /\ MiddlewareOrder \in Seq(ToSet(MiddlewareOrder)) /\ Len(MiddlewareOrder) = 7
        /\ DOMAIN MiddlewareOrder = 1 .. 7
        /\ \A i, j \in 1 .. 7 : MiddlewareOrder[i] = MiddlewareOrder[j] => i = j
    BY DEF MiddlewareOrder, ToSet
  <1>2. Expected = AtIndices(MiddlewareOrder, ours) /\ Found = AtIndices(names, places)
    BY DEF Expected, Found
  <1>3. m \in ours /\ n \in ours /\ first # second
    BY <1>1
  <1> HIDE DEF ours, places
  <1>4. PICK a, b \in DOMAIN Expected : Expected[a] = first /\ Expected[b] = second
    <2>1. ToSet(Expected) = {MiddlewareOrder[i] : i \in DOMAIN MiddlewareOrder \cap ours}
      BY <1>1, <1>2, AtIndicesKeeps
    <2>2. first \in ToSet(Expected) /\ second \in ToSet(Expected)
      BY <1>1, <1>3, <2>1
    <2> QED BY <2>2 DEF ToSet
  <1>5. a < b
    <2>1. a \in Int /\ b \in Int /\ a # b
      <3>1. Expected \in Seq(ToSet(MiddlewareOrder))
        BY <1>1, <1>2, AtIndicesKeeps
      <3> QED BY <1>3, <1>4, <3>1
    <2>2. ASSUME b < a PROVE FALSE
      <3>1. InOrder(MiddlewareOrder, ours, Len(MiddlewareOrder), Expected)
        <4>1. InOrder(MiddlewareOrder, ours, Len(MiddlewareOrder),
                      AtIndices(MiddlewareOrder, ours))
          BY <1>1, AtIndicesKeeps
        <4> QED BY <1>2, <4>1
      <3>2. PICK i, j \in (1 .. 7) \cap ours :
                i < j /\ Expected[b] = MiddlewareOrder[i] /\ Expected[a] = MiddlewareOrder[j]
        BY <1>1, <1>4, <2>2, <3>1 DEF InOrder
      <3>3. i = n /\ j = m
        BY <1>1, <1>4, <3>2
      <3> QED BY <3>2, <3>3
    <2> QED BY <2>1, <2>2
  <1>6. PICK i, j \in (1 .. Len(names)) \cap places :
            i < j /\ first = names[i] /\ second = names[j]
    <2>1. InOrder(names, places, Len(names), Found)
      BY <1>2, AtIndicesKeeps
    <2> QED BY <1>4, <1>5, <2>1 DEF InOrder
  <1>7. i = Position(first) /\ j = Position(second)
    <2>1. \A place \in places : place = Position(names[place])
      BY PositionsTell DEF places
    <2> QED BY <1>6, <2>1
  <1> QED BY <1>6, <1>7

(* Where the order is right, the earlier of two installed layers runs ahead *)
(* of the later one each time that one runs.                                *)
LEMMA EarlierRunsBefore ==
    ASSUME NEW T, settings["MIDDLEWARE"] \in Seq(T), Expected = Found,
           NEW m \in 1 .. 7, NEW n \in 1 .. 7, m < n, MiddlewareOrder[m] \in Installed,
           NEW i \in DOMAIN settings["MIDDLEWARE"],
           settings["MIDDLEWARE"][i] = MiddlewareOrder[n]
    PROVE  \E j \in 1 .. i - 1 : settings["MIDDLEWARE"][j] = MiddlewareOrder[m]
  <1> DEFINE names == settings["MIDDLEWARE"]
             first == MiddlewareOrder[m]
             second == MiddlewareOrder[n]
  <1>1. second \in Installed
    <2>1. second # "other"
      BY DEF MiddlewareOrder
    <2> QED BY <2>1 DEF Installed, ToSet
  <1>2. Position(first) < Position(second)
    BY <1>1, OrderIsNoticed
  <1>3. /\ Position(first) \in DOMAIN names /\ names[Position(first)] = first
        /\ Position(second) \in DOMAIN names /\ Position(second) <= i
    BY <1>1, PositionsTell
  <1> QED BY <1>2, <1>3

(* An issue comes from the check that knows its id. *)
LEMMA OrderIssues ==
    ASSUME NEW id \in {"E001", "E002"}
    PROVE  id \in CheckMiddleware => id \in Check /\ id \in CheckDeploy
  BY DEF Check, CheckDeploy

LEMMA MiddlewareIssues ==
    ASSUME Installed # {}
    PROVE  /\ "client_ip" \notin Installed => "E001" \in CheckMiddleware
           /\ Expected # Found => "E002" \in CheckMiddleware
  <1> DEFINE conditions == [E001 |-> "client_ip" \notin Installed, E002 |-> Expected # Found]
  <1>1. CheckMiddleware = {id \in {"E001", "E002"} : conditions[id]}
    BY DEF CheckMiddleware, Issues
  <1>2. conditions["E001"] = ("client_ip" \notin Installed)
    BY Zenon
  <1>3. conditions["E002"] = (Expected # Found)
    BY Zenon
  <1> HIDE DEF conditions
  <1> QED BY <1>1, <1>2, <1>3, Zenon

(* An order that is called right is right for every entry of the list, also *)
(* where names are listed more than once: the ban comes first among the     *)
(* layers, and the address before all of them.                              *)
THEOREM BannedAreRejectedFirst == Spec => []BannedRejectedFirst
  <1> DEFINE names == settings["MIDDLEWARE"]
             quiet == Ran /\ "E002" \notin report.issues
  <1>1. ConfigInv => BannedRejectedFirst
    <2>1. SUFFICES ASSUME ConfigInv, NEW i \in DOMAIN names, names[i] \in Layers
                   PROVE  /\ /\ names[i] # "ip_ban" /\ "ip_ban" \in Installed
                             /\ quiet \/ Expected = Found
                             => \E j \in 1 .. i - 1 : names[j] = "ip_ban"
                          /\ quiet /\ "E001" \notin report.issues
                             => \E j \in 1 .. i - 1 : names[j] = "client_ip"
      BY DEF BannedRejectedFirst, Status
    <2>2. names \in Seq(ToSet(MiddlewareOrder) \cup {"other"})
      BY <2>1, SettingsAssumption DEF ConfigInv
    <2>3. Installed # {}
      <3>1. names[i] \in ToSet(names) /\ names[i] # "other"
        BY <2>1 DEF ToSet, Layers
      <3> QED BY <3>1 DEF Installed
    <2>4. /\ quiet => Expected = Found
          /\ quiet /\ "E001" \notin report.issues => "client_ip" \in Installed
      <3>1. Ran => report.issues \in {Check, CheckDeploy}
        BY <2>1 DEF ConfigInv, Ran, NotRun
      <3> QED BY <2>3, <3>1, OrderIssues, MiddlewareIssues
    <2>5. /\ MiddlewareOrder[1] = "client_ip" /\ MiddlewareOrder[2] = "ip_ban"
          /\ \E n \in 2 .. 7 : names[i] = MiddlewareOrder[n]
          /\ names[i] # "ip_ban" => \E n \in 3 .. 7 : names[i] = MiddlewareOrder[n]
      BY <2>1 DEF MiddlewareOrder, Layers
    <2>6. ASSUME names[i] # "ip_ban", "ip_ban" \in Installed, Expected = Found
          PROVE  \E j \in 1 .. i - 1 : names[j] = "ip_ban"
      <3>1. PICK n \in 3 .. 7 : names[i] = MiddlewareOrder[n]
        BY <2>5, <2>6
      <3> QED BY <2>1, <2>2, <2>5, <2>6, <3>1, EarlierRunsBefore
    <2>7. ASSUME "client_ip" \in Installed, Expected = Found
          PROVE  \E j \in 1 .. i - 1 : names[j] = "client_ip"
      <3>1. PICK n \in 2 .. 7 : names[i] = MiddlewareOrder[n]
        BY <2>5
      <3> QED BY <2>1, <2>2, <2>5, <2>7, <3>1, EarlierRunsBefore
    <2> QED BY <2>4, <2>6, <2>7
  <1> QED BY <1>1, ConfigInvariant, PTL

-----------------------------------------------------------------------------
(* Translations.  A prefix in front of a path goes, and what is left is the *)
(* path itself, which has none.                                             *)
LEMMA PrefixGoes ==
    ASSUME NEW S, NEW path \in Seq(S) \ {<<>>}, Head(path) = "/",
           NEW code, Lower(code) \in Language
    PROVE  StripLangPrefix(<<"/", code>> \o path) = path
  <1> DEFINE T == S \cup {code}
             translated == <<"/", code>> \o path
             rest == SubSeq(translated, 4, Len(translated))
  <1>0. path \in Seq(T)
    OBVIOUS
  <1>1. Len(path) \in Nat \ {0} /\ path[1] = "/" /\ <<"/", code>> \in Seq(T)
    BY <1>0
  <1> HIDE DEF T
  <1>2. /\ translated \in Seq(T) /\ Len(translated) = Len(path) + 2
        /\ translated[1] = "/" /\ translated[2] = code
        /\ \A i \in 1 .. Len(path) : translated[i + 2] = path[i]
    BY <1>0, <1>1
  <1>3. translated[3] = "/" /\ translated # <<>>
    BY <1>1, <1>2, 3 = 1 + 2
  <1> HIDE DEF translated
  <1>4. StripLangPrefix(translated) = Root \o rest
    BY <1>1, <1>2, <1>3 DEF StripLangPrefix
  <1>5. /\ rest \in Seq(T) /\ Len(rest) = Len(path) - 1
        /\ \A i \in 1 .. Len(path) - 1 : rest[i] = translated[i + 3]
    <2>1. \A i \in 4 .. Len(translated) : translated[i] \in T
      BY <1>1, <1>2
    <2>2. /\ rest \in Seq(T) /\ 4 \in Int /\ Len(translated) \in Int
          /\ Len(rest) = IF 4 <= Len(translated) THEN Len(translated) - 4 + 1 ELSE 0
          /\ \A i \in 1 .. Len(translated) - 4 + 1 : rest[i] = translated[4 + i - 1]
      BY <1>1, <1>2, <2>1, SubSeqProperties
    <2> HIDE DEF rest
    <2>3. ASSUME NEW i \in 1 .. Len(path) - 1
          PROVE  rest[i] = translated[i + 3]
      <3>1. i \in 1 .. Len(translated) - 4 + 1 /\ 4 + i - 1 = i + 3
        BY <1>1, <1>2
      <3> QED BY <2>2, <3>1
    <2>4. Len(rest) = Len(path) - 1
      <3>1. CASE Len(path) = 1
        BY <1>2, <2>2, <3>1
      <3>2. CASE Len(path) # 1
        <4>1. Len(path) \in Nat /\ Len(path) >= 2
          <5> DEFINE size == Len(path)
          <5>1. size \in Nat /\ size # 0 /\ size # 1
            BY <1>1, <3>2
          <5> HIDE DEF size
          <5>2. size \in Nat /\ size >= 2
            BY <5>1
          <5> QED BY <5>2 DEF size
        <4>2. 4 <= Len(translated)
          BY <1>2, <4>1
        <4>3. Len(rest) = Len(translated) - 4 + 1
          BY <2>2, <4>2
        <4> QED BY <1>2, <4>1, <4>3
      <3> QED BY <3>1, <3>2
    <2> QED BY <2>2, <2>3, <2>4
  <1> HIDE DEF rest
  <1>6. /\ Root \in Seq(T) /\ Len(Root) = 1 /\ Root[1] = "/"
    <2>1. path[1] \in T
      BY <1>0, <1>1
    <2>2. "/" \in T
      BY <1>1, <2>1
    <2> QED BY <2>2 DEF Root
  <1>7. /\ Root \o rest \in Seq(T) /\ Len(Root \o rest) = Len(path)
        /\ (Root \o rest)[1] = "/"
        /\ \A i \in 1 .. Len(path) - 1 : (Root \o rest)[i + 1] = rest[i]
    <2>1. /\ Root \o rest \in Seq(T) /\ Len(Root \o rest) = 1 + Len(rest)
          /\ \A i \in 1 .. 1 + Len(rest) :
                 (Root \o rest)[i] = IF i <= 1 THEN Root[i] ELSE rest[i - 1]
      <3>1. /\ Root \o rest \in Seq(T) /\ Len(Root \o rest) = Len(Root) + Len(rest)
            /\ \A i \in 1 .. Len(Root) + Len(rest) :
                   (Root \o rest)[i] = IF i <= Len(Root) THEN Root[i] ELSE rest[i - Len(Root)]
        BY <1>5, <1>6, ConcatProperties
      <3> QED BY <1>6, <3>1
    <2>2. ASSUME NEW i \in 1 .. Len(path) - 1
          PROVE  (Root \o rest)[i + 1] = rest[i]
      <3>1. i + 1 \in 1 .. 1 + Len(rest) /\ ~(i + 1 <= 1) /\ (i + 1) - 1 = i
        BY <1>1, <1>5
      <3> QED BY <2>1, <3>1
    <2> QED BY <1>1, <1>5, <1>6, <2>1, <2>2
  <1>8. ASSUME NEW i \in 1 .. Len(path)
        PROVE  (Root \o rest)[i] = path[i]
    <2>1. CASE i = 1
      BY <1>1, <1>7, <2>1
    <2>2. CASE i # 1
      <3>1. i - 1 \in 1 .. Len(path) - 1 /\ (i - 1) + 1 = i /\ (i - 1) + 3 = i + 2
        BY <1>1, <2>2
      <3>2. (Root \o rest)[i] = rest[i - 1]
        BY <1>7, <3>1
      <3>3. rest[i - 1] = translated[i + 2]
        BY <1>5, <3>1
      <3> QED BY <1>2, <3>2, <3>3
    <2> QED BY <2>1, <2>2
  <1>9. Root \o rest = path
    BY <1>1, <1>7, <1>8, <1>0, SeqEqual
  <1> QED BY <1>4, <1>9 DEF translated

(* "A translated URL cannot be used to slip past a prefix rule"             *)
(* (strip_lang_prefix), for every path without a language prefix, every     *)
(* language of the project, however it is written, and all settings.        *)
THEOREM TranslationsAreInvisible == Spec => []TranslationIsInvisible
  <1>1. TranslationIsInvisible
    <2>1. SUFFICES ASSUME NEW path \in Path, NEW code \in Language \cup {"EN"},
                          Lower(code) \in Language
                   PROVE  LET translated == <<"/", code>> \o path
                          IN  /\ IsExemptPath(translated) = IsExemptPath(path)
                              /\ IsApiPath(translated) = IsApiPath(path)
                              /\ IsLoginPath(translated) = IsLoginPath(path)
                              /\ IsHoneypotPath(translated) = IsHoneypotPath(path)
                              /\ RuleOf(translated) = RuleOf(path)
      BY DEF TranslationIsInvisible
    <2>2. StripLangPrefix(<<"/", code>> \o path) = StripLangPrefix(path)
      BY <2>1, PathAssumption, PrefixGoes
    <2> QED
      BY <2>2 DEF IsExemptPath, IsApiPath, IsLoginPath, IsHoneypotPath, RuleOf
  <1> QED BY <1>1, PTL


-----------------------------------------------------------------------------
(* The rate rules.  What is declared is a list, whoever declared it; what   *)
(* is built of it is a list of rules that let someone in.                   *)

Inside ==
    {rule.prefix : rule \in ToSet(DefaultRules)} \cup Texts \cup ToSet(LoginPaths) \cup {Root}
Rules == [prefix : Inside, limit : Nat \ {0}]

LEMMA WhatIsRaw ==
    ASSUME ConfigInv, NEW k \in DOMAIN Initial
    PROVE  Raw(k) \in MayHold(k) \cup MayHoldEnviron(k)
  BY DEF ConfigInv, Raw

LEMMA DeclaredItemsAreAList == ASSUME ConfigInv PROVE DeclaredItems \in Seq(Items)
  <1>1. Raw("RATE_LIMIT_RULES") \in {Unset} \cup Seq(Items)
    BY WhatIsRaw, SettingsAssumption
  <1>2. <<>> \in Seq(Items)
    OBVIOUS
  <1> QED BY <1>1, <1>2 DEF DeclaredItems, Or

(* The paths that can become login paths, and the url names among what the  *)
(* settings hold.                                                           *)
LoginUrls == {"LOGIN_URL", "LOGOUT_URL", "LOGOUT_REDIRECT_URL"}
LoginLists == (MayHold("LOGIN_PATHS") \cup MayHoldEnviron("LOGIN_PATHS")) \ {Unset}
Logins ==
    {<<"/", "admin", "/", "login", "/">>, <<"/", "admin", "/", "logout", "/">>}
        \cup {UrlPath[name] : name \in DOMAIN UrlPath}
        \cup (UNION {MayHold(k) \ {Unset} : k \in LoginUrls})
        \cup (UNION {ToSet(paths) : paths \in LoginLists})

LEMMA ResolvedUrls ==
    ASSUME ConfigInv, NEW k \in LoginUrls
    PROVE  ResolveUrl(settings[k]) \in Logins \cup {<<>>}
  <1>1. settings[k] = Unset \/ settings[k] \in Logins
    <2>1. settings[k] \in MayHold(k)
      BY SettingsAssumption DEF ConfigInv, LoginUrls
    <2>2. \A value \in MayHold(k) \ {Unset} : value \in UNION {MayHold(j) \ {Unset} : j \in LoginUrls}
      OBVIOUS
    <2> QED BY <2>1, <2>2 DEF Logins
  <1>2. \A name \in DOMAIN UrlPath : UrlPath[name] \in Logins
    BY DEF Logins
  <1> DEFINE value == settings[k]
  <1> HIDE DEF value
  <1>3. ResolveUrl(value) \in {<<>>, value} \cup {UrlPath[name] : name \in DOMAIN UrlPath}
    BY DEF ResolveUrl
  <1>4. value = Unset => ResolveUrl(value) = <<>>
    BY DEF ResolveUrl
  <1> QED BY <1>1, <1>2, <1>3, <1>4 DEF value

LEMMA LoginPathsAreLogins == ASSUME ConfigInv PROVE LoginPaths \in Seq(Logins)
  <1>1. Raw("LOGIN_PATHS") \in {Unset} \cup Seq(Texts)
    BY WhatIsRaw, SettingsAssumption
  <1> DEFINE paths == <<<<"/", "admin", "/", "login", "/">>, <<"/", "admin", "/", "logout", "/">>,
                   ResolveUrl(settings["LOGIN_URL"]), ResolveUrl(settings["LOGOUT_URL"]),
                   ResolveUrl(settings["LOGOUT_REDIRECT_URL"])>>
             T == Logins \cup {<<>>}
             I == {i \in DOMAIN paths : /\ paths[i] \notin {<<>>, Root}
                                        /\ \A j \in 1 .. i - 1 : paths[j] # paths[i]}
  <1>2. paths \in Seq(T)
    <2>1. /\ <<"/", "admin", "/", "login", "/">> \in Logins
          /\ <<"/", "admin", "/", "logout", "/">> \in Logins
      BY DEF Logins
    <2>2. /\ ResolveUrl(settings["LOGIN_URL"]) \in T
          /\ ResolveUrl(settings["LOGOUT_URL"]) \in T
          /\ ResolveUrl(settings["LOGOUT_REDIRECT_URL"]) \in T
      BY ResolvedUrls DEF LoginUrls
    <2> QED BY <2>1, <2>2
  <1>3. DefaultLogins = AtIndices(paths, I) /\ \A i \in I : paths[i] # <<>>
    BY DEF DefaultLogins
  <1> HIDE DEF paths, I
  <1>4. DefaultLogins \in Seq(Logins)
    <2>1. /\ DefaultLogins \in Seq(T)
          /\ ToSet(DefaultLogins) = {paths[i] : i \in DOMAIN paths \cap I}
      <3> HIDE DEF T
      <3> QED BY <1>2, <1>3, AtIndicesKeeps
    <2>2. \A i \in 1 .. Len(DefaultLogins) : DefaultLogins[i] \in ToSet(DefaultLogins)
      BY <2>1 DEF ToSet
    <2>3. \A i \in 1 .. Len(DefaultLogins) : DefaultLogins[i] \in Logins
      BY <1>2, <1>3, <2>1, <2>2
    <2> QED BY <2>1, <2>3
  <1>5. CASE Or(Raw("LOGIN_PATHS"), <<>>) = <<>>
    BY <1>4, <1>5 DEF LoginPaths
  <1>6. CASE Or(Raw("LOGIN_PATHS"), <<>>) # <<>>
    <2>1. LoginPaths = Or(Raw("LOGIN_PATHS"), <<>>)
      BY <1>6 DEF LoginPaths
    <2>2. LoginPaths = Raw("LOGIN_PATHS") /\ Raw("LOGIN_PATHS") # Unset
      BY <1>6, <2>1 DEF Or
    <2>3. LoginPaths \in Seq(Texts)
      BY <1>1, <2>2
    <2>4. LoginPaths \in LoginLists
      BY <2>2, WhatIsRaw, SettingsAssumption DEF LoginLists
    <2>5. ToSet(LoginPaths) \subseteq Logins
      <3> SUFFICES ASSUME NEW list \in LoginLists, NEW path \in ToSet(list)
                   PROVE  path \in Logins
        BY <2>4
      <3>1. path \in UNION {ToSet(s) : s \in LoginLists}
        OBVIOUS
      <3> QED BY <3>1 DEF Logins
    <2>6. \A i \in 1 .. Len(LoginPaths) : LoginPaths[i] \in Logins
      BY <2>3, <2>5 DEF ToSet
    <2> QED BY <2>3, <2>6
  <1> QED BY <1>5, <1>6

LEMMA DefaultRulesAreRules == DefaultRules \in Seq(Rules) /\ Len(DefaultRules) = 4
  <1>1. Len(DefaultRules) = 4 /\ DOMAIN DefaultRules = 1 .. 4
    BY DEF DefaultRules
  <1>2. \A i \in 1 .. 4 : DefaultRules[i].limit \in Nat \ {0}
    BY DEF DefaultRules, Rule
  <1>3. \A i \in 1 .. 4 : DefaultRules[i] = Rule(DefaultRules[i].prefix, DefaultRules[i].limit)
    BY DEF DefaultRules, Rule
  <1>4. \A i \in 1 .. 4 : DefaultRules[i].prefix \in Inside
    BY <1>1 DEF Inside, ToSet
  <1>5. \A i \in 1 .. 4 : DefaultRules[i] \in Rules
    BY <1>2, <1>3, <1>4 DEF Rules, Rule
  <1> QED BY <1>1, <1>5 DEF DefaultRules

(* The login rules: one of ten requests for each path no default covers. *)
LEMMA AuthRulesAreRules ==
    ASSUME ConfigInv
    PROVE  /\ AuthRules \in Seq(Rules)
           /\ \A i \in DOMAIN AuthRules : AuthRules[i].limit = 10
           /\ \A path \in ToSet(LoginPaths) :
                  Covered(path) \/ \E i \in DOMAIN AuthRules : AuthRules[i].prefix = path
  <1> DEFINE I == {i \in DOMAIN LoginPaths : ~Covered(LoginPaths[i])}
             bare == AtIndices(LoginPaths, I)
  <1>1. LoginPaths \in Seq(Logins)
    BY LoginPathsAreLogins
  <1>2. bare \in Seq(Logins) /\ ToSet(bare) = {LoginPaths[i] : i \in DOMAIN LoginPaths \cap I}
    <2> HIDE DEF I
    <2> QED BY <1>1, AtIndicesKeeps
  <1>3. AuthRules = [i \in DOMAIN bare |-> Rule(bare[i], 10)]
    BY DEF AuthRules
  <1> HIDE DEF bare
  <1>4. /\ DOMAIN bare = 1 .. Len(bare) /\ Len(bare) \in Nat
        /\ \A i \in DOMAIN bare : bare[i] \in Inside
    <2>1. DOMAIN bare = 1 .. Len(bare) /\ Len(bare) \in Nat
      BY <1>2
    <2>2. \A i \in DOMAIN bare : bare[i] \in ToSet(bare)
      BY DEF ToSet
    <2>3. ToSet(bare) \subseteq ToSet(LoginPaths)
      BY <1>2 DEF ToSet
    <2>4. ToSet(LoginPaths) \subseteq Inside
      BY DEF Inside
    <2> QED BY <2>1, <2>2, <2>3, <2>4
  <1>5. AuthRules \in Seq(Rules)
    BY <1>3, <1>4 DEF Rules, Rule
  <1>6. \A i \in DOMAIN AuthRules : AuthRules[i].limit = 10 /\ AuthRules[i].prefix = bare[i]
    BY <1>3 DEF Rule
  <1>7. \A path \in ToSet(LoginPaths) : Covered(path) \/ path \in ToSet(bare)
    BY <1>2 DEF ToSet
  <1> QED BY <1>3, <1>5, <1>6, <1>7 DEF ToSet

(* The usable entries, in force as they are, or the defaults; and Root. *)
LEMMA RulesAreBuilt ==
    ASSUME ConfigInv, NEW T, NEW items \in Seq(T),
           \A e \in T : Usable(e) => e.prefix \in Inside /\ e.limit \in Int
    PROVE  /\ BuildRules(items) \in Seq(Rules) /\ BuildRules(items) # <<>>
           /\ Root \in {rule.prefix : rule \in ToSet(BuildRules(items))}
           /\ \A i \in DOMAIN items :
                  Usable(items[i]) => Rule(items[i].prefix, items[i].limit)
                                          \in ToSet(BuildRules(items))
           /\ items = <<>> =>
                  /\ Len(AuthRules) <= Len(BuildRules(items))
                  /\ \A i \in DOMAIN AuthRules : BuildRules(items)[i] = AuthRules[i]
  <1> DEFINE I == {i \in DOMAIN items : Usable(items[i])}
             own == AtIndices(items, I)
             kept == [i \in DOMAIN own |-> Rule(own[i].prefix, own[i].limit)]
             rules == IF own # <<>> THEN kept ELSE AuthRules \o DefaultRules
             rooted == \E i \in DOMAIN rules : rules[i].prefix = Root
             last == Rule(Root, 240)
  <1>1. BuildRules(items) = IF rooted THEN rules ELSE Append(rules, last)
    BY DEF BuildRules
  <1>2. own \in Seq(T) /\ ToSet(own) = {items[i] : i \in DOMAIN items \cap I}
    <2> HIDE DEF I
    <2> QED BY AtIndicesKeeps
  <1>3. /\ DOMAIN own = 1 .. Len(own) /\ Len(own) \in Nat
        /\ \A i \in DOMAIN own : own[i] \in T /\ Usable(own[i])
    <2> HIDE DEF own
    <2> QED BY <1>2 DEF ToSet
  <1> HIDE DEF own
  <1>4. kept \in Seq(Rules) /\ DOMAIN kept = DOMAIN own
    BY <1>3 DEF Rules, Rule, Usable
  <1>5. /\ AuthRules \o DefaultRules \in Seq(Rules)
        /\ Len(AuthRules) <= Len(AuthRules \o DefaultRules)
        /\ \A i \in DOMAIN AuthRules : (AuthRules \o DefaultRules)[i] = AuthRules[i]
    BY AuthRulesAreRules, DefaultRulesAreRules
  <1>6. rules \in Seq(Rules)
    BY <1>4, <1>5
  <1>7. last \in Rules /\ last.prefix = Root
    BY DEF Rules, Rule, Inside
  <1>8. ASSUME NEW i \in DOMAIN items, Usable(items[i])
        PROVE  Rule(items[i].prefix, items[i].limit) \in ToSet(rules)
    <2>1. items[i] \in ToSet(own)
      BY <1>2, <1>8
    <2>2. PICK j \in DOMAIN own : own[j] = items[i]
      BY <2>1 DEF ToSet
    <2>3. own # <<>>
      BY <1>3, <2>2
    <2>4. rules = kept /\ kept[j] = Rule(items[i].prefix, items[i].limit)
      BY <2>2, <2>3
    <2> QED BY <1>4, <2>2, <2>4 DEF ToSet
  <1>9. ASSUME items = <<>>
        PROVE  /\ Len(AuthRules) <= Len(rules)
               /\ \A i \in DOMAIN AuthRules : rules[i] = AuthRules[i]
    <2>1. ToSet(own) = {}
      BY <1>2, <1>9
    <2>2. \A i \in 1 .. Len(own) : own[i] \in ToSet(own)
      BY <1>3 DEF ToSet
    <2>3. Len(own) = 0
      BY <1>3, <2>1, <2>2
    <2>4. own = <<>>
      BY <1>2, <2>3
    <2> QED BY <1>5, <2>4
  <1>10. AuthRules \in Seq(Rules)
    BY AuthRulesAreRules
  <1> HIDE DEF rules, last
  <1>11. CASE rooted
    <2>1. BuildRules(items) = rules
      BY <1>1, <1>11
    <2>2. rules # <<>>
      BY <1>11
    <2> QED BY <1>6, <1>8, <1>9, <1>11, <2>1, <2>2 DEF ToSet
  <1>12. CASE ~rooted
    <2> DEFINE longer == Append(rules, last)
    <2>1. BuildRules(items) = longer
      BY <1>1, <1>12
    <2>2. longer \in Seq(Rules) /\ ToSet(longer) = ToSet(rules) \cup {last}
      BY <1>6, <1>7, ToSetAppend
    <2>3. /\ longer # <<>> /\ Len(rules) <= Len(longer)
          /\ \A i \in 1 .. Len(rules) : longer[i] = rules[i]
      <3>1. /\ Len(longer) = Len(rules) + 1 /\ Len(rules) \in Nat
            /\ \A i \in 1 .. Len(rules) : longer[i] = rules[i]
        BY <1>6, <1>7, AppendProperties
      <3> QED BY <3>1, <2>2, EmptySeq
    <2>4. items = <<>> => /\ Len(AuthRules) <= Len(longer)
                          /\ \A i \in DOMAIN AuthRules : longer[i] = AuthRules[i]
      <3>1. DOMAIN AuthRules = 1 .. Len(AuthRules) /\ Len(AuthRules) \in Nat
            /\ Len(rules) \in Nat /\ Len(longer) \in Nat
        BY <1>6, <1>10, <2>2
      <3> HIDE DEF longer
      <3> QED BY <1>9, <2>3, <3>1
    <2> HIDE DEF longer
    <2> QED BY <1>7, <1>8, <2>1, <2>2, <2>3, <2>4
  <1> QED BY <1>11, <1>12

(* What rate_limit_rules makes of the declaration. *)
LEMMA NormalizedItems ==
    ASSUME ConfigInv
    PROVE  /\ DeclaredItems \in Seq(Items)
           /\ [i \in DOMAIN DeclaredItems |-> Normalized(DeclaredItems[i])]
                  \in Seq({Normalized(e) : e \in Items})
           /\ \A e \in {Normalized(d) : d \in Items} :
                  Usable(e) => e.prefix \in Inside /\ e.limit \in Int
  <1>1. DeclaredItems \in Seq(Items)
    BY DeclaredItemsAreAList
  <1>2. \A d \in Items : Normalized(d).prefix \in Texts /\ Normalized(d).limit \in Int
    <2> SUFFICES ASSUME NEW d \in Items
                 PROVE  Normalized(d).prefix \in Texts /\ Normalized(d).limit \in Int
      OBVIOUS
    <2>1. /\ d.prefix \in Texts /\ d.limit \in Int
          /\ DOMAIN d = {"form", "prefix", "limit"}
      BY DEF Items
    <2>2. Normalized(d).prefix = d.prefix /\ Normalized(d).limit = d.limit
      BY <2>1 DEF Normalized
    <2> QED BY <2>1, <2>2
  <1> HIDE DEF Items
  <1>3. [i \in DOMAIN DeclaredItems |-> Normalized(DeclaredItems[i])]
            \in Seq({Normalized(e) : e \in Items})
    BY <1>1
  <1> QED BY <1>1, <1>2, <1>3 DEF Inside

LEMMA RulesInForce ==
    ASSUME ConfigInv
    PROVE  /\ RateLimitRules \in Seq(Rules) /\ RateLimitRules # <<>>
           /\ Root \in {rule.prefix : rule \in ToSet(RateLimitRules)}
           /\ \A i \in DOMAIN DeclaredItems :
                  LET item == Normalized(DeclaredItems[i])
                  IN  Usable(item) => Rule(item.prefix, item.limit) \in ToSet(RateLimitRules)
           /\ DeclaredItems = <<>> =>
                  /\ Len(AuthRules) <= Len(RateLimitRules)
                  /\ \A i \in DOMAIN AuthRules : RateLimitRules[i] = AuthRules[i]
  <1> DEFINE items == [i \in DOMAIN DeclaredItems |-> Normalized(DeclaredItems[i])]
             T == {Normalized(e) : e \in Items}
  <1>1. /\ items \in Seq(T) /\ \A e \in T : Usable(e) => e.prefix \in Inside /\ e.limit \in Int
        /\ DeclaredItems \in Seq(Items)
    BY NormalizedItems
  <1>2. RateLimitRules = BuildRules(items)
    BY DEF RateLimitRules
  <1>3. DeclaredItems = <<>> => items = <<>>
    BY <1>1
  <1>4. /\ DOMAIN items = DOMAIN DeclaredItems
        /\ \A i \in DOMAIN DeclaredItems : items[i] = Normalized(DeclaredItems[i])
    OBVIOUS
  <1> HIDE DEF items, T
  <1>5. /\ BuildRules(items) \in Seq(Rules) /\ BuildRules(items) # <<>>
        /\ Root \in {rule.prefix : rule \in ToSet(BuildRules(items))}
        /\ \A i \in DOMAIN items :
               Usable(items[i]) => Rule(items[i].prefix, items[i].limit)
                                       \in ToSet(BuildRules(items))
        /\ items = <<>> =>
               /\ Len(AuthRules) <= Len(BuildRules(items))
               /\ \A i \in DOMAIN AuthRules : BuildRules(items)[i] = AuthRules[i]
    BY <1>1, RulesAreBuilt
  <1> QED BY <1>2, <1>3, <1>4, <1>5

(* "Settings that are silently ignored when they are malformed"             *)
(* (check_values): whatever is written, what is in force is well formed.    *)
THEOREM DeploymentTypes == Spec => []TypeOK
  <1>1. ConfigInv => TypeOK
    <2>1. SUFFICES ASSUME ConfigInv PROVE TypeOK
      OBVIOUS
    <2>2. \A layer : LayerMode(layer) \in Modes
      BY DEF LayerMode, LayerModes, Mode, Modes
    <2>3. \A rule \in ToSet(RateLimitRules) : rule.limit \in Nat \ {0}
      <3>1. ToSet(RateLimitRules) \subseteq Rules
        BY <2>1, RulesInForce DEF ToSet
      <3> QED BY <3>1 DEF Rules
    <2>4. report.checks \in {"none", "plain", "deploy"}
      BY <2>1 DEF ConfigInv, NotRun
    <2> QED BY <2>1, <2>2, <2>3, <2>4, CountsAreNat, RulesInForce DEF TypeOK
  <1> QED BY <1>1, ConfigInvariant, PTL

(* Nothing is declared as dicts, which are in their place in a setting, are *)
(* usable for E006 and are nothing for rate_limit_rules.                    *)
NoDicts ==
    \A items \in (MayHold("RATE_LIMIT_RULES") \cup MayHoldEnviron("RATE_LIMIT_RULES"))
                     \ {Unset} :
        \A i \in DOMAIN items : items[i].form # "dict"

(* "These BOUNCER_RATE_LIMIT_RULES entries could not be parsed and were     *)
(* dropped" (check_values, E006): where no rule is a dict, a rule of which  *)
(* the checks say nothing is in force, and this is the one reason.          *)
THEOREM RulesAreInEffect == ASSUME NoDicts PROVE Spec => []RulesInEffectOrReported
  <1>1. ConfigInv => RulesInEffectOrReported
    <2>1. SUFFICES ASSUME ConfigInv, Ran, "E006" \notin report.issues,
                          NEW i \in DOMAIN DeclaredItems
                   PROVE  Rule(DeclaredItems[i].prefix, DeclaredItems[i].limit)
                              \in ToSet(RateLimitRules)
      BY DEF RulesInEffectOrReported
    <2>2. "E006" \notin CheckValues
      <3>1. report.issues = Check \/ report.issues = CheckDeploy
        BY <2>1 DEF ConfigInv, Ran, NotRun
      <3> QED BY <2>1, <3>1 DEF Check, CheckDeploy
    <2>3. DroppedItems = {}
      <3> DEFINE conditions ==
                   [E003 |-> TrustedIps \ Addresses # {},
                    E004 |-> Raw("MODE") # Unset /\ Raw("MODE") \notin Modes,
                    E005 |-> DOMAIN Or(Raw("LAYER_MODES"), <<>>) \ Layers # {},
                    E006 |-> DroppedItems # {}]
      <3>1. CheckValues = Issues(conditions)
        BY DEF CheckValues
      <3>2. "E006" \in DOMAIN conditions
        OBVIOUS
      <3>3. conditions["E006"] = (DroppedItems # {})
        BY Zenon
      <3> HIDE DEF conditions
      <3>4. ~conditions["E006"]
        BY <2>2, <3>1, <3>2 DEF Issues
      <3> QED BY <3>3, <3>4, Zenon
    <2>4. Usable(DeclaredItems[i])
      BY <2>1, <2>3 DEF DroppedItems
    <2>5. DeclaredItems[i].form # "dict"
      <3>1. Raw("RATE_LIMIT_RULES") \in MayHold("RATE_LIMIT_RULES")
                                            \cup MayHoldEnviron("RATE_LIMIT_RULES")
        BY <2>1, WhatIsRaw, SettingsAssumption
      <3>2. CASE Raw("RATE_LIMIT_RULES") = Unset
        BY <2>1, <3>2 DEF DeclaredItems, Or
      <3>3. CASE Raw("RATE_LIMIT_RULES") # Unset
        <4>1. DeclaredItems = Raw("RATE_LIMIT_RULES")
          BY <3>3 DEF DeclaredItems, Or
        <4> QED BY <2>1, <3>1, <3>3, <4>1 DEF NoDicts
      <3> QED BY <3>2, <3>3
    <2>6. Normalized(DeclaredItems[i]) = DeclaredItems[i]
      BY <2>5 DEF Normalized
    <2> QED BY <2>1, <2>4, <2>6, RulesInForce
  <1> QED BY <1>1, ConfigInvariant, PTL

(* No login url starts with the code of a language: a path configured so, or*)
(* the path of a url name under i18n_patterns, is not the one the stripped  *)
(* request has.                                                             *)
PlainLogins == \A path \in Logins : StripLangPrefix(path) = path

(* "Auth endpoints are the brute-force surface, so they get their own       *)
(* strict bucket ahead of the generic rules" (_build_rules): every login    *)
(* path, however it is configured, where no rules are declared.             *)
THEOREM LoginsAreStrict == ASSUME PlainLogins PROVE Spec => []LoginIsStrict
  <1>1. ConfigInv => LoginIsStrict
    <2>1. SUFFICES ASSUME ConfigInv, DeclaredItems = <<>>, NEW path \in ToSet(LoginPaths)
                   PROVE  /\ RuleOf(path).limit = 10 \/ Covered(path)
                          /\ IsLoginPath(path)
      BY DEF LoginIsStrict
    <2>2. LoginPaths \in Seq(Logins) /\ path \in Logins
      BY <2>1, LoginPathsAreLogins DEF ToSet
    <2>3. StripLangPrefix(path) = path
      BY <2>2 DEF PlainLogins
    <2>4. IsPrefix(path, path)
      <3>1. Len(path) \in Int
        <4>1. CASE path \in {<<"/", "admin", "/", "login", "/">>,
                             <<"/", "admin", "/", "logout", "/">>}
          BY <4>1
        <4>2. CASE path \in Texts
          BY <4>2 DEF Texts
        <4>3. \A paths \in LoginLists : ToSet(paths) \subseteq Texts
          BY SettingsAssumption DEF LoginLists, ToSet
        <4>4. \A k \in LoginUrls : MayHold(k) \ {Unset} \subseteq Texts
          BY SettingsAssumption DEF LoginUrls
        <4> QED BY <2>2, <4>1, <4>2, <4>3, <4>4, SettingsAssumption DEF Logins
      <3> QED BY <3>1 DEF IsPrefix
    <2>5. ASSUME ~Covered(path)
          PROVE  MatchRule(path).limit = 10
      <3> DEFINE rules == RateLimitRules
                 hits == {i \in DOMAIN rules : IsPrefix(rules[i].prefix, path)}
                 first == CHOOSE i \in hits : \A j \in hits : i <= j
      <3>1. PICK a \in DOMAIN AuthRules : AuthRules[a].prefix = path
        BY <2>1, <2>5, AuthRulesAreRules
      <3>2. /\ AuthRules \in Seq(Rules) /\ rules \in Seq(Rules)
            /\ Len(AuthRules) <= Len(rules)
            /\ \A i \in DOMAIN AuthRules : rules[i] = AuthRules[i]
        BY <2>1, AuthRulesAreRules, RulesInForce
      <3>3. /\ a \in Nat /\ a \in DOMAIN rules
            /\ \A i \in DOMAIN rules : i \in Nat /\ (i <= a => i \in DOMAIN AuthRules)
        <4> HIDE DEF rules
        <4> QED BY <3>1, <3>2
      <3>4. hits \subseteq Nat /\ a \in hits
        BY <2>4, <3>1, <3>2, <3>3
      <3>5. \E i \in hits : \A j \in hits : i <= j
        <4> HIDE DEF hits
        <4> QED BY <3>4, LeastNumber
      <3>6. first \in hits /\ first <= a
        <4> HIDE DEF hits
        <4> QED BY <3>4, <3>5
      <3>7. first \in DOMAIN AuthRules /\ rules[first] = AuthRules[first]
        BY <3>2, <3>3, <3>6
      <3>8. rules[first].limit = 10
        BY <2>1, <3>7, AuthRulesAreRules
      <3>9. MatchRule(path) = rules[first]
        BY <3>4 DEF MatchRule
      <3> QED BY <3>8, <3>9
    <2>6. IsLoginPath(path)
      BY <2>1, <2>3 DEF IsLoginPath
    <2> QED BY <2>3, <2>5, <2>6 DEF RuleOf
  <1> QED BY <1>1, ConfigInvariant, PTL
=============================================================================
