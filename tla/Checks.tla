------------------------------- MODULE Checks -------------------------------
(***************************************************************************)
(* The system checks of checks.py and the report of bouncer_status: what   *)
(* each says of the settings Policy reads.  An issue is its id.            *)
(***************************************************************************)
EXTENDS Policy, FiniteSets

(* MIDDLEWARE_ORDER; "other" in settings.MIDDLEWARE is nobody's of ours.    *)
MiddlewareOrder ==
    <<"client_ip", "ip_ban", "honeypot", "json", "waf", "bot", "rate_limit">>
Installed == ToSet(settings["MIDDLEWARE"]) \ {"other"}
Position(name) ==
    CHOOSE i \in DOMAIN settings["MIDDLEWARE"] :
        /\ settings["MIDDLEWARE"][i] = name
        /\ \A j \in 1 .. i - 1 : settings["MIDDLEWARE"][j] # name

(* Mutant: the place of a name is where it is listed last. *)
FoundByLastPlace ==
    LET names == settings["MIDDLEWARE"]
    IN  AtIndices(names, {i \in DOMAIN names :
                              /\ names[i] \in Installed
                              /\ \A j \in i + 1 .. Len(names) : names[j] # names[i]})

(* Our names in the order they should have, and sorted by their index().    *)
Expected ==
    AtIndices(MiddlewareOrder,
              {i \in DOMAIN MiddlewareOrder : MiddlewareOrder[i] \in Installed})
Found == AtIndices(settings["MIDDLEWARE"], {Position(name) : name \in Installed})

(* The ids whose condition holds. *)
Issues(conditions) == {id \in DOMAIN conditions : conditions[id]}

CheckMiddleware ==
    IF Installed = {} THEN {"W001"}
    ELSE Issues([E001 |-> "client_ip" \notin Installed, E002 |-> Expected # Found])

-----------------------------------------------------------------------------
(* BOUNCER_TRUSTED_IPS holds addresses, networks, texts that are neither,   *)
(* and IPv4-mapped IPv6 addresses.  The last have a dot, so the parser gives*)
(* them an IPv4 prefix length and then refuses their host bits.             *)
Addresses == {"address", "network", "mapped"}
TrustedNetworks == TrustedIps \cap {"address", "network"}

(* Mutant: the entries of the environment are not looked at. *)
DroppedItemsSettingsOnly ==
    LET items == Or(settings["RATE_LIMIT_RULES"], <<>>)
    IN  {i \in DOMAIN items : ~Usable(items[i])}

(* E006 looks at the entries as they were declared. *)
DroppedItems == {i \in DOMAIN DeclaredItems : ~Usable(DeclaredItems[i])}

CheckValues ==
    Issues([E003 |-> TrustedIps \ Addresses # {},
            E004 |-> Raw("MODE") # Unset /\ Raw("MODE") \notin Modes,
            E005 |-> DOMAIN Or(Raw("LAYER_MODES"), <<>>) \ Layers # {},
            E006 |-> DroppedItems # {}])

CheckRuntimeDependencies ==
    IF Installed = {} THEN {}
    ELSE Issues([W002 |-> settings["CACHE"] = "DummyCache",
                 W003 |-> settings["CACHE"] = "LocMemCache",
                 W004 |-> StaffBypassEnabled /\ ~settings["SESSIONS"]])

(* Mutant: the warning asks the environment's switch only. *)
CheckPolicyCoherenceEnvironOnly ==
    IF Installed = {} THEN {}
    ELSE Issues([W005 |-> environ["AUTO_BAN"] \in Yes /\ ~BanEnforcementEnabled,
                 W006 |-> /\ BanEnforcementEnabled /\ ~StaffBypassEnabled
                          /\ TrustedIps = {},
                 W007 |-> /\ ShadowProxyCount > 0
                          /\ ShadowProxyCount = TrustedProxyCount])

CheckPolicyCoherence ==
    IF Installed = {} THEN {}
    ELSE Issues([W005 |-> AutoBanEnabled /\ ~BanEnforcementEnabled,
                 W006 |-> /\ BanEnforcementEnabled /\ ~StaffBypassEnabled
                          /\ TrustedIps = {},
                 W007 |-> /\ ShadowProxyCount > 0
                          /\ ShadowProxyCount = TrustedProxyCount])

CheckDeployment ==
    IF Installed = {} THEN {}
    ELSE Issues([W008 |-> settings["PROXIED"] /\ TrustedProxyCount = 0,
                 W009 |-> Mode # "enforce",
                 W010 |-> /\ Mode = "enforce"
                          /\ \E layer \in Layers : ~IsEnforcing(layer)])

Check == CheckMiddleware \cup CheckValues \cup CheckRuntimeDependencies
             \cup CheckPolicyCoherence
CheckDeploy == Check \cup CheckDeployment

-----------------------------------------------------------------------------
(* bouncer_status, as far as it says what the checks decide.                *)
Status ==
    [layers         |-> [layer \in Layers |-> LayerMode(layer)],
     banEnforcement |-> BanEnforcementEnabled,
     autoBan        |-> AutoBanEnabled,
     proxies        |-> TrustedProxyCount,
     rules          |-> RateLimitRules,
     loginPaths     |-> LoginPaths,
     orderOk        |-> Expected = Found]

=============================================================================
