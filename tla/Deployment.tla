----------------------------- MODULE Deployment -----------------------------
(***************************************************************************)
(* A deployment of the bouncer: the operator writes settings or the        *)
(* environment and restarts, runs `manage.py check` (with or without       *)
(* --deploy), and the process resolves the addresses of requests.          *)
(***************************************************************************)
EXTENDS Checks, ClientAddress

CONSTANTS
    Initial,        \* the raw values a project starts with
    Choice,         \* knob -> the raw values its settings may hold
    EnvChoice,      \* knob -> the raw values its environment may hold
    Path,           \* paths without a language prefix, for the properties
    MaxWritten      \* bound: values that differ from the initial ones

(* What Django and the raw readers of policy.py make sure of.               *)
MayHold(k) ==
    {Initial[k]} \cup (IF k \in DOMAIN Choice THEN Choice[k] ELSE {})
MayHoldEnviron(k) == {Unset} \cup (IF k \in DOMAIN EnvChoice THEN EnvChoice[k] ELSE {})
Texts == Seq(STRING) \ {<<>>}
Items == [form : {"tuple", "text", "dict"}, prefix : Texts, limit : Int]
ASSUME SettingsAssumption ==
    /\ Initial = [k \in DOMAIN Initial |-> Initial[k]]
    /\ {"MIDDLEWARE", "RATE_LIMIT_RULES", "LOGIN_PATHS"} \subseteq DOMAIN Initial
    /\ MayHold("MIDDLEWARE") \subseteq Seq(ToSet(MiddlewareOrder) \cup {"other"})
    /\ MayHold("RATE_LIMIT_RULES") \cup MayHoldEnviron("RATE_LIMIT_RULES")
           \subseteq {Unset} \cup Seq(Items)
    /\ MayHold("LOGIN_PATHS") \cup MayHoldEnviron("LOGIN_PATHS")
           \subseteq {Unset} \cup Seq(Texts)
    /\ \A k \in {"LOGIN_URL", "LOGOUT_URL", "LOGOUT_REDIRECT_URL"} :
           k \in DOMAIN Initial /\ MayHold(k) \subseteq {Unset} \cup Texts
    /\ \A name \in DOMAIN UrlPath : UrlPath[name] \in Texts

ASSUME PathAssumption ==
    \A path \in Path : /\ path \in Seq(STRING) \ {<<>>} /\ Head(path) = "/"
                        /\ StripLangPrefix(path) = path

VARIABLE report     \* which check just ran and what it said; bound: forgotten when
                    \* a request comes, the settings being the same after it

vars == <<settings, environ, report, requestVars>>

NotRun == [checks |-> "none", issues |-> {}]

(* A restart waits for the requests in flight. *)
Idle == hops = <<>>
Written(s, e) ==
    {<<"settings", k>> : k \in {k \in DOMAIN s : s[k] # Initial[k]}}
        \cup {<<"environ", k>> : k \in {k \in DOMAIN e : e[k] # Unset}}

Configure ==
    /\ Idle
    /\ \/ \E k \in DOMAIN Choice : \E v \in Choice[k] :
              settings' = [settings EXCEPT ![k] = v] /\ UNCHANGED environ
       \/ \E k \in DOMAIN EnvChoice : \E v \in EnvChoice[k] :
              environ' = [environ EXCEPT ![k] = v] /\ UNCHANGED settings
    /\ Cardinality(Written(settings', environ')) <= MaxWritten
    /\ report' = NotRun
    /\ UNCHANGED requestVars

RunChecks ==
    /\ Idle
    /\ \/ report' = [checks |-> "plain", issues |-> Check]
       \/ report' = [checks |-> "deploy", issues |-> CheckDeploy]
    /\ UNCHANGED <<settings, environ, requestVars>>

Request == Send \/ Relay \/ ClientIPMiddleware \/ Respond

Init ==
    /\ settings = Initial
    /\ environ = [k \in DOMAIN Initial |-> Unset]
    /\ report = NotRun
    /\ NoRequest
Next ==
    \/ Configure
    \/ RunChecks
    \/ Request /\ report' = NotRun /\ UNCHANGED <<settings, environ>>
Spec == Init /\ [][Next]_vars

-----------------------------------------------------------------------------
(* Properties *)

(* Whatever is written, in the right form or not, in the settings or in the *)
(* environment, what is in force is well formed: every layer has a mode, no *)
(* proxy count is negative, and every rule, one of them for all paths, lets *)
(* someone in ("settings that are silently ignored when they are malformed",*)
(* check_values).                                                           *)
TypeOK ==
    /\ \A layer \in Layers : LayerMode(layer) \in Modes
    /\ TrustedProxyCount \in Nat /\ ShadowProxyCount \in Nat
    /\ \A rule \in ToSet(RateLimitRules) : rule.limit \in Nat \ {0}
    /\ Root \in {rule.prefix : rule \in ToSet(RateLimitRules)}
    /\ report.checks \in {"none", "plain", "deploy"}

Ran == report.checks # "none"

(* `manage.py check --deploy` that finds nothing means protection: every    *)
(* installed layer enforces, whichever of the two settings and the          *)
(* environment says so, and bans that detectors write are enforced          *)
(* (check_policy_coherence, check_deployment).                              *)
QuietChecksMeanProtection ==
    report = [checks |-> "deploy", issues |-> {}] =>
        /\ \A layer \in Installed \ {"client_ip"} : IsEnforcing(layer)
        /\ AutoBanEnabled => BanEnforcementEnabled
        /\ ShadowProxyCount = 0 \/ ShadowProxyCount # TrustedProxyCount
        /\ settings["PROXIED"] => TrustedProxyCount > 0

(* A rule the project declared is in force, or E006 names it: "These        *)
(* BOUNCER_RATE_LIMIT_RULES entries could not be parsed and were dropped"   *)
(* (check_values), said of the declaration, true of rate_limit_rules.  Rules*)
(* given as dicts are the exception, in an instance of their own.           *)
RulesInEffectOrReported ==
    Ran /\ "E006" \notin report.issues =>
        \A i \in DOMAIN DeclaredItems :
            Rule(DeclaredItems[i].prefix, DeclaredItems[i].limit)
                \in ToSet(RateLimitRules)

(* "Every rule match runs on the stripped path, so a translated URL cannot  *)
(* be used to slip past a prefix rule" (strip_lang_prefix): a path and its  *)
(* translations, in any case, are in the same classes and under one rule.   *)
TranslationIsInvisible ==
    \A path \in Path, code \in {c \in Language \cup {"EN"} : Lower(c) \in Language} :
        LET translated == <<"/", code>> \o path
        IN  /\ IsExemptPath(translated) = IsExemptPath(path)
            /\ IsApiPath(translated) = IsApiPath(path)
            /\ IsLoginPath(translated) = IsLoginPath(path)
            /\ IsHoneypotPath(translated) = IsHoneypotPath(path)
            /\ RuleOf(translated) = RuleOf(path)

(* "Auth endpoints are the brute-force surface, so they get their own       *)
(* strict bucket ahead of the generic rules - unless the project supplied a *)
(* full rule list of its own" (_build_rules), for the urls that no specific *)
(* default covers.                                                          *)
LoginIsStrict ==
    DeclaredItems = <<>> =>
        \A path \in ToSet(LoginPaths) :
            /\ RuleOf(path).limit = 10 \/ Covered(path)
            /\ IsLoginPath(path)

(* "IPBanMiddleware in particular must run before the detection layers so a *)
(* banned address is rejected first" (check_middleware): Django runs the    *)
(* entries as they are listed, one listed twice twice.  Where bouncer_status*)
(* says the order is ok, or the checks do not name E002, no detector runs   *)
(* ahead of the ban, and where they do not name E001 either no layer runs   *)
(* ahead of the client's address.                                           *)
BannedRejectedFirst ==
    LET middleware == settings["MIDDLEWARE"]
        RunsBefore(name, i) == \E j \in 1 .. i - 1 : middleware[j] = name
        quiet == Ran /\ "E002" \notin report.issues
        orderOk == quiet \/ Status.orderOk
    IN  \A i \in DOMAIN middleware :
            /\ /\ middleware[i] \in Layers \ {"ip_ban"} /\ "ip_ban" \in Installed
               /\ orderOk
               => RunsBefore("ip_ban", i)
            /\ /\ middleware[i] \in Layers
               /\ quiet /\ "E001" \notin report.issues
               => RunsBefore("client_ip", i)

=============================================================================
