------------------------------- MODULE Policy -------------------------------
(***************************************************************************)
(* The settings of a deployment and what policy.py makes of them: modes,   *)
(* switches, path classes, login paths and rate rules, with the matching   *)
(* that the honeypot and the rate limiter build on them.                   *)
(*                                                                         *)
(* A raw value is what the project wrote, in the Django settings or in the *)
(* environment.  Texts are told apart as far as the code does; a path is   *)
(* the sequence of its pieces, and no piece of an instance is a prefix of  *)
(* another, so that prefixes of texts are prefixes of sequences.  The parse*)
(* caches are keyed by every value they depend on and are not modelled.    *)
(***************************************************************************)
EXTENDS Integers, Sequences, SequencesExt

CONSTANTS
    Unset,      \* nobody set this knob
    Language,   \* the codes of settings.LANGUAGES
    UrlPath     \* the url names reverse() knows, and the paths it makes of them

VARIABLES
    settings,   \* the raw values in the Django settings
    environ     \* the raw values in the environment, fixed while a process runs

-----------------------------------------------------------------------------
(* Raw readers *)

Raw(name) == IF settings[name] # Unset THEN settings[name] ELSE environ[name]
Or(value, default) == IF value = Unset THEN default ELSE value

Yes == {"1", "true", "yes", "on"}
Bool(name, default) == IF Raw(name) = Unset THEN default ELSE Raw(name) \in Yes

(* The texts int() reads; every other one leaves the default. *)
Numeral == [t \in {"-1", "0", "1", "2"} |->
               CASE t = "-1" -> -1 [] t = "0" -> 0 [] t = "1" -> 1 [] t = "2" -> 2]
Number(name, default) ==
    IF Raw(name) \in DOMAIN Numeral THEN Numeral[Raw(name)] ELSE default
AtLeast0(n) == IF n > 0 THEN n ELSE 0

(* The elements of s at the indices in I, in their order.                   *)
AtIndices(s, I) ==
    LET kept[n \in 0 .. Len(s)] ==
            IF n = 0 THEN <<>>
            ELSE IF n \in I THEN Append(kept[n - 1], s[n]) ELSE kept[n - 1]
    IN  kept[Len(s)]

-----------------------------------------------------------------------------
(* Modes *)

Modes == {"enforce", "observe", "off"}
Layers == {"ip_ban", "honeypot", "json", "waf", "bot", "rate_limit"}

Mode == IF Raw("MODE") \in Modes THEN Raw("MODE") ELSE "enforce"

(* Mutant: a layer keeps a value that is not a mode. *)
LayerModesUnchecked ==
    LET raw == Or(Raw("LAYER_MODES"), <<>>)
    IN  [layer \in DOMAIN raw \cap Layers |-> raw[layer]]

(* An entry of an unknown layer, or with an unknown mode, is dropped.       *)
LayerModes ==
    LET raw == Or(Raw("LAYER_MODES"), <<>>)
    IN  [layer \in {l \in DOMAIN raw \cap Layers : raw[l] \in Modes} |-> raw[layer]]
LayerMode(layer) == IF layer \in DOMAIN LayerModes THEN LayerModes[layer] ELSE Mode
IsEnforcing(layer) == LayerMode(layer) = "enforce"

-----------------------------------------------------------------------------
(* Proxies, bans, staff *)

TrustedProxyCount == AtLeast0(Number("TRUSTED_PROXY_COUNT", 0))
ShadowProxyCount == AtLeast0(Number("SHADOW_PROXY_COUNT", 0))
BanEnforcementEnabled == Bool("BAN_ENFORCEMENT", FALSE)
AutoBanEnabled == Bool("AUTO_BAN", FALSE)
TrustedIps == Or(Raw("TRUSTED_IPS"), {})
StaffBypassEnabled == Bool("STAFF_BYPASS", TRUE)

-----------------------------------------------------------------------------
(* Paths and their classes *)

Root == <<"/">>
Slashed(path) == IF Last(path) = "/" THEN path ELSE Append(path, "/")
Unslashed(path) == IF Last(path) = "/" /\ path # Root THEN Front(path) ELSE path
StartsWith(path, prefixes) == \E p \in prefixes : IsPrefix(p, path)
Within(part, path) ==
    \E i \in 0 .. Len(path) - Len(part) : SubSeq(path, i + 1, i + Len(part)) = part

(* lower(): the language codes are lower case, a request may not be.        *)
Lower(piece) == IF piece = "EN" THEN "en" ELSE piece

(* Mutant: the request's own case is compared with the codes. *)
StripLangPrefixCaseSensitive(path) ==
    IF Len(path) > 1 /\ Head(path) = "/" /\ path[2] \in Language
    THEN CASE Len(path) = 2   -> Root
           [] path[3] = "/"   -> Root \o SubSeq(path, 4, Len(path))
           [] OTHER           -> path
    ELSE path

(* "/en/x" becomes "/x" and "/en" becomes "/". *)
StripLangPrefix(path) ==
    IF Len(path) > 1 /\ Head(path) = "/" /\ Lower(path[2]) \in Language
    THEN CASE Len(path) = 2   -> Root
           [] path[3] = "/"   -> Root \o SubSeq(path, 4, Len(path))
           [] OTHER           -> path
    ELSE path

ExemptPrefixes ==
    {<<"/", ".well-known", "/">>, <<"/", "robots.txt">>, <<"/", "sitemap">>}
        \cup Or(Raw("EXEMPT_PATHS"), {})
IsExemptPath(path) == StartsWith(StripLangPrefix(path), ExemptPrefixes)

ApiPrefixes == Or(Raw("API_PREFIXES"), {<<"/", "api", "/">>})
IsApiPath(path) ==
    LET stripped == StripLangPrefix(path)
    IN  \E prefix \in ApiPrefixes : Within(prefix, stripped)

-----------------------------------------------------------------------------
(* Login paths *)

(* A setting holds a path, or a url name that reverse() may know.           *)
ResolveUrl(value) ==
    IF value = Unset THEN <<>>
    ELSE IF Head(value) = "/" THEN value
    ELSE IF value \in DOMAIN UrlPath THEN UrlPath[value] ELSE <<>>

(* The admin's and what the settings name, if it resolves: each path once.  *)
DefaultLogins ==
    LET paths == <<<<"/", "admin", "/", "login", "/">>, <<"/", "admin", "/", "logout", "/">>,
                   ResolveUrl(settings["LOGIN_URL"]), ResolveUrl(settings["LOGOUT_URL"]),
                   ResolveUrl(settings["LOGOUT_REDIRECT_URL"])>>
    IN  AtIndices(paths, {i \in DOMAIN paths : /\ paths[i] \notin {<<>>, Root}
                                              /\ \A j \in 1 .. i - 1 : paths[j] # paths[i]})
LoginPaths ==
    LET configured == Or(Raw("LOGIN_PATHS"), <<>>)
    IN  IF configured # <<>> THEN configured ELSE DefaultLogins
LoginUrl == ResolveUrl(settings["LOGIN_URL"])

IsLoginPath(path) ==
    LET stripped == StripLangPrefix(path)
    IN  \/ stripped \in ToSet(LoginPaths)
        \/ Slashed(stripped) \in ToSet(LoginPaths)

-----------------------------------------------------------------------------
(* Rate rules *)

Rule(prefix, limit) == [prefix |-> prefix, limit |-> limit]
DefaultRules ==
    <<Rule(<<"/", "admin", "/", "login">>, 10), Rule(<<"/", "admin", "/">>, 120),
      Rule(<<"/", "api", "/">>, 240), Rule(Root, 240)>>

(* Mutant: the limit is not tested. *)
UsableAnyLimit(item) ==
    item.form \in {"tuple", "text", "dict"} /\ Head(item.prefix) = "/"

(* An item of the setting has a form, a prefix and a limit.  "pairs" is what*)
(* rate_limit_rules makes of a dict: a tuple of its sorted items, whose     *)
(* first element is no path.                                                *)
Usable(item) ==
    item.form \in {"tuple", "text", "dict"} /\ Head(item.prefix) = "/" /\ item.limit >= 1

Normalized(item) == IF item.form = "dict" THEN [item EXCEPT !.form = "pairs"] ELSE item

(* Login paths under a specific default keep that default. *)
Covered(path) ==
    \E i \in DOMAIN DefaultRules :
        DefaultRules[i].prefix # Root /\ IsPrefix(DefaultRules[i].prefix, path)
AuthRules ==
    LET bare == AtIndices(LoginPaths, {i \in DOMAIN LoginPaths : ~Covered(LoginPaths[i])})
    IN  [i \in DOMAIN bare |-> Rule(bare[i], 10)]

(* Mutant: the login rules follow the generic ones. *)
BuildRulesAuthLast(items) ==
    LET own == AtIndices(items, {i \in DOMAIN items : Usable(items[i])})
        rules == IF own # <<>> THEN [i \in DOMAIN own |-> Rule(own[i].prefix, own[i].limit)]
                 ELSE DefaultRules \o AuthRules
    IN  IF \E i \in DOMAIN rules : rules[i].prefix = Root THEN rules
        ELSE Append(rules, Rule(Root, 240))

BuildRules(items) ==
    LET own == AtIndices(items, {i \in DOMAIN items : Usable(items[i])})
        rules == IF own # <<>> THEN [i \in DOMAIN own |-> Rule(own[i].prefix, own[i].limit)]
                 ELSE AuthRules \o DefaultRules
    IN  IF \E i \in DOMAIN rules : rules[i].prefix = Root THEN rules
        ELSE Append(rules, Rule(Root, 240))

DeclaredItems == Or(Raw("RATE_LIMIT_RULES"), <<>>)
RateLimitRules ==
    BuildRules([i \in DOMAIN DeclaredItems |-> Normalized(DeclaredItems[i])])

(* match_rule: the first rule whose prefix matches, the last if none does.  *)
MatchRule(path) ==
    LET rules == RateLimitRules
        hits == {i \in DOMAIN rules : IsPrefix(rules[i].prefix, path)}
    IN  IF hits = {} THEN Last(rules)
        ELSE rules[CHOOSE i \in hits : \A j \in hits : i <= j]
RuleOf(path) == MatchRule(StripLangPrefix(path))

-----------------------------------------------------------------------------
(* match_honeypot_path: anchored at the root *)

HoneypotPaths ==
    {<<"/", "wp-login.php">>, <<"/", "console">>, <<"/", "admin", "/", "login.php">>}
        \cup Or(Raw("HONEYPOT_PATHS"), {})
IsHoneypotPath(path) ==
    LET candidate == Unslashed(StripLangPrefix(path))
    IN  \E entry \in HoneypotPaths :
            candidate = Unslashed(entry) \/ IsPrefix(Slashed(entry), candidate)

=============================================================================
