---------------------------- MODULE DeploymentMC ----------------------------
EXTENDS Deployment

LoginUrlPath == <<"/", "accounts", "/", "login", "/">>
MCUrlPath == [name \in {<<"login">>} |-> LoginUrlPath]
MCInitial ==
    [MODE |-> Unset, LAYER_MODES |-> Unset, TRUSTED_PROXY_COUNT |-> Unset,
     SHADOW_PROXY_COUNT |-> Unset, BAN_ENFORCEMENT |-> Unset, AUTO_BAN |-> Unset,
     TRUSTED_IPS |-> Unset, STAFF_BYPASS |-> Unset, EXEMPT_PATHS |-> Unset,
     API_PREFIXES |-> Unset, LOGIN_PATHS |-> Unset, RATE_LIMIT_RULES |-> Unset,
     HONEYPOT_PATHS |-> Unset, LOGIN_URL |-> LoginUrlPath, LOGOUT_URL |-> Unset,
     LOGOUT_REDIRECT_URL |-> Unset, MIDDLEWARE |-> <<"other">> \o MiddlewareOrder,
     CACHE |-> "RedisCache", SESSIONS |-> TRUE, PROXIED |-> FALSE]

Item(form, prefix, limit) == [form |-> form, prefix |-> prefix, limit |-> limit]
Shop == <<"/", "shop", "/">>
MCItems(form) ==
    {<<Item(form, Shop, 60)>>, <<Item(form, Shop, 0), Item(form, Root, 100)>>,
     <<Item(form, <<"shop", "/">>, 60)>>}

(* What the environment and the settings can both hold. *)
MCTexts ==
    [MODE |-> {"observe", "off", "loud"},
     LAYER_MODES |-> {[waf |-> "observe"], [waf |-> "loud", bot |-> "off"],
                      [wall |-> "off"]},
     TRUSTED_PROXY_COUNT |-> {"-1", "1", "2", "many"}, SHADOW_PROXY_COUNT |-> {"1", "2"},
     BAN_ENFORCEMENT |-> {"yes", "no"}, AUTO_BAN |-> {"on", "false"},
     TRUSTED_IPS |-> {{"address"}, {"network", "nonsense"}, {"mapped"}},
     STAFF_BYPASS |-> {"0"}, EXEMPT_PATHS |-> {{Shop}}, API_PREFIXES |-> {{Shop}},
     LOGIN_PATHS |-> {<<<<"/", "signin", "/">>>>}, RATE_LIMIT_RULES |-> MCItems("text"),
     HONEYPOT_PATHS |-> {{Shop}}]
MCEnvChoice == MCTexts
MCChoice ==
    [k \in DOMAIN MCTexts |-> MCTexts[k] \cup {Unset}
        \cup IF k = "RATE_LIMIT_RULES" THEN MCItems("tuple") ELSE {}]
    @@ [LOGIN_URL |-> {<<"login">>, <<"missing">>, Shop},
        LOGOUT_URL |-> {<<"login">>}, LOGOUT_REDIRECT_URL |-> {Root, Shop},
        MIDDLEWARE |-> {<<>>, <<"ip_ban", "waf", "bot">>,
                        <<"client_ip", "waf", "ip_ban", "rate_limit">>,
                        <<"rate_limit", "client_ip">>,
                        <<"client_ip", "waf", "ip_ban", "waf">>,
                        <<"client_ip", "ip_ban", "other", "bot", "ip_ban">>,
                        <<"ip_ban", "client_ip", "ip_ban", "bot">>},
        CACHE |-> {"DummyCache", "LocMemCache"}, SESSIONS |-> {FALSE},
        PROXIED |-> {TRUE}]
DictChoice == [RATE_LIMIT_RULES |-> MCItems("dict")]
NoChoice == [k \in {} |-> {}]

MCPath ==
    {Root, Shop, LoginUrlPath, <<"/", "signin">>, <<"/", "api", "/", "x">>,
     <<"/", "admin", "/", "login", "/">>, <<"/", "admin", "/", "login.php">>,
     <<"/", "sitemap", ".xml">>, <<"/", "x", "/", "api", "/">>,
     <<"/", "wp-login.php", "/">>}

(* A client's address with a port, and a socket without one. *)
MCAddress ==
    [t \in {"a", "a:80", "unix", "p", "x", "junk"} |->
        CASE t \in {"a", "a:80"} -> "a" [] t \in {"unix", "junk"} -> NoAddress
          [] OTHER -> t]
MCForged == {<<>>, <<"junk", "x">>}

=============================================================================
