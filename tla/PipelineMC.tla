----------------------------- MODULE PipelineMC -----------------------------
(* Deployments and requests for TLC: an enforcing one, one that observes    *)
(* with some layers off, and one that only takes reports, without staff.    *)
EXTENDS Pipeline, TLC

Enforcing == [layer \in {Stack[i] : i \in DOMAIN Stack} |-> "enforce"]
Observing == [Enforcing EXCEPT !["ip_ban"] = "observe", !["bot"] = "observe",
                               !["honeypot"] = "off", !["json"] = "observe"]
Get(view, cookie, hits) ==
    [view |-> view, cookie |-> cookie, hits |-> hits, exempt |-> view = "csp"]
MCSite ==
    {[mode |-> Enforcing, bans |-> {}, staffBypass |-> TRUE,
      maxChanges |-> 1, maxGrants |-> 0,
      requests |-> {Get("login", NoKey, {})}
          \cup {Get("page", key, {"honeypot", "rate_limit"}) : key \in Key \cup {NoKey}}],
     [mode |-> Enforcing, bans |-> {"temp", "perm"}, staffBypass |-> TRUE,
      maxChanges |-> 0, maxGrants |-> 0,
      requests |-> {Get("login", NoKey, {}), Get("page", NoKey, {"waf"})}],
     [mode |-> Observing, bans |-> {"temp"}, staffBypass |-> TRUE,
      maxChanges |-> 0, maxGrants |-> 1,
      requests |-> {Get("page", NoKey, {"json", "bot", "waf"}),
                    Get("page", NoKey, {"json", "bot", "harmless"})}],
     [mode |-> Enforcing, bans |-> {}, staffBypass |-> FALSE,
      maxChanges |-> 0, maxGrants |-> 0, requests |-> {Get("csp", NoKey, {})}]}

MCPermutations == Permutations(Worker)
=============================================================================
