------------------------------ MODULE Pipeline ------------------------------
(***************************************************************************)
(* Requests of one client address on their way through the six layers to a *)
(* view and back, and the staff privilege every layer asks for before it   *)
(* turns one away: the session's user, cached five minutes; the mark a     *)
(* staff sign-in leaves on the address for days; the marker that lets a    *)
(* live session renew it once an hour; the answer memoised on the request. *)
(*                                                                         *)
(* A step is one call of the cache or the database, or one decision.  What *)
(* makes a layer look at a request is part of the request; the counters and*)
(* the ban list behind it are RateLimiter's, LoginGuard's and BanList's.   *)
(* Time goes in units of five minutes, and a request does not outlive two  *)
(* of their boundaries: the server's worker timeout is shorter.  The       *)
(* address is bannable and not among BOUNCER_TRUSTED_IPS.                  *)
(***************************************************************************)
EXTENDS CspReports, Sequences, FiniteSetsExt

CONSTANTS
    Site,           \* deployments: settings, requests, the bans that come (none
                    \* unless bans are enforced), and how often, at most, the
                    \* staff user's row changes and an operator grants trust
    Key, NoKey,     \* session keys of the staff user; no session cookie
    SessionTTL,     \* _SESSION_INFO_TTL
    RefreshTTL,     \* the hour of _refresh_staff_trust
    TrustTTL,       \* BOUNCER_STAFF_TRUST_DAYS
    GrantTTL        \* the days of an operator's --trust

ASSUME TimeoutAssumption ==
    {RefreshTTL, TrustTTL} \subseteq Nat /\ {SessionTTL, GrantTTL} \subseteq Nat \ {0}

(* Any mix of modes, requests and bans.  The ban list is not part of what a *)
(* request's content makes layers look at.                                  *)
ASSUME SiteAssumption ==
    /\ NoKey \notin Key
    /\ \A s \in Site :
           /\ s.bans \subseteq {"temp", "perm"} /\ s.staffBypass \in BOOLEAN
           /\ s.requests \subseteq
                  [view : {"page", "login", "csp"}, cookie : Key \cup {NoKey},
                   hits : SUBSET {"honeypot", "json", "waf", "bot", "harmless", "rate_limit"},
                   exempt : BOOLEAN]

VARIABLES
    site,       \* this deployment: settings do not change while it serves
    staff,      \* the user's row: is_staff and is_active
    session,    \* key -> "new", "live" or "gone" in the session store
    cached,     \* key -> bnc:sess:<key>, what it says and its time left
    trust,      \* time left of bnc:stafftrust:<ip>
    refresh,    \* time left of bnc:stafftrust:refresh:<ip>
    ban,        \* what ban_kind would say
    req,        \* worker -> its request
    evidence,   \* history: time for which having been staff justifies trust
    granted,    \* history: time left of an operator's grant
    welcome,    \* history: time left of the trust a sign-in gave
    changes, grants

historyVars == <<evidence, granted, welcome, changes, grants>>
vars == <<site, staff, session, cached, trust, refresh, ban, req, historyVars, cspVars>>

(* The last moment of being staff justifies trust this long: a request reads*)
(* the row then and caches it a unit later, another reads that entry just   *)
(* before it expires and marks the address another unit later.              *)
Longest == 1 + SessionTTL + TrustTTL

-----------------------------------------------------------------------------
(* Requests *)

Stack == <<"ip_ban", "honeypot", "json", "waf", "bot", "rate_limit">>
Response == Len(Stack) + 2      \* where in the stack the response phase is
NoEntry == [info |-> "unread", left |-> 0]

NoRequest ==
    [pc |-> "idle", at |-> 0, view |-> "page", cookie |-> NoKey, hits |-> {},
     exempt |-> FALSE, kind |-> "none", trusted |-> FALSE, info |-> "unread",
     priv |-> "unasked", exempted |-> FALSE, old |-> FALSE, welcomed |-> FALSE]

(* A layer that is off, or finds nothing, or a static or exempt path, goes  *)
(* on to the next; JSON validation does not ask for the path.               *)
Acts(r, layer) ==
    /\ site.mode[layer] # "off"
    /\ layer = "ip_ban" => site.bans # {}
    /\ layer # "ip_ban" => layer \in r.hits
    /\ r.exempt => layer = "json"
Forward(r) ==
    LET ahead == {i \in r.at + 1 .. Len(Stack) : Acts(r, Stack[i])}
        next == [r EXCEPT !.kind = "none"]
    IN  IF ahead = {} THEN [next EXCEPT !.pc = "view", !.at = Len(Stack) + 1]
        ELSE [next EXCEPT !.pc = "layer", !.at = Min(ahead)]

(* What the layer does with the answer of is_privileged.                    *)
Passes(r) ==
    \/ r.priv = "yes"
    \/ Stack[r.at] = "ip_ban" /\ r.kind = "temp" /\ r.view = "login"
    \/ site.mode[Stack[r.at]] = "observe"
Verdict(r) ==
    LET judged == [r EXCEPT !.exempted = @ \/ r.priv = "yes"]
    IN  IF Passes(r) THEN Forward(judged) ELSE [judged EXCEPT !.pc = "blocked"]

Returned(r) == IF r.at = Response THEN NoRequest ELSE Verdict(r)

(* A harmless user agent is logged with the user, not judged.               *)
Logs(r) == Stack[r.at] = "bot" /\ "harmless" \in r.hits

(* Mutant: whoever is trusted renews the trust. *)
ConcludedRenews(r) ==
    LET yes == r.trusted \/ r.info = "staff"
        answered == [r EXCEPT !.priv = IF yes THEN "yes" ELSE "no", !.trusted = FALSE]
    IN  CASE Logs(r) -> Forward(r)
          [] ~Logs(r) /\ yes -> [answered EXCEPT !.pc = "refresh"]
          [] OTHER -> Returned(answered)

(* session_user_info is known: is_privileged memoises its answer, and a live*)
(* staff session renews the trust.                                          *)
Concluded(r) ==
    LET yes == r.trusted \/ r.info = "staff"
        answered == [r EXCEPT !.priv = IF yes THEN "yes" ELSE "no", !.trusted = FALSE]
    IN  CASE Logs(r) -> Forward(r)
          [] ~Logs(r) /\ r.info = "staff" -> [answered EXCEPT !.pc = "refresh"]
          [] OTHER -> Returned(answered)

(* The session is asked unless it was, there is no cookie, or nobody would  *)
(* be exempt for it.                                                        *)
Identify(r) ==
    IF r.info # "unread" THEN Concluded(r)
    ELSE IF r.cookie = NoKey \/ ~site.staffBypass THEN Concluded([r EXCEPT !.info = "other"])
    ELSE [r EXCEPT !.pc = "session"]

(* Mutant: the answer is asked for again. *)
AskAgain(r) == IF Logs(r) THEN Identify(r) ELSE [r EXCEPT !.pc = "trust"]

(* is_privileged, at most once in a request.                                *)
Ask(r) ==
    IF Logs(r) THEN Identify(r)
    ELSE IF r.priv # "unasked" THEN Verdict(r)
    ELSE [r EXCEPT !.pc = "trust"]

Goto(w, r) == req' = [req EXCEPT ![w] = r]
At(w, label) == req[w].pc = label
InLayer(w, layer) == At(w, "layer") /\ Stack[req[w].at] = layer

-----------------------------------------------------------------------------
(* Privilege: is_privileged, session_user_info, _refresh_staff_trust *)

IsStaffTrustedIp(w) ==
    /\ At(w, "trust")
    /\ Goto(w, Identify([req[w] EXCEPT !.trusted = site.staffBypass /\ trust > 0]))
    /\ UNCHANGED <<site, staff, session, cached, trust, refresh, ban, historyVars, cspVars>>

SessionGet(w) ==
    LET entry == cached[req[w].cookie]
    IN  /\ At(w, "session")
        /\ \/ entry.left > 0 /\ Goto(w, Concluded([req[w] EXCEPT !.info = entry.info]))
           \/ entry.left = 0 /\ Goto(w, [req[w] EXCEPT !.pc = "store"])
        /\ UNCHANGED <<site, staff, session, cached, trust, refresh, ban, historyVars,
                       cspVars>>

SessionStore(w) ==
    /\ At(w, "store")
    /\ Goto(w, IF session[req[w].cookie] = "live" THEN [req[w] EXCEPT !.pc = "user"]
               ELSE [req[w] EXCEPT !.info = "other", !.pc = "fill"])
    /\ UNCHANGED <<site, staff, session, cached, trust, refresh, ban, historyVars, cspVars>>

UserRow(w) ==
    /\ At(w, "user")
    /\ Goto(w, [req[w] EXCEPT !.info = IF staff THEN "staff" ELSE "other", !.pc = "fill"])
    /\ UNCHANGED <<site, staff, session, cached, trust, refresh, ban, historyVars, cspVars>>

SessionSet(w) ==
    /\ At(w, "fill")
    /\ cached' = [cached EXCEPT ![req[w].cookie] =
                      [info |-> req[w].info, left |-> SessionTTL]]
    /\ Goto(w, Concluded(req[w]))
    /\ UNCHANGED <<site, staff, session, trust, refresh, ban, historyVars, cspVars>>

(* Mutant: the marker lasts as long as the trust. *)
RefreshForDays(w) ==
    /\ At(w, "refresh")
    /\ \/ refresh > 0 /\ Goto(w, Returned(req[w])) /\ UNCHANGED refresh
       \/ /\ refresh = 0 /\ refresh' = TrustTTL
          /\ Goto(w, [req[w] EXCEPT !.pc = "mark"])
    /\ UNCHANGED <<site, staff, session, cached, trust, ban, historyVars, cspVars>>

(* Only who adds the marker of the hour marks the address.                  *)
RefreshStaffTrust(w) ==
    /\ At(w, "refresh")
    /\ \/ refresh > 0 /\ Goto(w, Returned(req[w])) /\ UNCHANGED refresh
       \/ /\ refresh = 0 /\ refresh' = RefreshTTL
          /\ Goto(w, [req[w] EXCEPT !.pc = "mark"])
    /\ UNCHANGED <<site, staff, session, cached, trust, ban, historyVars, cspVars>>

MarkStaffTrustedIp(w) ==
    /\ At(w, "mark")
    /\ trust' = TrustTTL
    /\ Goto(w, Returned(req[w]))
    /\ UNCHANGED <<site, staff, session, cached, refresh, ban, historyVars, cspVars>>

-----------------------------------------------------------------------------
(* Layers *)

Unchanged ==
    UNCHANGED <<site, staff, session, cached, trust, refresh, ban, historyVars, cspVars>>

Arrive(w) ==
    /\ At(w, "idle")
    /\ \E r \in site.requests :
           /\ r.cookie # NoKey => session[r.cookie] # "new"
           /\ Goto(w, Forward([NoRequest EXCEPT
                  !.view = r.view, !.cookie = r.cookie, !.hits = r.hits,
                  !.exempt = r.exempt, !.welcomed = welcome > 1]))
    /\ Unchanged

IpBan(w) ==
    /\ InLayer(w, "ip_ban")
    /\ LET r == [req[w] EXCEPT !.kind = ban]
       IN  Goto(w, IF ban = "none" THEN Forward(r) ELSE Ask(r))
    /\ Unchanged

Honeypot(w) == InLayer(w, "honeypot") /\ Goto(w, Ask(req[w])) /\ Unchanged
JsonValidation(w) ==
    /\ InLayer(w, "json")
    /\ Goto(w, IF site.mode["json"] = "observe" THEN Forward(req[w])
               ELSE [req[w] EXCEPT !.pc = "blocked"])
    /\ Unchanged
Waf(w) == InLayer(w, "waf") /\ Goto(w, Ask(req[w])) /\ Unchanged
BotDetector(w) == InLayer(w, "bot") /\ Goto(w, Ask(req[w])) /\ Unchanged
RateLimit(w) == InLayer(w, "rate_limit") /\ Goto(w, Ask(req[w])) /\ Unchanged

Finish(w) ==
    /\ At(w, "blocked")
    /\ Goto(w, NoRequest)
    /\ Unchanged

-----------------------------------------------------------------------------
(* Views, and the response phase of IPBanMiddleware *)

Responds(r, user) ==
    IF user = "staff" /\ ~r.exempt
    THEN [NoRequest EXCEPT !.pc = "refresh", !.at = Response, !.old = r.old]
    ELSE NoRequest

(* request.user, if the view or a template looks at it.                     *)
SessionUser(r) ==
    IF r.cookie # NoKey /\ session[r.cookie] = "live" /\ staff THEN "staff" ELSE "other"
Page(w) ==
    /\ At(w, "view") /\ req[w].view = "page"
    /\ \E user \in {"unknown", SessionUser(req[w])} :
           Goto(w, Responds(req[w], user))
    /\ Unchanged

(* Whoever is not staff signs in, or a sign-in fails.                       *)
LoginOther(w) ==
    /\ At(w, "view") /\ req[w].view = "login"
    /\ Goto(w, Responds(req[w], "unknown"))
    /\ Unchanged

(* The staff user signs in, with a new session key or the one of the cookie.*)
Login(w) ==
    /\ At(w, "view") /\ req[w].view = "login" /\ staff
    /\ \E key \in Key :
           /\ \/ req[w].cookie = key /\ session[key] = "live"
              \/ session[key] = "new"
           /\ session' = [session EXCEPT ![key] = "live"]
    /\ Goto(w, IF site.staffBypass THEN [req[w] EXCEPT !.pc = "signMark"]
               ELSE Responds(req[w], "staff"))
    /\ UNCHANGED <<site, staff, cached, trust, refresh, ban, historyVars, cspVars>>

(* Mutant: the address is marked when there is a ban to lift. *)
SignInMarkIfBanned(w) ==
    /\ At(w, "signMark")
    /\ trust' = IF ban = "none" THEN trust ELSE TrustTTL
    /\ welcome' = TrustTTL
    /\ Goto(w, [req[w] EXCEPT !.pc = "signLift"])
    /\ UNCHANGED <<site, staff, session, cached, refresh, ban, evidence, granted,
                   changes, grants, cspVars>>

(* on_user_logged_in: the address is marked, then its ban lifted, and the   *)
(* rest of the request privileged.                                          *)
SignInMark(w) ==
    /\ At(w, "signMark")
    /\ trust' = TrustTTL
    /\ welcome' = TrustTTL
    /\ Goto(w, [req[w] EXCEPT !.pc = "signLift"])
    /\ UNCHANGED <<site, staff, session, cached, refresh, ban, evidence, granted,
                   changes, grants, cspVars>>
SignInLift(w) ==
    /\ At(w, "signLift")
    /\ ban' = "none"
    /\ Goto(w, Responds([req[w] EXCEPT !.priv = "yes"], "staff"))
    /\ UNCHANGED <<site, staff, session, cached, trust, refresh, historyVars, cspVars>>

(* The endpoint of browser reports is a view too.                           *)
NotCsp == UNCHANGED <<site, staff, session, cached, trust, refresh, ban, historyVars>>
ReportView(w) ==
    /\ At(w, "view") /\ req[w].view = "csp"
    /\ Receive(w)
    /\ Goto(w, [req[w] EXCEPT !.pc = "csp"])
    /\ NotCsp
ReportServe(w) ==
    /\ At(w, "csp")
    /\ Serve(w)
    /\ Goto(w, IF task'[w] = NoTask THEN Responds(req[w], "unknown") ELSE req[w])
    /\ NotCsp

-----------------------------------------------------------------------------
(* What else happens: the user's row, sessions, operators, detectors, time *)

ChangeStaff ==
    /\ changes < site.maxChanges
    /\ staff' = ~staff /\ changes' = changes + 1
    /\ evidence' = Longest
    /\ UNCHANGED <<site, session, cached, trust, refresh, ban, req, granted, welcome,
                   grants, cspVars>>

Logout ==
    /\ \E key \in Key :
           session[key] = "live" /\ session' = [session EXCEPT ![key] = "gone"]
    /\ UNCHANGED <<site, staff, cached, trust, refresh, ban, req, historyVars, cspVars>>

(* bouncer_unban --trust and the admin's action: lift, then mark.           *)
UnbanAndTrust ==
    /\ grants < site.maxGrants
    /\ ban' = "none" /\ trust' = GrantTTL
    /\ granted' = GrantTTL /\ grants' = grants + 1
    /\ UNCHANGED <<site, staff, session, cached, refresh, req, evidence, welcome, changes,
                   cspVars>>

(* Bans come from the detectors and from operators, and end.                *)
SetBan ==
    /\ \E kind \in {"none"} \cup site.bans : kind # ban /\ ban' = kind
    /\ UNCHANGED <<site, staff, session, cached, trust, refresh, req, historyVars, cspVars>>

Evict ==
    /\ \E key \in Key : cached[key].left > 0 /\ cached' = [cached EXCEPT ![key] = NoEntry]
    /\ UNCHANGED <<site, staff, session, trust, refresh, ban, req, historyVars, cspVars>>

(* The server kills a worker, wherever its request is.                      *)
Die(w) ==
    /\ ~At(w, "idle")
    /\ Goto(w, NoRequest)
    /\ task' = [task EXCEPT ![w] = NoTask]
    /\ UNCHANGED <<site, staff, session, cached, trust, refresh, ban, historyVars,
                   hour, counted, marked, rows>>

Lower(n) == IF n > 0 THEN n - 1 ELSE 0
AgedEntry(entry) ==
    IF entry.left > 1 THEN [entry EXCEPT !.left = @ - 1] ELSE NoEntry
Tick ==
    /\ site.staffBypass
    /\ \A w \in Worker : ~req[w].old
    /\ req' = [w \in Worker |-> [req[w] EXCEPT !.old = ~At(w, "idle")]]
    /\ cached' = [key \in Key |-> AgedEntry(cached[key])]
    /\ trust' = Lower(trust) /\ refresh' = Lower(refresh)
    /\ evidence' = IF staff THEN Longest ELSE Lower(evidence)
    /\ granted' = Lower(granted) /\ welcome' = Lower(welcome)
    /\ UNCHANGED <<site, staff, session, ban, changes, grants, cspVars>>

CspTime == (Unmark \/ NextHour) /\ UNCHANGED <<req>> /\ NotCsp

-----------------------------------------------------------------------------
Init ==
    /\ site \in Site
    /\ staff \in BOOLEAN
    /\ session = [key \in Key |-> "new"]
    /\ cached = [key \in Key |-> NoEntry]
    /\ trust = 0 /\ refresh = 0 /\ ban = "none"
    /\ req = [w \in Worker |-> NoRequest]
    /\ evidence = IF staff THEN Longest ELSE 0
    /\ granted = 0 /\ welcome = 0 /\ changes = 0 /\ grants = 0
    /\ CspInit

Privilege(w) ==
    \/ IsStaffTrustedIp(w) \/ SessionGet(w) \/ SessionStore(w) \/ UserRow(w)
    \/ SessionSet(w) \/ RefreshStaffTrust(w) \/ MarkStaffTrustedIp(w)
Layer(w) ==
    \/ IpBan(w) \/ Honeypot(w) \/ JsonValidation(w) \/ Waf(w)
    \/ BotDetector(w) \/ RateLimit(w)
View(w) ==
    \/ Page(w) \/ LoginOther(w) \/ Login(w) \/ SignInMark(w) \/ SignInLift(w)
    \/ ReportView(w) \/ ReportServe(w)
Continue(w) == Privilege(w) \/ Layer(w) \/ View(w) \/ Finish(w)
Outside ==
    \/ ChangeStaff \/ Logout \/ UnbanAndTrust \/ SetBan \/ Evict \/ Tick \/ CspTime
Next == (\E w \in Worker : Arrive(w) \/ Continue(w) \/ Die(w)) \/ Outside

Spec == Init /\ [][Next]_vars

-----------------------------------------------------------------------------
(* Properties *)

(* No timeout goes below zero or above what the code sets it to: a crash or *)
(* a race leaves no marker that would keep a session from renewing trust for*)
(* longer than the hour.  A report is being served in its view only.        *)
TypeOK ==
    /\ session \in [Key -> {"new", "live", "gone"}]
    /\ \A key \in Key :
           cached[key] \in {NoEntry}
               \cup [info : {"staff", "other"}, left : 1 .. SessionTTL]
    /\ trust \in 0 .. Max({TrustTTL, GrantTTL}) /\ refresh \in 0 .. RefreshTTL
    /\ ban \in {"none", "temp", "perm"}
    /\ \A w \in Worker : task[w] # NoTask <=> At(w, "csp")
    /\ CspTypeOK

(* "The answer is memoised on the request" (is_privileged): a request one   *)
(* layer lets through as privileged no later layer turns away, although the *)
(* trust or the session it was granted for expires in between; JSON         *)
(* validation is the layer that asks nobody.                                *)
OneAnswer ==
    \A w \in Worker :
        At(w, "blocked") /\ req[w].exempted => Stack[req[w].at] = "json"

(* Trust has a reason: somebody was staff less than the trust window ago,   *)
(* give or take the session cache and a request in flight, or an operator   *)
(* granted it.  A revoked staff user, another visitor behind the address or *)
(* requests that renew each other's trust do not keep it alive.             *)
Privileged(w) == req[w].priv = "yes"
TrustHasEvidence ==
    /\ trust <= Max({evidence, granted})
    /\ \A w \in Worker : Privileged(w) /\ ~req[w].old => evidence > 0 \/ granted > 0

(* "A staff or superuser sign-in lifts the ban on that address and marks it *)
(* trusted ... the primary recovery path" (signals.py): for the whole window*)
(* no layer that knows privilege turns a request of the address away, even  *)
(* if a detector that looked before the sign-in bans it again after.        *)
SignInRecovers ==
    \A w \in Worker :
        At(w, "blocked") /\ req[w].welcomed => Stack[req[w].at] = "json"

=============================================================================
