--------------------------- MODULE PipelineProofs ---------------------------
(***************************************************************************)
(* What a request gets from is_privileged, for every deployment, all       *)
(* timeouts, every set of requests and any number of workers: one answer,  *)
(* after a staff sign-in the right one, and no trust without a reason.     *)
(***************************************************************************)
EXTENDS ReportProofs

-----------------------------------------------------------------------------
(* Privilege.  A request keeps the answer it got, and one that arrived with *)
(* a sign-in's trust ahead of it gets the answer "yes".  Both are about one *)
(* request and need to know what it is at each step (Sound); the second     *)
(* also needs that the trust is still there when it asks (Standing).        *)

Layers == {"ip_ban", "honeypot", "json", "waf", "bot", "rate_limit"}
Asking == {"session", "store", "user", "fill"}
Labels == {"idle", "layer", "trust", "refresh", "mark", "view", "blocked",
           "signMark", "signLift", "csp"} \cup Asking
Info == {"unread", "staff", "other"}
Entries == [info : Info, left : Nat]
Requests ==
    [pc : Labels, at : 0 .. 8, view : {"page", "login", "csp"},
     cookie : Key \cup {NoKey},
     hits : SUBSET {"honeypot", "json", "waf", "bot", "harmless", "rate_limit"},
     exempt : BOOLEAN, kind : {"none", "temp", "perm"}, trusted : BOOLEAN, info : Info,
     priv : {"unasked", "yes", "no"}, exempted : BOOLEAN, old : BOOLEAN,
     welcomed : BOOLEAN]

(* An operator's grant is not shorter than the trust of a sign-in, which it *)
(* would replace: thirty days for the admin action, seven for the trust     *)
(* unless configured otherwise.  bouncer_unban --days may name fewer.       *)
GrantOutlastsTrust == TrustTTL <= GrantTTL
Kept(r) == r.welcomed /\ GrantOutlastsTrust

Calm(r) == (r.exempted => r.priv = "yes") /\ (Kept(r) => r.priv # "no")
Undecided(r) == Logs(r) \/ (r.priv = "unasked" /\ (Kept(r) => r.trusted))
Sound(r) ==
    /\ Calm(r)
    /\ r.pc = "idle" => ~r.welcomed
    /\ r.pc = "trust" => r.priv = "unasked"
    /\ r.pc \in Asking => r.cookie \in Key /\ Undecided(r)
    /\ r.pc \in {"refresh", "mark"} => r.at = Response \/ r.priv = "yes"
    /\ r.pc = "blocked" => Stack[r.at] = "json" \/ (r.priv # "yes" /\ ~Kept(r))

(* s is what becomes of r. *)
Follows(s, r) ==
    /\ s \in Requests /\ Sound(s) /\ s.pc # "signMark"
    /\ s.welcomed => r.welcomed /\ s.old = r.old

LEMMA StackIsSix == Len(Stack) = 6 /\ Response = 8
  BY DEF Stack, Response

LEMMA NoRequestIsOne == NoRequest \in Requests /\ Sound(NoRequest)
  BY DEF NoRequest, Requests, Labels, Info, Asking, Sound, Calm, Kept

(* The next layer is one of the stack. *)
LEMMA NextLayer ==
    ASSUME NEW S, S \subseteq 1 .. 6, S # {}
    PROVE  Min(S) \in 1 .. 6
  <1>1. \E x \in S : \A y \in S : x <= y
    <2>1. CASE 1 \in S
      BY <2>1
    <2>2. CASE 1 \notin S /\ 2 \in S
      BY <2>2
    <2>3. CASE 1 \notin S /\ 2 \notin S /\ 3 \in S
      BY <2>3
    <2>4. CASE 1 \notin S /\ 2 \notin S /\ 3 \notin S /\ 4 \in S
      BY <2>4
    <2>5. CASE S \subseteq {5, 6} /\ 5 \in S
      BY <2>5
    <2>6. CASE S \subseteq {6}
      <3>1. 6 \in S
        BY <2>6
      <3> QED BY <2>6, <3>1
    <2> QED BY <2>1, <2>2, <2>3, <2>4, <2>5, <2>6
  <1> QED BY <1>1 DEF Min

LEMMA StaysARequest ==
    ASSUME NEW r \in Requests, NEW pc \in Labels, NEW at \in 0 .. 8
    PROVE  [r EXCEPT !.pc = pc, !.at = at] \in Requests
  BY DEF Requests

LEMMA Placed ==
    ASSUME NEW r \in Requests, Calm(r), NEW pc \in {"layer", "view"}, NEW at \in 0 .. 8
    PROVE  Follows([r EXCEPT !.pc = pc, !.at = at], r)
  <1> DEFINE s == [r EXCEPT !.pc = pc, !.at = at]
  <1>1. pc \in Labels /\ pc \notin Asking /\ pc \notin {"refresh", "mark"}
    BY DEF Labels, Asking
  <1>2. s \in Requests
    BY <1>1, StaysARequest
  <1>3. /\ s.pc = pc /\ s.priv = r.priv /\ s.exempted = r.exempted
        /\ s.welcomed = r.welcomed /\ s.old = r.old
    BY DEF Requests
  <1>4. Calm(s)
    BY <1>3 DEF Calm, Kept
  <1> HIDE DEF s
  <1>5. Sound(s)
    BY <1>1, <1>3, <1>4 DEF Sound
  <1> QED BY <1>2, <1>3, <1>5 DEF Follows, s

LEMMA ForwardFollows ==
    ASSUME NEW r \in Requests, Calm(r)
    PROVE  Follows(Forward(r), r)
  <1> DEFINE ahead == {i \in r.at + 1 .. Len(Stack) : Acts(r, Stack[i])}
             next == [r EXCEPT !.kind = "none"]
  <1>1. next \in Requests /\ Calm(next) /\ next.welcomed = r.welcomed /\ next.old = r.old
    BY DEF Requests, Calm, Kept
  <1>2. CASE ahead = {}
    <2>1. Forward(r) = [next EXCEPT !.pc = "view", !.at = 7]
      BY <1>2, StackIsSix DEF Forward
    <2> HIDE DEF next
    <2>2. "view" \in {"layer", "view"} /\ 7 \in 0 .. 8
      OBVIOUS
    <2>3. Follows([next EXCEPT !.pc = "view", !.at = 7], next)
      BY <1>1, <2>2, Placed, Zenon
    <2> QED BY <1>1, <2>1, <2>3 DEF Follows
  <1>3. CASE ahead # {}
    <2>1. ahead \subseteq 1 .. 6
      BY StackIsSix DEF Requests
    <2>2. Min(ahead) \in 1 .. 6
      BY <1>3, <2>1, NextLayer
    <2>3. Forward(r) = [next EXCEPT !.pc = "layer", !.at = Min(ahead)]
      BY <1>3 DEF Forward
    <2> HIDE DEF next, ahead
    <2>4. "layer" \in {"layer", "view"} /\ Min(ahead) \in 0 .. 8
      BY <2>2
    <2>5. Follows([next EXCEPT !.pc = "layer", !.at = Min(ahead)], next)
      BY <1>1, <2>4, Placed, Zenon
    <2> QED BY <1>1, <2>3, <2>5 DEF Follows
  <1> QED BY <1>2, <1>3

LEMMA VerdictFollows ==
    ASSUME NEW r \in Requests, Calm(r), r.priv # "unasked"
    PROVE  Follows(Verdict(r), r)
  <1> DEFINE judged == [r EXCEPT !.exempted = r.exempted \/ r.priv = "yes"]
  <1>1. /\ judged \in Requests /\ Calm(judged) /\ judged.priv = r.priv
        /\ judged.welcomed = r.welcomed /\ judged.old = r.old
    BY DEF Requests, Calm, Kept
  <1>2. CASE Passes(r)
    BY <1>1, <1>2, ForwardFollows DEF Verdict, Follows
  <1>3. CASE ~Passes(r)
    <2>1. Verdict(r) = [judged EXCEPT !.pc = "blocked"] /\ r.priv = "no"
      BY <1>3 DEF Verdict, Passes, Requests
    <2> HIDE DEF judged
    <2> QED BY <1>1, <2>1 DEF Follows, Requests, Labels, Asking, Sound, Calm, Kept
  <1> QED BY <1>2, <1>3

LEMMA ReturnedFollows ==
    ASSUME NEW r \in Requests, Calm(r), r.priv # "unasked" \/ r.at = Response
    PROVE  Follows(Returned(r), r)
  BY VerdictFollows, NoRequestIsOne DEF Returned, Follows, NoRequest

LEMMA ConcludedFollows ==
    ASSUME NEW r \in Requests, Calm(r), Undecided(r)
    PROVE  Follows(Concluded(r), r)
  <1> DEFINE yes == r.trusted \/ r.info = "staff"
             answered == [r EXCEPT !.priv = IF yes THEN "yes" ELSE "no", !.trusted = FALSE]
  <1>1. CASE Logs(r)
    BY <1>1, ForwardFollows DEF Concluded
  <1>2. CASE ~Logs(r)
    <2>1. r.priv = "unasked" /\ (Kept(r) => yes)
      BY <1>2 DEF Undecided
    <2>2. /\ answered \in Requests /\ answered.welcomed = r.welcomed
          /\ answered.old = r.old /\ answered.priv # "unasked"
          /\ yes => answered.priv = "yes"
      BY DEF Requests
    <2>3. Calm(answered)
      BY <2>1, <2>2 DEF Calm, Kept, Requests
    <2>4. CASE r.info = "staff"
      <3>1. Concluded(r) = [answered EXCEPT !.pc = "refresh"] /\ answered.priv = "yes"
        BY <1>2, <2>2, <2>4 DEF Concluded
      <3> HIDE DEF answered
      <3> QED
        BY <2>2, <2>3, <3>1 DEF Follows, Requests, Labels, Asking, Sound, Calm, Kept
    <2>5. CASE r.info # "staff"
      <3>1. Concluded(r) = Returned(answered)
        BY <1>2, <2>5 DEF Concluded
      <3> HIDE DEF answered
      <3> QED BY <2>2, <2>3, <3>1, ReturnedFollows DEF Follows
    <2> QED BY <2>4, <2>5
  <1> QED BY <1>1, <1>2

(* Staying undecided: the fields that Undecided reads are not the ones that *)
(* reading a session changes.                                               *)
LEMMA IdentifyFollows ==
    ASSUME NEW r \in Requests, Calm(r), Undecided(r)
    PROVE  Follows(Identify(r), r)
  <1>1. CASE r.info # "unread"
    BY <1>1, ConcludedFollows DEF Identify
  <1>2. CASE r.info = "unread" /\ (r.cookie = NoKey \/ ~site.staffBypass)
    <2> DEFINE s == [r EXCEPT !.info = "other"]
    <2>1. s \in Requests /\ Calm(s) /\ Undecided(s) /\ s.welcomed = r.welcomed /\ s.old = r.old
      BY DEF Requests, Info, Calm, Kept, Undecided, Logs
    <2>2. Identify(r) = Concluded(s)
      BY <1>2 DEF Identify
    <2> QED BY <2>1, <2>2, ConcludedFollows DEF Follows
  <1>3. CASE r.info = "unread" /\ ~(r.cookie = NoKey \/ ~site.staffBypass)
    <2>1. Identify(r) = [r EXCEPT !.pc = "session"] /\ r.cookie \in Key
      BY <1>3 DEF Identify, Requests
    <2> QED
      BY <2>1
         DEF Follows, Requests, Labels, Asking, Sound, Calm, Kept, Undecided, Logs
  <1> QED BY <1>1, <1>2, <1>3

(* What the session said is to be cached. *)
LEMMA Filling ==
    ASSUME NEW r \in Requests, Calm(r), Undecided(r), r.cookie \in Key,
           NEW info \in Info
    PROVE  Follows([r EXCEPT !.info = info, !.pc = "fill"], r)
  <1> DEFINE s == [r EXCEPT !.info = info, !.pc = "fill"]
  <1>1. s \in Requests
    BY DEF Requests, Labels, Asking
  <1>2. /\ s.pc = "fill" /\ s.priv = r.priv /\ s.exempted = r.exempted
        /\ s.welcomed = r.welcomed /\ s.old = r.old /\ s.at = r.at
        /\ s.hits = r.hits /\ s.trusted = r.trusted /\ s.cookie = r.cookie
    BY DEF Requests
  <1> HIDE DEF s
  <1>3. Calm(s) /\ Undecided(s)
    BY <1>2 DEF Calm, Kept, Undecided, Logs
  <1>4. Sound(s)
    BY <1>2, <1>3 DEF Sound
  <1> QED BY <1>1, <1>2, <1>4 DEF Follows, s

LEMMA AskFollows ==
    ASSUME NEW r \in Requests, Calm(r)
    PROVE  Follows(Ask(r), r)
  <1>1. CASE Logs(r)
    BY <1>1, IdentifyFollows DEF Ask, Undecided
  <1>2. CASE ~Logs(r) /\ r.priv # "unasked"
    BY <1>2, VerdictFollows DEF Ask
  <1>3. CASE ~Logs(r) /\ r.priv = "unasked"
    <2>1. Ask(r) = [r EXCEPT !.pc = "trust"]
      BY <1>3 DEF Ask
    <2> QED
      BY <1>3, <2>1 DEF Follows, Requests, Labels, Asking, Sound, Calm, Kept
  <1> QED BY <1>1, <1>2, <1>3

LEMMA InResponse ==
    ASSUME NEW r \in Requests, NEW old \in BOOLEAN
    PROVE  [r EXCEPT !.pc = "refresh", !.at = 8, !.old = old] \in Requests
  <1> DEFINE placed == [r EXCEPT !.pc = "refresh", !.at = 8]
  <1>1. placed \in Requests
    <2>1. "refresh" \in Labels /\ 8 \in 0 .. 8
      BY DEF Labels
    <2> QED BY <2>1, StaysARequest, Zenon
  <1>2. [r EXCEPT !.pc = "refresh", !.at = 8, !.old = old] = [placed EXCEPT !.old = old]
    OBVIOUS
  <1> HIDE DEF placed
  <1>3. [placed EXCEPT !.old = old] \in Requests
    BY <1>1 DEF Requests
  <1> QED BY <1>2, <1>3

LEMMA RespondsFollows ==
    ASSUME NEW r \in Requests, NEW user
    PROVE  Follows(Responds(r, user), r)
  <1>1. CASE Responds(r, user) = NoRequest
    BY <1>1, NoRequestIsOne DEF Follows, NoRequest
  <1>2. CASE Responds(r, user) =
                 [NoRequest EXCEPT !.pc = "refresh", !.at = Response, !.old = r.old]
    <2> DEFINE s == [NoRequest EXCEPT !.pc = "refresh", !.at = Response, !.old = r.old]
    <2>1. s \in Requests
      <3>1. r.old \in BOOLEAN
        BY DEF Requests
      <3>2. s = [NoRequest EXCEPT !.pc = "refresh", !.at = 8, !.old = r.old]
        BY StackIsSix
      <3>3. [NoRequest EXCEPT !.pc = "refresh", !.at = 8, !.old = r.old] \in Requests
        BY <3>1, NoRequestIsOne, InResponse, Zenon
      <3> HIDE DEF s
      <3> QED BY <3>2, <3>3
    <2>2. /\ s.pc = "refresh" /\ s.at = Response /\ s.old = r.old
          /\ s.exempted = FALSE /\ s.welcomed = FALSE
      BY DEF NoRequest
    <2>3. Sound(s)
      BY <2>2 DEF Sound, Calm, Kept, Asking
    <2> QED BY <1>2, <2>1, <2>2, <2>3 DEF Follows
  <1> QED BY <1>1, <1>2 DEF Responds

-----------------------------------------------------------------------------
(* What the requests share.                                                 *)

Standing ==
    /\ site \in Site /\ ban \in {"none", "temp", "perm"} /\ cached \in [Key -> Entries]
    /\ trust \in Nat /\ welcome \in Nat /\ welcome <= TrustTTL
    /\ GrantOutlastsTrust => trust >= welcome
    /\ welcome > 0 => site.staffBypass

(* With so much trust left, the trust a request counts on outlasts it.      *)
Covered(r, left) ==
    /\ r.pc = "signMark" => site.staffBypass
    /\ Kept(r) => /\ site.staffBypass /\ TrustTTL >= 2
                  /\ IF r.old THEN left >= 1 ELSE left >= 2

AnswerInv ==
    /\ Standing
    /\ req \in [Worker -> Requests]
    /\ \A w \in Worker : Sound(req[w]) /\ Covered(req[w], trust)

LEMMA TimeoutsAreNat == TrustTTL \in Nat /\ GrantTTL \in Nat /\ SessionTTL \in Nat
  BY TimeoutAssumption

(* One worker moves; the trust is left alone, or given anew. *)
LEMMA Moving ==
    ASSUME AnswerInv, NEW w \in Worker, NEW s, Goto(w, s), Standing',
           s \in Requests, Sound(s), Covered(s, trust'), site' = site,
           trust' \in {trust, TrustTTL, GrantTTL}
    PROVE  AnswerInv'
  <1>1. /\ req' \in [Worker -> Requests] /\ req'[w] = s
        /\ \A v \in Worker \ {w} : req'[v] = req[v]
    BY DEF AnswerInv, Goto
  <1>2. SUFFICES ASSUME NEW v \in Worker
                 PROVE  Sound(req'[v]) /\ Covered(req'[v], trust')
    BY <1>1 DEF AnswerInv, Sound, Calm, Kept, Undecided, Logs, Covered
  <1>3. CASE v = w
    BY <1>1, <1>3 DEF Covered
  <1>4. CASE v # w
    <2>1. req'[v] = req[v] /\ req[v] \in Requests /\ Sound(req[v]) /\ Covered(req[v], trust)
      BY <1>1, <1>4 DEF AnswerInv
    <2>2. Kept(req[v]) => TrustTTL <= GrantTTL
      BY DEF Kept, GrantOutlastsTrust
    <2>3. trust \in Nat
      BY DEF AnswerInv, Standing
    <2> QED BY <2>1, <2>2, <2>3, TimeoutsAreNat DEF Covered
  <1> QED BY <1>3, <1>4

(* ... to what follows from its request. *)
LEMMA Following ==
    ASSUME AnswerInv, NEW w \in Worker, NEW s, Goto(w, s), Follows(s, req[w]),
           Standing', site' = site, trust' \in {trust, TrustTTL, GrantTTL}
    PROVE  AnswerInv'
  <1>1. /\ req[w] \in Requests /\ Covered(req[w], trust) /\ s \in Requests
        /\ trust \in Nat
    BY DEF AnswerInv, Follows, Standing
  <1>2. Kept(s) => Kept(req[w]) /\ s.old = req[w].old /\ TrustTTL <= GrantTTL
    BY DEF Follows, Kept, GrantOutlastsTrust
  <1>3. Covered(s, trust')
    BY <1>1, <1>2, TimeoutsAreNat DEF Covered, Follows
  <1> QED BY <1>3, Moving DEF Follows

(* Only the request changes. *)
LEMMA FollowingAlone ==
    ASSUME AnswerInv, NEW w \in Worker, NEW s, Goto(w, s), Follows(s, req[w]),
           UNCHANGED <<site, cached, trust, ban, welcome>>
    PROVE  AnswerInv'
  <1>1. Standing'
    BY DEF AnswerInv, Standing
  <1> QED BY <1>1, Following

(* ... or not even that. *)
LEMMA Others ==
    ASSUME AnswerInv, Standing', site' = site, req' = req,
           trust' \in {trust, TrustTTL, GrantTTL}
    PROVE  AnswerInv'
  <1>1. SUFFICES ASSUME NEW v \in Worker
                 PROVE  Sound(req[v]) /\ Covered(req'[v], trust')
    BY DEF AnswerInv, Covered
  <1>2. /\ req'[v] = req[v] /\ req[v] \in Requests /\ Sound(req[v]) /\ Covered(req[v], trust)
        /\ trust \in Nat
    BY DEF AnswerInv, Standing
  <1>3. Kept(req[v]) => TrustTTL <= GrantTTL
    BY DEF Kept, GrantOutlastsTrust
  <1> QED BY <1>2, <1>3, TimeoutsAreNat DEF Covered

-----------------------------------------------------------------------------
LEMMA AnswerPrivilege ==
    ASSUME AnswerInv, NEW w \in Worker, Privilege(w)
    PROVE  AnswerInv'
  <1> DEFINE r == req[w]
  <1>1. r \in Requests /\ Sound(r) /\ Calm(r) /\ Covered(r, trust) /\ Standing
    BY DEF AnswerInv, Sound
  <1>2. CASE IsStaffTrustedIp(w)
    <2> DEFINE s == [r EXCEPT !.trusted = site.staffBypass /\ trust > 0]
    <2>1. r.priv = "unasked" /\ (Kept(r) => site.staffBypass /\ trust > 0)
      BY <1>1, <1>2 DEF Sound, Covered, Standing, IsStaffTrustedIp, At
    <2>2. site.staffBypass \in BOOLEAN
      BY <1>1, SiteAssumption DEF Standing
    <2>3. /\ s \in Requests /\ s.welcomed = r.welcomed /\ s.old = r.old
          /\ s.priv = r.priv /\ s.exempted = r.exempted
          /\ s.trusted = (site.staffBypass /\ trust > 0)
      BY <1>1, <2>2 DEF Requests
    <2>4. Calm(s) /\ Undecided(s)
      BY <1>1, <2>1, <2>3 DEF Calm, Undecided, Kept
    <2>5. Goto(w, Identify(s))
      BY <1>2 DEF IsStaffTrustedIp
    <2> HIDE DEF s
    <2>6. Follows(Identify(s), r)
      BY <2>3, <2>4, IdentifyFollows DEF Follows
    <2> QED BY <1>2, <2>5, <2>6, FollowingAlone DEF IsStaffTrustedIp, historyVars
  <1>3. CASE SessionGet(w)
    <2>1. r.cookie \in Key /\ Undecided(r)
      BY <1>1, <1>3 DEF Sound, Asking, SessionGet, At
    <2> DEFINE entry == cached[r.cookie]
               s == [r EXCEPT !.info = entry.info]
               t == [r EXCEPT !.pc = "store"]
    <2>2. entry \in Entries
      BY <1>1, <2>1 DEF Standing
    <2>3. s \in Requests /\ Calm(s) /\ Undecided(s) /\ s.welcomed = r.welcomed /\ s.old = r.old
      BY <1>1, <2>1, <2>2 DEF Requests, Entries, Calm, Kept, Undecided, Logs
    <2>4. Follows(Concluded(s), r)
      BY <2>3, ConcludedFollows DEF Follows
    <2>5. Follows(t, r)
      BY <1>1, <2>1
         DEF Follows, Requests, Labels, Asking, Sound, Calm, Kept, Undecided, Logs
    <2>6. Goto(w, Concluded(s)) \/ Goto(w, t)
      BY <1>3 DEF SessionGet
    <2> QED BY <1>3, <2>4, <2>5, <2>6, FollowingAlone DEF SessionGet, historyVars
  <1>4. CASE SessionStore(w)
    <2>1. r.cookie \in Key /\ Undecided(r)
      BY <1>1, <1>4 DEF Sound, Asking, SessionStore, At
    <2> DEFINE s == [r EXCEPT !.pc = "user"]
               t == [r EXCEPT !.info = "other", !.pc = "fill"]
    <2>2. Follows(s, r)
      BY <1>1, <2>1
         DEF Follows, Requests, Labels, Asking, Sound, Calm, Kept, Undecided, Logs
    <2>3. Follows(t, r)
      BY <1>1, <2>1, Filling DEF Info
    <2>4. Goto(w, s) \/ Goto(w, t)
      BY <1>4 DEF SessionStore
    <2> QED BY <1>4, <2>2, <2>3, <2>4, FollowingAlone DEF SessionStore, historyVars
  <1>5. CASE UserRow(w)
    <2>1. r.cookie \in Key /\ Undecided(r)
      BY <1>1, <1>5 DEF Sound, Asking, UserRow, At
    <2> DEFINE s == [r EXCEPT !.info = IF staff THEN "staff" ELSE "other", !.pc = "fill"]
    <2>2. Follows(s, r)
      BY <1>1, <2>1, Filling DEF Info
    <2>3. Goto(w, s)
      BY <1>5 DEF UserRow
    <2> QED BY <1>5, <2>2, <2>3, FollowingAlone DEF UserRow, historyVars
  <1>6. CASE SessionSet(w)
    <2>1. r.cookie \in Key /\ Undecided(r)
      BY <1>1, <1>6 DEF Sound, Asking, SessionSet, At
    <2>2. Follows(Concluded(r), r)
      BY <1>1, <2>1, ConcludedFollows
    <2>3. cached' \in [Key -> Entries]
      BY <1>1, <1>6, <2>1, TimeoutsAreNat DEF Standing, Entries, Requests, SessionSet
    <2>4. Standing'
      BY <1>1, <1>6, <2>3 DEF Standing, SessionSet, historyVars
    <2> QED BY <1>6, <2>2, <2>4, Following DEF SessionSet, historyVars
  <1>7. CASE RefreshStaffTrust(w)
    <2> DEFINE s == [r EXCEPT !.pc = "mark"]
    <2>1. r.at = Response \/ r.priv = "yes"
      BY <1>1, <1>7 DEF Sound, RefreshStaffTrust, At
    <2>2. Follows(s, r)
      BY <1>1, <2>1 DEF Follows, Requests, Labels, Asking, Sound, Calm, Kept
    <2>3. Follows(Returned(r), r)
      BY <1>1, <2>1, ReturnedFollows
    <2>4. Goto(w, s) \/ Goto(w, Returned(r))
      BY <1>7 DEF RefreshStaffTrust
    <2> QED BY <1>7, <2>2, <2>3, <2>4, FollowingAlone DEF RefreshStaffTrust, historyVars
  <1>8. CASE MarkStaffTrustedIp(w)
    <2>1. r.at = Response \/ r.priv = "yes"
      BY <1>1, <1>8 DEF Sound, MarkStaffTrustedIp, At
    <2>2. Follows(Returned(r), r)
      BY <1>1, <2>1, ReturnedFollows
    <2>3. Standing'
      BY <1>1, <1>8, TimeoutsAreNat DEF Standing, MarkStaffTrustedIp, historyVars
    <2> QED BY <1>8, <2>2, <2>3, Following DEF MarkStaffTrustedIp
  <1> QED BY <1>2, <1>3, <1>4, <1>5, <1>6, <1>7, <1>8 DEF Privilege

LEMMA AnswerLayer ==
    ASSUME AnswerInv, NEW w \in Worker, Layer(w)
    PROVE  AnswerInv'
  <1> DEFINE r == req[w]
  <1>1. r \in Requests /\ Sound(r) /\ Calm(r) /\ Standing
    BY DEF AnswerInv, Sound
  <1>2. CASE IpBan(w)
    <2> DEFINE s == [r EXCEPT !.kind = ban]
    <2>1. s \in Requests /\ Calm(s) /\ s.welcomed = r.welcomed /\ s.old = r.old
      BY <1>1 DEF Requests, Calm, Kept, Standing
    <2>2. Follows(Forward(s), r) /\ Follows(Ask(s), r)
      BY <2>1, ForwardFollows, AskFollows DEF Follows
    <2>3. Goto(w, Forward(s)) \/ Goto(w, Ask(s))
      BY <1>2 DEF IpBan
    <2> QED BY <1>2, <2>2, <2>3, FollowingAlone DEF IpBan, Unchanged, historyVars
  <1>3. CASE JsonValidation(w)
    <2> DEFINE s == [r EXCEPT !.pc = "blocked"]
    <2>1. Stack[r.at] = "json"
      BY <1>3 DEF JsonValidation, InLayer
    <2>2. Follows(s, r)
      BY <1>1, <2>1 DEF Follows, Requests, Labels, Asking, Sound, Calm, Kept
    <2>3. Goto(w, Forward(r)) \/ Goto(w, s)
      BY <1>3 DEF JsonValidation
    <2> QED
      BY <1>1, <1>3, <2>2, <2>3, ForwardFollows, FollowingAlone
         DEF JsonValidation, Unchanged, historyVars
  <1>4. CASE Honeypot(w) \/ Waf(w) \/ BotDetector(w) \/ RateLimit(w)
    <2>1. Goto(w, Ask(r)) /\ Unchanged
      BY <1>4 DEF Honeypot, Waf, BotDetector, RateLimit
    <2> QED BY <1>1, <2>1, AskFollows, FollowingAlone DEF Unchanged, historyVars
  <1> QED BY <1>2, <1>3, <1>4 DEF Layer

LEMMA AnswerView ==
    ASSUME AnswerInv, NEW w \in Worker, View(w)
    PROVE  AnswerInv'
  <1> DEFINE r == req[w]
  <1>1. r \in Requests /\ Sound(r) /\ Calm(r) /\ Covered(r, trust) /\ Standing
    BY DEF AnswerInv, Sound
  <1>2. CASE Page(w) \/ LoginOther(w)
    <2>1. PICK user : Goto(w, Responds(r, user))
      BY <1>2 DEF Page, LoginOther
    <2> QED
      BY <1>1, <1>2, <2>1, RespondsFollows, FollowingAlone
         DEF Page, LoginOther, Unchanged, historyVars
  <1>3. CASE Login(w)
    <2>1. CASE ~site.staffBypass
      <3>1. Goto(w, Responds(r, "staff"))
        BY <1>3, <2>1 DEF Login
      <3> QED BY <1>1, <1>3, <3>1, RespondsFollows, FollowingAlone DEF Login, historyVars
    <2>2. CASE site.staffBypass
      <3> DEFINE s == [r EXCEPT !.pc = "signMark"]
      <3>1. Goto(w, s) /\ UNCHANGED <<site, cached, trust, ban, welcome>>
        BY <1>3, <2>2 DEF Login, historyVars
      <3>2. s \in Requests /\ Sound(s)
        BY <1>1 DEF Requests, Labels, Asking, Sound, Calm, Kept
      <3>3. s.welcomed = r.welcomed /\ s.old = r.old
        BY <1>1 DEF Requests
      <3>4. Covered(s, trust')
        BY <1>1, <2>2, <3>1, <3>3 DEF Covered, Kept
      <3>5. Standing'
        BY <1>1, <3>1 DEF Standing
      <3> QED BY <3>1, <3>2, <3>4, <3>5, Moving
    <2> QED BY <2>1, <2>2
  <1>4. CASE SignInMark(w)
    <2> DEFINE s == [r EXCEPT !.pc = "signLift"]
    <2>1. Follows(s, r)
      BY <1>1 DEF Follows, Requests, Labels, Asking, Sound, Calm, Kept
    <2>2. Standing'
      BY <1>1, <1>4, TimeoutsAreNat DEF Standing, Covered, SignInMark, At
    <2>3. Goto(w, s)
      BY <1>4 DEF SignInMark
    <2> QED BY <1>4, <2>1, <2>2, <2>3, Following DEF SignInMark
  <1>5. CASE SignInLift(w)
    <2> DEFINE s == [r EXCEPT !.priv = "yes"]
    <2>1. s \in Requests /\ s.welcomed = r.welcomed /\ s.old = r.old
      BY <1>1 DEF Requests
    <2>2. Follows(Responds(s, "staff"), r)
      BY <2>1, RespondsFollows DEF Follows
    <2>3. Standing'
      BY <1>1, <1>5 DEF Standing, SignInLift, historyVars
    <2> QED BY <1>5, <2>2, <2>3, Following DEF SignInLift
  <1>6. CASE ReportView(w)
    <2> DEFINE s == [r EXCEPT !.pc = "csp"]
    <2>1. Follows(s, r)
      BY <1>1 DEF Follows, Requests, Labels, Asking, Sound, Calm, Kept
    <2>2. Goto(w, s)
      BY <1>6 DEF ReportView
    <2> QED BY <1>6, <2>1, <2>2, FollowingAlone DEF ReportView, NotCsp, historyVars
  <1>7. CASE ReportServe(w)
    <2>1. CASE task'[w] = NoTask
      <3>1. Goto(w, Responds(r, "unknown"))
        BY <1>7, <2>1 DEF ReportServe
      <3> QED
        BY <1>1, <1>7, <3>1, RespondsFollows, FollowingAlone
           DEF ReportServe, NotCsp, historyVars
    <2>2. CASE task'[w] # NoTask
      <3>1. Goto(w, r) /\ UNCHANGED <<site, cached, trust, ban, welcome>>
        BY <1>7, <2>2 DEF ReportServe, NotCsp, historyVars
      <3>2. r.pc = "csp"
        BY <1>7 DEF ReportServe, At
      <3> QED BY <1>1, <3>1, <3>2, FollowingAlone DEF Follows
    <2> QED BY <2>1, <2>2
  <1> QED BY <1>2, <1>3, <1>4, <1>5, <1>6, <1>7 DEF View

(* A request that arrives. *)
LEMMA Arriving ==
    ASSUME Standing, NEW r \in site.requests
    PROVE  [NoRequest EXCEPT
               !.view = r.view, !.cookie = r.cookie, !.hits = r.hits,
               !.exempt = r.exempt, !.welcomed = welcome > 1] \in Requests
  <1> DEFINE plain == [NoRequest EXCEPT
                 !.view = r.view, !.cookie = r.cookie, !.hits = r.hits, !.exempt = r.exempt]
             s == [NoRequest EXCEPT
                 !.view = r.view, !.cookie = r.cookie, !.hits = r.hits,
                 !.exempt = r.exempt, !.welcomed = welcome > 1]
  <1>1. r \in [view : {"page", "login", "csp"}, cookie : Key \cup {NoKey},
               hits : SUBSET {"honeypot", "json", "waf", "bot", "harmless", "rate_limit"},
               exempt : BOOLEAN]
    BY SiteAssumption DEF Standing
  <1>2. plain \in Requests
    BY <1>1, NoRequestIsOne DEF Requests
  <1>3. s = [plain EXCEPT !.welcomed = welcome > 1]
    BY DEF NoRequest
  <1> HIDE DEF plain, s
  <1>4. CASE welcome > 1
    <2>1. s = [plain EXCEPT !.welcomed = TRUE]
      BY <1>3, <1>4, (welcome > 1) = TRUE, Zenon
    <2> QED BY <1>2, <2>1 DEF Requests, s
  <1>5. CASE ~(welcome > 1)
    <2>1. s = [plain EXCEPT !.welcomed = FALSE]
      BY <1>3, <1>5, (welcome > 1) = FALSE, Zenon
    <2> QED BY <1>2, <2>1 DEF Requests, s
  <1> QED BY <1>4, <1>5

LEMMA AnswerArrive ==
    ASSUME AnswerInv, NEW w \in Worker, Arrive(w)
    PROVE  AnswerInv'
  <1>1. PICK r \in site.requests :
            Goto(w, Forward([NoRequest EXCEPT
                     !.view = r.view, !.cookie = r.cookie, !.hits = r.hits,
                     !.exempt = r.exempt, !.welcomed = welcome > 1]))
    BY DEF Arrive
  <1> DEFINE s == [NoRequest EXCEPT
                     !.view = r.view, !.cookie = r.cookie, !.hits = r.hits,
                     !.exempt = r.exempt, !.welcomed = welcome > 1]
  <1>2. Standing /\ welcome \in Nat /\ trust \in Nat
    BY DEF AnswerInv, Standing
  <1>4. /\ s \in Requests /\ Calm(s) /\ s.old = FALSE
        /\ s.welcomed => welcome > 1
    <2>1. s \in Requests
      BY <1>2, Arriving
    <2>2. s.exempted = FALSE /\ s.priv = "unasked" /\ s.old = FALSE
      BY DEF NoRequest
    <2>3. s.welcomed = (welcome > 1)
      BY DEF NoRequest
    <2> QED BY <2>1, <2>2, <2>3 DEF Calm, Kept
  <1>5. UNCHANGED <<site, cached, trust, ban, welcome>> /\ Goto(w, Forward(s))
    BY <1>1 DEF Arrive, Unchanged, historyVars
  <1> HIDE DEF s
  <1>6. Follows(Forward(s), s)
    BY <1>4, ForwardFollows
  <1>7. Covered(Forward(s), trust')
    <2>1. SUFFICES ASSUME Kept(Forward(s))
                   PROVE  /\ site.staffBypass /\ TrustTTL >= 2 /\ trust >= 2
                          /\ ~Forward(s).old
      BY <1>5, <1>6 DEF Covered, Follows
    <2>2. GrantOutlastsTrust /\ welcome > 1 /\ ~Forward(s).old
      BY <1>4, <1>6, <2>1 DEF Kept, Follows
    <2> QED BY <1>2, <2>2, TimeoutsAreNat DEF Standing
  <1>8. Standing'
    BY <1>2, <1>5 DEF Standing
  <1> QED BY <1>5, <1>6, <1>7, <1>8, Moving DEF Follows

(* A tick takes one from the trust, and from a request its last chance to   *)
(* see another.                                                             *)
LEMMA AnswerTick ==
    ASSUME AnswerInv, Tick
    PROVE  AnswerInv'
  <1>1. Standing /\ trust \in Nat /\ welcome \in Nat
    BY DEF AnswerInv, Standing
  <1>2. cached' \in [Key -> Entries]
    <2>1. \A key \in Key : AgedEntry(cached[key]) \in Entries
      BY <1>1 DEF Standing, AgedEntry, Entries, NoEntry, Info
    <2> QED BY <2>1 DEF Tick
  <1>3. /\ trust' = IF trust > 0 THEN trust - 1 ELSE 0
        /\ welcome' = IF welcome > 0 THEN welcome - 1 ELSE 0
        /\ site' = site /\ ban' = ban /\ site.staffBypass
    BY DEF Tick, Lower
  <1>4. Standing'
    BY <1>1, <1>2, <1>3, TimeoutsAreNat DEF Standing
  <1>5. SUFFICES ASSUME NEW w \in Worker
                 PROVE  req'[w] \in Requests /\ Sound(req'[w]) /\ Covered(req'[w], trust')
    <2>1. DOMAIN req' = Worker /\ req' = [w \in Worker |-> req'[w]]
      BY DEF Tick
    <2> QED
      BY <1>3, <1>4, <1>5, <2>1 DEF AnswerInv, Sound, Calm, Kept, Undecided, Logs, Covered
  <1> DEFINE r == req[w]
             s == [r EXCEPT !.old = r.pc # "idle"]
  <1>6. r \in Requests /\ Sound(r) /\ Covered(r, trust) /\ ~r.old /\ req'[w] = s
    BY DEF AnswerInv, Tick, At
  <1>7. s \in Requests /\ s.welcomed = r.welcomed /\ s.old = (r.pc # "idle") /\ s.pc = r.pc
    BY <1>6 DEF Requests
  <1>8. Sound(s)
    BY <1>6 DEF Requests, Sound, Calm, Kept, Undecided, Logs
  <1>9. r.welcomed => r.pc # "idle"
    BY <1>6 DEF Sound
  <1> HIDE DEF s
  <1>10. Covered(s, trust')
    <2>1. s.pc = "signMark" => site'.staffBypass
      BY <1>3, <1>6, <1>7 DEF Covered
    <2>2. ASSUME Kept(s)
          PROVE  TrustTTL >= 2 /\ s.old /\ trust >= 2
      BY <1>6, <1>7, <1>9, <2>2 DEF Covered, Kept
    <2>3. Kept(s) => trust' >= 1
      BY <1>1, <1>3, <2>2
    <2> QED BY <1>3, <2>1, <2>2, <2>3 DEF Covered
  <1> QED BY <1>6, <1>7, <1>8, <1>10 DEF Covered

LEMMA AnswerStep ==
    ASSUME AnswerInv, [Next]_vars
    PROVE  AnswerInv'
  <1>0. Standing
    BY DEF AnswerInv
  <1>1. ASSUME NEW w \in Worker, Finish(w) \/ Die(w)
        PROVE  AnswerInv'
    <2>1. Follows(NoRequest, req[w])
      BY NoRequestIsOne DEF Follows, NoRequest
    <2> QED BY <1>1, <2>1, FollowingAlone DEF Finish, Die, Unchanged, historyVars
  <1>2. ASSUME NEW w \in Worker, Arrive(w) \/ Continue(w) \/ Die(w)
        PROVE  AnswerInv'
    BY <1>1, <1>2, AnswerArrive, AnswerPrivilege, AnswerLayer, AnswerView DEF Continue
  <1>3. CASE ChangeStaff \/ Logout \/ CspTime \/ UNCHANGED vars
    <2>1. UNCHANGED <<site, cached, trust, ban, welcome, req>>
      BY <1>3 DEF ChangeStaff, Logout, CspTime, NotCsp, vars, historyVars
    <2>2. Standing'
      BY <1>0, <2>1 DEF Standing
    <2> QED BY <2>1, <2>2, Others
  <1>4. CASE UnbanAndTrust
    <2>1. Standing'
      BY <1>0, <1>4, TimeoutsAreNat DEF Standing, UnbanAndTrust, GrantOutlastsTrust
    <2> QED BY <1>4, <2>1, Others DEF UnbanAndTrust
  <1>5. CASE SetBan
    <2>1. ban' \in {"none", "temp", "perm"}
      BY <1>0, <1>5, SiteAssumption DEF Standing, SetBan
    <2>2. Standing'
      BY <1>0, <1>5, <2>1 DEF Standing, SetBan, historyVars
    <2> QED BY <1>5, <2>2, Others DEF SetBan
  <1>6. CASE Evict
    <2>1. cached' \in [Key -> Entries]
      BY <1>0, <1>6 DEF Standing, Evict, NoEntry, Entries, Info
    <2>2. Standing'
      BY <1>0, <1>6, <2>1 DEF Standing, Evict, historyVars
    <2> QED BY <1>6, <2>2, Others DEF Evict
  <1> QED BY <1>2, <1>3, <1>4, <1>5, <1>6, AnswerTick DEF Next, Outside

THEOREM AnswerInvariant == Spec => []AnswerInv
  <1>1. Init => AnswerInv
    <2>1. SUFFICES ASSUME Init
                   PROVE  AnswerInv
      OBVIOUS
    <2>2. Standing
      BY <2>1, TimeoutsAreNat DEF Init, Standing, NoEntry, Entries, Info, GrantOutlastsTrust
    <2>3. req = [w \in Worker |-> NoRequest]
      BY <2>1 DEF Init
    <2>4. Covered(NoRequest, trust)
      BY DEF Covered, Kept, NoRequest
    <2> QED BY <2>2, <2>3, <2>4, NoRequestIsOne DEF AnswerInv
  <1>2. AnswerInv /\ [Next]_vars => AnswerInv'
    BY AnswerStep
  <1> QED BY <1>1, <1>2, PTL DEF Spec

(* "The answer is memoised on the request" (is_privileged), for every       *)
(* deployment and any number of requests: whom one layer lets through as    *)
(* privileged no later layer turns away, JSON validation excepted.          *)
THEOREM AnswersAreKept == Spec => []OneAnswer
  <1>1. AnswerInv => OneAnswer
    BY DEF AnswerInv, Sound, Calm, OneAnswer, At
  <1> QED BY <1>1, AnswerInvariant, PTL

(* The recovery path of on_user_logged_in, unless BOUNCER_STAFF_TRUST_DAYS  *)
(* is longer than an operator's grant: every request that arrives in the    *)
(* window of a staff sign-in and before its last moment gets through all    *)
(* layers that know privilege, whatever bans are written after the sign-in. *)
THEOREM SignInOpens == GrantOutlastsTrust => (Spec => []SignInRecovers)
  <1>1. SUFFICES ASSUME GrantOutlastsTrust
                 PROVE  Spec => []SignInRecovers
    OBVIOUS
  <1>2. AnswerInv => SignInRecovers
    BY <1>1 DEF AnswerInv, Sound, Kept, SignInRecovers, At
  <1> QED BY <1>2, AnswerInvariant, PTL

-----------------------------------------------------------------------------
(* Trust has evidence.  The invariant follows the evidence along its way:   *)
(* from the user's row to the request that reads it, to the cached entry, to*)
(* the request that reads that, to the mark on the address.                 *)

(* Believed to be staff, and on the way to mark the address. *)
Staffish(r) == r.info = "staff" \/ r.pc \in {"refresh", "mark", "signMark", "signLift"}
(* Privileged, or about to be. *)
Favoured(r) == r.trusted \/ r.priv = "yes"

(* e and g are the evidence and the grant that are left. *)
Backed(r, e, g) ==
    /\ Staffish(r) => IF r.old THEN e >= TrustTTL ELSE e >= TrustTTL + 1
    /\ r.pc = "fill" /\ r.info = "staff" =>
           IF r.old THEN e >= TrustTTL + SessionTTL ELSE e >= TrustTTL + SessionTTL + 1
    /\ Favoured(r) /\ ~r.old => e > 0 \/ g > 0
    /\ r.pc = "idle" => r.info = "unread" /\ ~Favoured(r)

(* s claims nothing that r did not. *)
Inherits(s, r) ==
    /\ s.pc \notin {"fill", "csp"}
    /\ Staffish(s) => Staffish(r) /\ s.old = r.old
    /\ Favoured(s) => (Favoured(r) \/ Staffish(r)) /\ s.old = r.old
    /\ s.pc = "idle" => s.info = "unread" /\ ~Favoured(s)

LEMMA NoRequestInherits == \A r : Inherits(NoRequest, r)
  BY DEF NoRequest, Inherits, Staffish, Favoured

LEMMA PlacedInherits ==
    ASSUME NEW r \in Requests,
           NEW pc \in {"layer", "view", "trust", "session", "store", "user", "blocked"}
    PROVE  Inherits([r EXCEPT !.pc = pc], r)
  BY DEF Inherits, Staffish, Favoured, Requests

LEMMA ForwardInherits ==
    ASSUME NEW r \in Requests
    PROVE  Inherits(Forward(r), r)
  <1> DEFINE ahead == {i \in r.at + 1 .. Len(Stack) : Acts(r, Stack[i])}
             next == [r EXCEPT !.kind = "none"]
  <1>1. \/ Forward(r) = [next EXCEPT !.pc = "view", !.at = Len(Stack) + 1]
        \/ Forward(r) = [next EXCEPT !.pc = "layer", !.at = Min(ahead)]
    BY DEF Forward
  <1>2. /\ Forward(r).pc \in {"layer", "view"} /\ Forward(r).info = r.info /\ Forward(r).priv = r.priv
        /\ Forward(r).trusted = r.trusted /\ Forward(r).old = r.old
    BY <1>1 DEF Requests
  <1> QED BY <1>2 DEF Inherits, Staffish, Favoured

LEMMA VerdictInherits ==
    ASSUME NEW r \in Requests
    PROVE  Inherits(Verdict(r), r)
  <1> DEFINE judged == [r EXCEPT !.exempted = r.exempted \/ r.priv = "yes"]
  <1>1. /\ judged \in Requests /\ judged.pc = r.pc /\ judged.info = r.info
        /\ judged.priv = r.priv /\ judged.trusted = r.trusted /\ judged.old = r.old
    BY DEF Requests
  <1>2. Verdict(r) = Forward(judged) \/ Verdict(r) = [judged EXCEPT !.pc = "blocked"]
    BY DEF Verdict
  <1> HIDE DEF judged
  <1>3. Inherits(Verdict(r), judged)
    BY <1>1, <1>2, ForwardInherits, PlacedInherits
  <1> QED BY <1>1, <1>3 DEF Inherits, Staffish, Favoured

LEMMA ReturnedInherits ==
    ASSUME NEW r \in Requests
    PROVE  Inherits(Returned(r), r)
  BY VerdictInherits, NoRequestInherits DEF Returned

LEMMA ConcludedInherits ==
    ASSUME NEW r \in Requests
    PROVE  Inherits(Concluded(r), r)
  <1> DEFINE yes == r.trusted \/ r.info = "staff"
             answered == [r EXCEPT !.priv = IF yes THEN "yes" ELSE "no", !.trusted = FALSE]
  <1>1. CASE Logs(r)
    BY <1>1, ForwardInherits DEF Concluded
  <1>2. CASE ~Logs(r)
    <2>1. /\ answered \in Requests /\ answered.pc = r.pc /\ answered.info = r.info
          /\ answered.old = r.old /\ answered.trusted = FALSE
          /\ answered.priv = "yes" => r.trusted \/ r.info = "staff"
      BY DEF Requests
    <2>2. CASE r.info = "staff"
      <3>1. Concluded(r) = [answered EXCEPT !.pc = "refresh"]
        BY <1>2, <2>2 DEF Concluded
      <3> HIDE DEF answered
      <3>2. /\ Concluded(r).pc = "refresh" /\ Concluded(r).old = r.old
        BY <2>1, <3>1 DEF Requests
      <3> QED BY <2>2, <3>2 DEF Inherits, Staffish
    <2>3. CASE r.info # "staff"
      <3>1. Concluded(r) = Returned(answered)
        BY <1>2, <2>3 DEF Concluded
      <3> HIDE DEF answered
      <3>2. Inherits(Returned(answered), answered)
        BY <2>1, ReturnedInherits
      <3> QED BY <2>1, <3>1, <3>2 DEF Inherits, Staffish, Favoured
    <2> QED BY <2>2, <2>3
  <1> QED BY <1>1, <1>2

LEMMA IdentifyInherits ==
    ASSUME NEW r \in Requests
    PROVE  Inherits(Identify(r), r)
  <1> DEFINE s == [r EXCEPT !.info = "other"]
  <1>1. /\ s \in Requests /\ s.pc = r.pc /\ s.info = "other" /\ s.priv = r.priv
        /\ s.trusted = r.trusted /\ s.old = r.old
    BY DEF Requests, Info
  <1>2. \/ Identify(r) = Concluded(r) \/ Identify(r) = Concluded(s)
        \/ Identify(r) = [r EXCEPT !.pc = "session"]
    BY DEF Identify
  <1> HIDE DEF s
  <1>3. CASE Identify(r) = Concluded(s)
    <2>1. Inherits(Concluded(s), s)
      BY <1>1, ConcludedInherits
    <2> QED BY <1>1, <1>3, <2>1 DEF Inherits, Staffish, Favoured
  <1> QED BY <1>2, <1>3, ConcludedInherits, PlacedInherits

LEMMA AskInherits ==
    ASSUME NEW r \in Requests
    PROVE  Inherits(Ask(r), r)
  BY IdentifyInherits, VerdictInherits, PlacedInherits DEF Ask

LEMMA RespondsInherits ==
    ASSUME NEW r \in Requests, NEW user, user # "staff"
    PROVE  Inherits(Responds(r, user), r)
  BY NoRequestInherits DEF Responds

(* Whoever inherits from a request with backing has it too.                 *)
LEMMA InheritsBacking ==
    ASSUME NEW r, NEW s, NEW e \in Nat, NEW g \in Nat, Backed(r, e, g), Inherits(s, r)
    PROVE  Backed(s, e, g)
  BY TimeoutsAreNat DEF Backed, Inherits

(* A member of staff answered: the response phase may mark the address.     *)
LEMMA RespondsBacked ==
    ASSUME NEW r \in Requests, NEW user, NEW e \in Nat, NEW g \in Nat, e >= TrustTTL + 1
    PROVE  Backed(Responds(r, user), e, g)
  <1>1. CASE Responds(r, user) = NoRequest
    BY <1>1 DEF NoRequest, Backed, Staffish, Favoured
  <1>2. CASE Responds(r, user) =
                 [NoRequest EXCEPT !.pc = "refresh", !.at = Response, !.old = r.old]
    <2>1. /\ Responds(r, user).pc = "refresh" /\ Responds(r, user).info = "unread"
          /\ Responds(r, user).trusted = FALSE /\ Responds(r, user).priv = "unasked"
      BY <1>2 DEF NoRequest
    <2> QED BY <2>1, TimeoutsAreNat DEF Backed, Staffish, Favoured
  <1> QED BY <1>1, <1>2 DEF Responds

-----------------------------------------------------------------------------
EvidenceStands ==
    /\ evidence \in 0 .. Longest /\ granted \in Nat
    /\ staff => evidence = Longest
    /\ trust <= evidence \/ trust <= granted
    /\ \A key \in Key :
           cached[key].info = "staff" => evidence >= cached[key].left + TrustTTL

EvidenceInv ==
    EvidenceStands /\ \A w \in Worker : Backed(req[w], evidence, granted)

LEMMA LongestIsNat == Longest = 1 + SessionTTL + TrustTTL /\ Longest \in Nat
  BY TimeoutsAreNat DEF Longest

(* One worker moves to a request with backing. *)
LEMMA MovingBacked ==
    ASSUME AnswerInv, EvidenceInv, NEW w \in Worker, NEW s, Goto(w, s),
           Backed(s, evidence, granted), EvidenceStands', UNCHANGED <<evidence, granted>>
    PROVE  EvidenceInv'
  <1>1. \A v \in Worker : req'[v] = IF v = w THEN s ELSE req[v]
    BY DEF AnswerInv, Goto
  <1>2. SUFFICES ASSUME NEW v \in Worker
                 PROVE  Backed(req'[v], evidence', granted')
    BY DEF EvidenceInv, Backed, Staffish, Favoured
  <1> QED BY <1>1 DEF EvidenceInv

LEMMA MovingBackedAlone ==
    ASSUME AnswerInv, EvidenceInv, NEW w \in Worker, NEW s, Goto(w, s),
           Backed(s, evidence, granted),
           UNCHANGED <<staff, cached, trust, evidence, granted>>
    PROVE  EvidenceInv'
  <1>1. EvidenceStands'
    BY DEF EvidenceInv, EvidenceStands
  <1> QED BY <1>1, MovingBacked

LEMMA Inheriting ==
    ASSUME AnswerInv, EvidenceInv, NEW w \in Worker, NEW s, Goto(w, s),
           Inherits(s, req[w]), UNCHANGED <<staff, cached, trust, evidence, granted>>
    PROVE  EvidenceInv'
  <1>1. Backed(s, evidence, granted)
    BY LongestIsNat, InheritsBacking DEF EvidenceInv, EvidenceStands
  <1> QED BY <1>1, MovingBackedAlone

-----------------------------------------------------------------------------
LEMMA EvidencePrivilege ==
    ASSUME AnswerInv, EvidenceInv, NEW w \in Worker, Privilege(w)
    PROVE  EvidenceInv'
  <1> DEFINE r == req[w]
  <1>1. /\ r \in Requests /\ Sound(r) /\ Standing /\ EvidenceStands
        /\ Backed(r, evidence, granted) /\ evidence \in Nat /\ granted \in Nat
        /\ trust \in Nat /\ cached \in [Key -> Entries]
    BY LongestIsNat DEF AnswerInv, Standing, EvidenceInv, EvidenceStands
  <1>2. CASE IsStaffTrustedIp(w)
    <2> DEFINE s == [r EXCEPT !.trusted = site.staffBypass /\ trust > 0]
    <2>1. site.staffBypass \in BOOLEAN
      BY <1>1, SiteAssumption DEF Standing
    <2>2. /\ s \in Requests /\ s.pc = r.pc /\ s.info = r.info /\ s.priv = r.priv
          /\ s.old = r.old /\ (s.trusted => trust > 0)
      BY <1>1, <2>1 DEF Requests
    <2>3. Goto(w, Identify(s)) /\ r.pc = "trust"
      BY <1>2 DEF IsStaffTrustedIp, At
    <2> HIDE DEF s
    <2>4. trust > 0 => evidence > 0 \/ granted > 0
      BY <1>1, LongestIsNat DEF EvidenceStands
    <2>5. Staffish(s) => Staffish(r) /\ s.old = r.old
      BY <2>2 DEF Staffish
    <2>6. Favoured(s) => Favoured(r) \/ evidence > 0 \/ granted > 0
      BY <2>2, <2>4 DEF Favoured
    <2>7. Backed(s, evidence, granted)
      BY <1>1, <2>2, <2>3, <2>5, <2>6 DEF Backed
    <2>8. Backed(Identify(s), evidence, granted)
      BY <1>1, <2>2, <2>7, IdentifyInherits, InheritsBacking
    <2> QED BY <1>2, <2>3, <2>8, MovingBackedAlone DEF IsStaffTrustedIp, historyVars
  <1>3. CASE SessionGet(w)
    <2>1. r.cookie \in Key /\ r.pc = "session"
      BY <1>1, <1>3 DEF Sound, Asking, SessionGet, At
    <2> DEFINE entry == cached[r.cookie]
               s == [r EXCEPT !.info = entry.info]
    <2>2. CASE entry.left > 0 /\ Goto(w, Concluded(s))
      <3>1. entry \in Entries
        BY <1>1, <2>1
      <3>2. /\ s \in Requests /\ s.pc = r.pc /\ s.info = entry.info /\ s.priv = r.priv
            /\ s.old = r.old /\ s.trusted = r.trusted
        BY <1>1, <3>1 DEF Requests, Entries
      <3>3. entry.info = "staff" => evidence >= TrustTTL + 1
        <4>1. entry.info = "staff" => evidence >= entry.left + TrustTTL
          BY <1>1, <2>1 DEF EvidenceStands
        <4> QED BY <1>1, <2>2, <3>1, <4>1, TimeoutsAreNat DEF Entries
      <3> HIDE DEF s, entry
      <3>4. Backed(s, evidence, granted)
        BY <1>1, <2>1, <3>2, <3>3, TimeoutsAreNat DEF Backed, Staffish, Favoured
      <3>5. Backed(Concluded(s), evidence, granted)
        BY <1>1, <3>2, <3>4, ConcludedInherits, InheritsBacking
      <3> QED BY <1>3, <2>2, <3>5, MovingBackedAlone DEF SessionGet, historyVars
    <2>3. CASE Goto(w, [r EXCEPT !.pc = "store"])
      BY <1>1, <1>3, <2>3, PlacedInherits, Inheriting DEF SessionGet, historyVars
    <2> QED BY <1>3, <2>2, <2>3 DEF SessionGet
  <1>4. CASE SessionStore(w)
    <2> DEFINE t == [r EXCEPT !.info = "other", !.pc = "fill"]
    <2>1. /\ t.pc = "fill" /\ t.info = "other" /\ t.priv = r.priv
          /\ t.old = r.old /\ t.trusted = r.trusted
      BY <1>1 DEF Requests
    <2>2. Backed(t, evidence, granted)
      BY <1>1, <2>1 DEF Backed, Staffish, Favoured
    <2>3. Goto(w, [r EXCEPT !.pc = "user"]) \/ Goto(w, t)
      BY <1>4 DEF SessionStore
    <2> QED
      BY <1>1, <1>4, <2>2, <2>3, PlacedInherits, Inheriting, MovingBackedAlone
         DEF SessionStore, historyVars
  <1>5. CASE UserRow(w)
    <2> DEFINE t == [r EXCEPT !.info = IF staff THEN "staff" ELSE "other", !.pc = "fill"]
    <2>1. /\ t.pc = "fill" /\ (t.info = "staff" => staff)
          /\ t.priv = r.priv /\ t.old = r.old /\ t.trusted = r.trusted
      BY <1>1 DEF Requests
    <2>2. t.info = "staff" => evidence = 1 + SessionTTL + TrustTTL
      BY <1>1, <2>1, LongestIsNat DEF EvidenceStands
    <2>3. Goto(w, t)
      BY <1>5 DEF UserRow
    <2> HIDE DEF t
    <2>4. Favoured(t) = Favoured(r) /\ (Staffish(t) => t.info = "staff")
      BY <2>1 DEF Staffish, Favoured
    <2>5. t.info = "staff" => evidence >= TrustTTL + SessionTTL + 1 /\ evidence > 0
      BY <1>1, <2>2, TimeoutsAreNat
    <2>6. Backed(t, evidence, granted)
      BY <1>1, <2>1, <2>4, <2>5, TimeoutsAreNat DEF Backed
    <2> QED BY <1>5, <2>3, <2>6, MovingBackedAlone DEF UserRow, historyVars
  <1>6. CASE SessionSet(w)
    <2>1. r.cookie \in Key /\ r.pc = "fill"
      BY <1>1, <1>6 DEF Sound, Asking, SessionSet, At
    <2>2. r.info = "staff" => evidence >= SessionTTL + TrustTTL
      BY <1>1, <2>1, TimeoutsAreNat DEF Backed
    <2>3. \A key \in Key :
              cached'[key].info = "staff" => evidence >= cached'[key].left + TrustTTL
      BY <1>1, <1>6, <2>2 DEF EvidenceStands, SessionSet
    <2>4. EvidenceStands'
      BY <1>1, <1>6, <2>3 DEF EvidenceStands, SessionSet, historyVars
    <2>5. Backed(Concluded(r), evidence, granted)
      BY <1>1, ConcludedInherits, InheritsBacking
    <2> QED BY <1>6, <2>4, <2>5, MovingBacked DEF SessionSet, historyVars
  <1>7. CASE RefreshStaffTrust(w)
    <2> DEFINE t == [r EXCEPT !.pc = "mark"]
    <2>1. r.pc = "refresh"
      BY <1>7 DEF RefreshStaffTrust, At
    <2>2. Inherits(t, r)
      BY <1>1, <2>1 DEF Inherits, Staffish, Favoured, Requests
    <2>3. Goto(w, Returned(r)) \/ Goto(w, t)
      BY <1>7 DEF RefreshStaffTrust
    <2> QED
      BY <1>1, <1>7, <2>2, <2>3, ReturnedInherits, Inheriting
         DEF RefreshStaffTrust, historyVars
  <1>8. CASE MarkStaffTrustedIp(w)
    <2>1. evidence >= TrustTTL
      BY <1>1, <1>8, TimeoutsAreNat DEF Backed, Staffish, MarkStaffTrustedIp, At
    <2>2. EvidenceStands'
      BY <1>1, <1>8, <2>1 DEF EvidenceStands, MarkStaffTrustedIp, historyVars
    <2>3. Backed(Returned(r), evidence, granted)
      BY <1>1, ReturnedInherits, InheritsBacking
    <2> QED BY <1>8, <2>2, <2>3, MovingBacked DEF MarkStaffTrustedIp, historyVars
  <1> QED BY <1>2, <1>3, <1>4, <1>5, <1>6, <1>7, <1>8 DEF Privilege

LEMMA EvidenceLayer ==
    ASSUME AnswerInv, EvidenceInv, NEW w \in Worker, Layer(w)
    PROVE  EvidenceInv'
  <1> DEFINE r == req[w]
  <1>1. r \in Requests /\ ban \in {"none", "temp", "perm"}
    BY DEF AnswerInv, Standing
  <1>2. CASE IpBan(w)
    <2> DEFINE s == [r EXCEPT !.kind = ban]
    <2>1. /\ s \in Requests /\ s.pc = r.pc /\ s.info = r.info /\ s.priv = r.priv
          /\ s.old = r.old /\ s.trusted = r.trusted
      BY <1>1 DEF Requests
    <2>2. Goto(w, Forward(s)) \/ Goto(w, Ask(s))
      BY <1>2 DEF IpBan
    <2> HIDE DEF s
    <2>3. Inherits(Forward(s), s) /\ Inherits(Ask(s), s)
      BY <2>1, ForwardInherits, AskInherits
    <2>4. Inherits(Forward(s), r) /\ Inherits(Ask(s), r)
      BY <2>1, <2>3 DEF Inherits, Staffish, Favoured
    <2> QED BY <1>2, <2>2, <2>4, Inheriting DEF IpBan, Unchanged, historyVars
  <1>3. CASE JsonValidation(w)
    <2>1. Goto(w, Forward(r)) \/ Goto(w, [r EXCEPT !.pc = "blocked"])
      BY <1>3 DEF JsonValidation
    <2> QED
      BY <1>1, <1>3, <2>1, ForwardInherits, PlacedInherits, Inheriting
         DEF JsonValidation, Unchanged, historyVars
  <1>4. CASE Honeypot(w) \/ Waf(w) \/ BotDetector(w) \/ RateLimit(w)
    <2>1. Goto(w, Ask(r)) /\ Unchanged
      BY <1>4 DEF Honeypot, Waf, BotDetector, RateLimit
    <2> QED BY <1>1, <2>1, AskInherits, Inheriting DEF Unchanged, historyVars
  <1> QED BY <1>2, <1>3, <1>4 DEF Layer

LEMMA EvidenceView ==
    ASSUME AnswerInv, EvidenceInv, NEW w \in Worker, View(w)
    PROVE  EvidenceInv'
  <1> DEFINE r == req[w]
  <1>1. /\ r \in Requests /\ EvidenceStands /\ Backed(r, evidence, granted)
        /\ evidence \in Nat /\ granted \in Nat
        /\ staff => evidence >= TrustTTL + 1
    BY LongestIsNat, TimeoutsAreNat DEF AnswerInv, EvidenceInv, EvidenceStands
  <1>2. CASE Page(w)
    <2>1. PICK user : user \in {"unknown", SessionUser(r)} /\ Goto(w, Responds(r, user))
      BY <1>2 DEF Page
    <2>2. CASE user # "staff"
      BY <1>1, <1>2, <2>1, <2>2, RespondsInherits, Inheriting
         DEF Page, Unchanged, historyVars
    <2>3. CASE user = "staff"
      <3>1. staff
        BY <2>1, <2>3 DEF SessionUser
      <3> QED
        BY <1>1, <1>2, <2>1, <3>1, RespondsBacked, MovingBackedAlone
           DEF Page, Unchanged, historyVars
    <2> QED BY <2>2, <2>3
  <1>3. CASE LoginOther(w)
    BY <1>1, <1>3, RespondsInherits, Inheriting DEF LoginOther, Unchanged, historyVars
  <1>4. CASE Login(w)
    <2> DEFINE s == [r EXCEPT !.pc = "signMark"]
    <2>1. evidence >= TrustTTL + 1
      BY <1>1, <1>4 DEF Login
    <2>2. /\ s.pc = "signMark" /\ s.info = r.info /\ s.priv = r.priv
          /\ s.old = r.old /\ s.trusted = r.trusted
      BY <1>1 DEF Requests
    <2>3. Goto(w, s) \/ Goto(w, Responds(r, "staff"))
      BY <1>4 DEF Login
    <2> HIDE DEF s
    <2>4. Backed(s, evidence, granted)
      BY <1>1, <2>1, <2>2, TimeoutsAreNat DEF Backed, Staffish, Favoured
    <2> QED
      BY <1>1, <1>4, <2>1, <2>3, <2>4, RespondsBacked, MovingBackedAlone
         DEF Login, historyVars
  <1>5. CASE SignInMark(w)
    <2> DEFINE s == [r EXCEPT !.pc = "signLift"]
    <2>1. r.pc = "signMark" /\ evidence >= TrustTTL
      BY <1>1, <1>5, TimeoutsAreNat DEF Backed, Staffish, SignInMark, At
    <2>2. EvidenceStands'
      BY <1>1, <1>5, <2>1 DEF EvidenceStands, SignInMark
    <2>3. Inherits(s, r)
      BY <1>1, <2>1 DEF Inherits, Staffish, Favoured, Requests
    <2>4. Goto(w, s)
      BY <1>5 DEF SignInMark
    <2> HIDE DEF s
    <2>5. Backed(s, evidence, granted)
      BY <1>1, <2>3, InheritsBacking
    <2> QED BY <1>5, <2>2, <2>4, <2>5, MovingBacked DEF SignInMark
  <1>6. CASE SignInLift(w)
    <2> DEFINE s == [r EXCEPT !.priv = "yes"]
    <2>1. s \in Requests /\ s.old = r.old /\ r.pc = "signLift"
      BY <1>1, <1>6 DEF Requests, SignInLift, At
    <2>2. Goto(w, Responds(s, "staff"))
      BY <1>6 DEF SignInLift
    <2> HIDE DEF s
    <2>3. Inherits(Responds(s, "staff"), r)
      <3>1. CASE Responds(s, "staff") = NoRequest
        BY <3>1, NoRequestInherits
      <3>2. CASE Responds(s, "staff") =
                     [NoRequest EXCEPT !.pc = "refresh", !.at = Response, !.old = s.old]
        BY <2>1, <3>2 DEF NoRequest, Inherits, Staffish, Favoured
      <3> QED BY <3>1, <3>2 DEF Responds
    <2> QED BY <1>6, <2>2, <2>3, Inheriting DEF SignInLift, historyVars
  <1>7. CASE ReportView(w)
    <2> DEFINE s == [r EXCEPT !.pc = "csp"]
    <2>1. /\ s.pc = "csp" /\ s.info = r.info /\ s.priv = r.priv /\ s.old = r.old
          /\ s.trusted = r.trusted /\ r.pc = "view"
      BY <1>1, <1>7 DEF Requests, ReportView, At
    <2>2. Goto(w, s)
      BY <1>7 DEF ReportView
    <2> HIDE DEF s
    <2>3. Backed(s, evidence, granted)
      BY <1>1, <2>1 DEF Backed, Staffish, Favoured
    <2> QED BY <1>7, <2>2, <2>3, MovingBackedAlone DEF ReportView, NotCsp, historyVars
  <1>8. CASE ReportServe(w)
    <2>1. CASE Goto(w, Responds(r, "unknown"))
      BY <1>1, <1>8, <2>1, RespondsInherits, Inheriting DEF ReportServe, NotCsp, historyVars
    <2>2. CASE Goto(w, r)
      BY <1>1, <1>8, <2>2, MovingBackedAlone DEF ReportServe, NotCsp, historyVars
    <2> QED BY <1>8, <2>1, <2>2 DEF ReportServe
  <1> QED BY <1>2, <1>3, <1>4, <1>5, <1>6, <1>7, <1>8 DEF View

LEMMA EvidenceArrive ==
    ASSUME AnswerInv, EvidenceInv, NEW w \in Worker, Arrive(w), AnswerInv'
    PROVE  EvidenceInv'
  <1>1. PICK r \in site.requests :
            Goto(w, Forward([NoRequest EXCEPT
                     !.view = r.view, !.cookie = r.cookie, !.hits = r.hits,
                     !.exempt = r.exempt, !.welcomed = welcome > 1]))
    BY DEF Arrive
  <1> DEFINE s == [NoRequest EXCEPT
                     !.view = r.view, !.cookie = r.cookie, !.hits = r.hits,
                     !.exempt = r.exempt, !.welcomed = welcome > 1]
  <1>2. s.info = "unread" /\ s.trusted = FALSE /\ s.priv = "unasked" /\ s.pc = "idle"
    BY DEF NoRequest
  <1>3. s \in Requests
    BY <1>1, Arriving DEF AnswerInv
  <1>4. Goto(w, Forward(s))
    BY <1>1
  <1> HIDE DEF s
  <1>5. Backed(s, evidence, granted)
    BY <1>2 DEF Backed, Staffish, Favoured
  <1>6. Backed(Forward(s), evidence, granted)
    BY <1>3, <1>5, LongestIsNat, ForwardInherits, InheritsBacking
       DEF EvidenceInv, EvidenceStands
  <1> QED BY <1>4, <1>6, MovingBackedAlone DEF Arrive, Unchanged, historyVars

(* A tick: the evidence of whoever is no longer staff ages with what rests  *)
(* on it.                                                                   *)
LEMMA EvidenceTick ==
    ASSUME AnswerInv, EvidenceInv, Tick
    PROVE  EvidenceInv'
  <1>1. /\ EvidenceStands /\ evidence \in Nat /\ granted \in Nat /\ trust \in Nat
        /\ cached \in [Key -> Entries] /\ evidence <= Longest
    BY LongestIsNat DEF AnswerInv, Standing, EvidenceInv, EvidenceStands
  <1>2. /\ evidence' = IF staff THEN Longest ELSE IF evidence > 0 THEN evidence - 1 ELSE 0
        /\ granted' = IF granted > 0 THEN granted - 1 ELSE 0
        /\ trust' = IF trust > 0 THEN trust - 1 ELSE 0
        /\ staff' = staff
    BY DEF Tick, Lower
  <1>3. evidence' \in 0 .. Longest /\ evidence' >= evidence - 1 /\ granted' \in Nat
    BY <1>1, <1>2, LongestIsNat
  <1>4. ASSUME NEW key \in Key
        PROVE  cached'[key].info = "staff" => evidence' >= cached'[key].left + TrustTTL
    <2>1. cached'[key] = AgedEntry(cached[key]) /\ cached[key] \in Entries
      BY <1>1 DEF Tick
    <2>2. CASE cached[key].left > 1
      <3>1. /\ cached'[key].left = cached[key].left - 1
            /\ cached'[key].info = cached[key].info
        BY <2>1, <2>2 DEF AgedEntry, Entries
      <3>2. cached[key].info = "staff" => evidence >= cached[key].left + TrustTTL
        BY <1>1 DEF EvidenceStands
      <3>3. cached[key].left \in Nat
        BY <2>1 DEF Entries
      <3> QED BY <1>1, <1>3, <3>1, <3>2, <3>3, LongestIsNat, TimeoutsAreNat
    <2>3. CASE ~(cached[key].left > 1)
      BY <2>1, <2>3 DEF AgedEntry, NoEntry
    <2> QED BY <2>2, <2>3
  <1>5. trust' <= evidence' \/ trust' <= granted'
    BY <1>1, <1>2, LongestIsNat DEF EvidenceStands
  <1>6. EvidenceStands'
    BY <1>1, <1>2, <1>3, <1>4, <1>5 DEF EvidenceStands
  <1>7. SUFFICES ASSUME NEW w \in Worker
                 PROVE  Backed(req'[w], evidence', granted')
    BY <1>6 DEF EvidenceInv, Backed, Staffish, Favoured
  <1> DEFINE r == req[w]
             s == [r EXCEPT !.old = r.pc # "idle"]
  <1>8. r \in Requests /\ Backed(r, evidence, granted) /\ ~r.old /\ req'[w] = s
    BY DEF AnswerInv, EvidenceInv, Tick, At
  <1>9. /\ s.pc = r.pc /\ s.info = r.info /\ s.priv = r.priv /\ s.trusted = r.trusted
        /\ s.old = (r.pc # "idle")
    BY <1>8 DEF Requests
  <1> HIDE DEF s
  <1>10. CASE r.pc = "idle"
    BY <1>8, <1>9, <1>10 DEF Backed, Staffish, Favoured
  <1>11. CASE r.pc # "idle"
    <2>1. s.old /\ s.pc # "idle" /\ (Staffish(s) <=> Staffish(r))
      BY <1>9, <1>11 DEF Staffish
    <2>2. Staffish(r) => evidence' >= TrustTTL
      BY <1>1, <1>3, <1>8, LongestIsNat, TimeoutsAreNat DEF Backed
    <2>3. r.pc = "fill" /\ r.info = "staff" => evidence' >= TrustTTL + SessionTTL
      BY <1>1, <1>3, <1>8, LongestIsNat, TimeoutsAreNat DEF Backed
    <2> QED BY <1>8, <1>9, <2>1, <2>2, <2>3 DEF Backed
  <1> QED BY <1>8, <1>10, <1>11

(* More evidence, or a grant, harms no one. *)
LEMMA MoreEvidence ==
    ASSUME EvidenceInv, EvidenceStands', req' = req, evidence' >= evidence,
           granted' = granted \/ granted' > 0
    PROVE  EvidenceInv'
  <1>1. evidence \in Nat /\ evidence' \in Nat /\ granted \in Nat /\ granted' \in Nat
    BY LongestIsNat DEF EvidenceInv, EvidenceStands
  <1>2. SUFFICES ASSUME NEW w \in Worker
                 PROVE  Backed(req[w], evidence', granted')
    BY DEF EvidenceInv, Backed, Staffish, Favoured
  <1>3. Backed(req[w], evidence, granted)
    BY DEF EvidenceInv
  <1> QED BY <1>1, <1>3, TimeoutsAreNat DEF Backed

LEMMA EvidenceStep ==
    ASSUME AnswerInv, EvidenceInv, [Next]_vars, AnswerInv'
    PROVE  EvidenceInv'
  <1>0. EvidenceStands /\ evidence \in Nat /\ granted \in Nat
    BY LongestIsNat DEF EvidenceInv, EvidenceStands
  <1>1. ASSUME NEW w \in Worker, Finish(w) \/ Die(w)
        PROVE  EvidenceInv'
    BY <1>1, NoRequestInherits, Inheriting DEF Finish, Die, Unchanged, historyVars
  <1>2. ASSUME NEW w \in Worker, Arrive(w) \/ Continue(w) \/ Die(w)
        PROVE  EvidenceInv'
    BY <1>1, <1>2, EvidenceArrive, EvidencePrivilege, EvidenceLayer, EvidenceView
       DEF Continue
  <1>3. CASE Logout \/ CspTime \/ SetBan \/ UNCHANGED vars
    <2>1. UNCHANGED <<staff, cached, trust, evidence, granted, req>>
      BY <1>3 DEF Logout, CspTime, SetBan, NotCsp, vars, historyVars
    <2>2. EvidenceStands'
      BY <1>0, <2>1 DEF EvidenceStands
    <2> QED BY <1>0, <2>1, <2>2, MoreEvidence
  <1>4. CASE ChangeStaff
    <2>1. evidence' = Longest /\ evidence <= Longest
      BY <1>0, <1>4 DEF ChangeStaff, EvidenceStands
    <2>2. \A key \in Key : cached[key] \in Entries
      BY DEF AnswerInv, Standing
    <2>3. EvidenceStands'
      BY <1>0, <1>4, <2>1, <2>2, LongestIsNat, TimeoutsAreNat
         DEF EvidenceStands, ChangeStaff, AnswerInv, Standing, Entries
    <2> QED BY <1>0, <1>4, <2>1, <2>3, LongestIsNat, MoreEvidence DEF ChangeStaff
  <1>5. CASE UnbanAndTrust
    <2>1. EvidenceStands'
      BY <1>0, <1>5, TimeoutAssumption DEF EvidenceStands, UnbanAndTrust
    <2> QED BY <1>0, <1>5, <2>1, TimeoutAssumption, MoreEvidence DEF UnbanAndTrust
  <1>6. CASE Evict
    <2>1. \A key \in Key : cached'[key] = cached[key] \/ cached'[key].info = "unread"
      BY <1>6 DEF Evict, NoEntry, AnswerInv, Standing
    <2>2. EvidenceStands'
      BY <1>0, <1>6, <2>1 DEF EvidenceStands, Evict, historyVars
    <2> QED BY <1>0, <1>6, <2>2, MoreEvidence DEF Evict, historyVars
  <1> QED BY <1>2, <1>3, <1>4, <1>5, <1>6, EvidenceTick DEF Next, Outside

(* Trust has a reason, for every deployment and all timeouts: it lasts no   *)
(* longer than the evidence that somebody was staff, or an operator's grant,*)
(* and no request is privileged without one of them.  Whoever is trusted    *)
(* without being staff cannot prolong it, whatever requests race, sessions  *)
(* are cached, rows change and workers die.                                 *)
THEOREM TrustIsEarned == Spec => []TrustHasEvidence
  <1>1. Init => EvidenceInv
    <2>1. SUFFICES ASSUME Init
                   PROVE  EvidenceInv
      OBVIOUS
    <2>2. EvidenceStands
      BY <2>1, LongestIsNat, TimeoutsAreNat DEF Init, EvidenceStands, NoEntry
    <2>3. req = [w \in Worker |-> NoRequest]
      BY <2>1 DEF Init
    <2>4. Backed(NoRequest, evidence, granted)
      BY DEF NoRequest, Backed, Staffish, Favoured
    <2> QED BY <2>2, <2>3, <2>4 DEF EvidenceInv
  <1>2. AnswerInv /\ AnswerInv' /\ EvidenceInv /\ [Next]_vars => EvidenceInv'
    BY EvidenceStep
  <1>3. AnswerInv /\ EvidenceInv => TrustHasEvidence
    <2>1. SUFFICES ASSUME AnswerInv, EvidenceInv
                   PROVE  TrustHasEvidence
      OBVIOUS
    <2>2. /\ evidence \in Nat /\ granted \in Nat /\ trust \in Nat
          /\ trust <= evidence \/ trust <= granted
      BY <2>1, LongestIsNat DEF AnswerInv, Standing, EvidenceInv, EvidenceStands
    <2>3. Max({evidence, granted}) = IF evidence >= granted THEN evidence ELSE granted
      BY <2>2 DEF Max
    <2>4. \A w \in Worker : Privileged(w) /\ ~req[w].old => evidence > 0 \/ granted > 0
      BY <2>1 DEF EvidenceInv, Backed, Favoured, Privileged
    <2> QED BY <2>2, <2>3, <2>4 DEF TrustHasEvidence
  <1> QED BY <1>1, <1>2, <1>3, AnswerInvariant, PTL DEF Spec

-----------------------------------------------------------------------------
(* What the cache, the sessions and the views hold.                         *)

Slots ==
    /\ session \in [Key -> {"new", "live", "gone"}]
    /\ \A key \in Key :
           \/ cached[key] = NoEntry
           \/ cached[key].info \in {"staff", "other"} /\ cached[key].left \in 1 .. SessionTTL
    /\ trust <= TrustTTL \/ trust <= GrantTTL
    /\ refresh \in 0 .. RefreshTTL

(* What a worker serves, and what it knows of the user it is to remember.   *)
Serves(t, r) ==
    /\ t # NoTask <=> r.pc = "csp"
    /\ r.pc = "fill" => r.info \in {"staff", "other"}

SlotInv == Slots /\ \A w \in Worker : Serves(task[w], req[w])

LEMMA TimeoutBounds ==
    /\ SessionTTL \in Nat /\ SessionTTL >= 1 /\ RefreshTTL \in Nat
    /\ TrustTTL \in Nat /\ GrantTTL \in Nat
  BY TimeoutAssumption

(* One worker moves, outside the endpoint of reports. *)
LEMMA MovingServes ==
    ASSUME AnswerInv, SlotInv, NEW w \in Worker, NEW s, Goto(w, s), Serves(NoTask, s),
           req[w].pc # "csp", UNCHANGED cspVars
    PROVE  \A v \in Worker : Serves(task'[v], req'[v])
  <1>1. \A v \in Worker : req'[v] = IF v = w THEN s ELSE req[v]
    BY DEF AnswerInv, Goto
  <1>2. task' = task /\ task[w] = NoTask
    BY DEF SlotInv, Serves, cspVars
  <1> QED BY <1>1, <1>2 DEF SlotInv

LEMMA ServesNothing ==
    ASSUME NEW s, NEW r, Inherits(s, r)
    PROVE  Serves(NoTask, s)
  BY DEF Inherits, Serves

LEMMA SlotPrivilege ==
    ASSUME AnswerInv, SlotInv, NEW w \in Worker, Privilege(w)
    PROVE  SlotInv'
  <1> DEFINE r == req[w]
  <1>1. r \in Requests /\ Sound(r) /\ Standing /\ Slots /\ Serves(task[w], r)
    BY DEF AnswerInv, SlotInv
  <1>2. CASE IsStaffTrustedIp(w)
    <2> DEFINE s == [r EXCEPT !.trusted = site.staffBypass /\ trust > 0]
    <2>1. site.staffBypass \in BOOLEAN
      BY <1>1, SiteAssumption DEF Standing
    <2>2. s \in Requests
      BY <1>1, <2>1 DEF Requests
    <2>3. Goto(w, Identify(s)) /\ r.pc = "trust" /\ UNCHANGED cspVars
      BY <1>2 DEF IsStaffTrustedIp, At
    <2> HIDE DEF s
    <2>4. Serves(NoTask, Identify(s))
      BY <2>2, IdentifyInherits, ServesNothing
    <2>5. \A v \in Worker : Serves(task'[v], req'[v])
      BY <2>3, <2>4, MovingServes
    <2>6. Slots'
      BY <1>1, <1>2 DEF Slots, IsStaffTrustedIp
    <2> QED BY <2>5, <2>6 DEF SlotInv
  <1>3. CASE SessionGet(w)
    <2>1. r.cookie \in Key /\ r.pc = "session" /\ UNCHANGED cspVars
      BY <1>1, <1>3 DEF Sound, Asking, SessionGet, At
    <2> DEFINE s == [r EXCEPT !.info = cached[r.cookie].info]
    <2>2. s \in Requests
      BY <1>1, <2>1 DEF Standing, Entries, Requests
    <2>3. Serves(NoTask, Concluded(s)) /\ Serves(NoTask, [r EXCEPT !.pc = "store"])
      BY <1>1, <2>2, ConcludedInherits, PlacedInherits, ServesNothing
    <2>4. Goto(w, Concluded(s)) \/ Goto(w, [r EXCEPT !.pc = "store"])
      BY <1>3 DEF SessionGet
    <2> HIDE DEF s
    <2>5. \A v \in Worker : Serves(task'[v], req'[v])
      BY <2>1, <2>3, <2>4, MovingServes
    <2>6. Slots'
      BY <1>1, <1>3 DEF Slots, SessionGet
    <2> QED BY <2>5, <2>6 DEF SlotInv
  <1>4. CASE SessionStore(w) \/ UserRow(w)
    <2>1. r.pc \in {"store", "user"} /\ UNCHANGED cspVars
      BY <1>4 DEF SessionStore, UserRow, At
    <2>2. PICK info \in {"staff", "other"} :
              \/ Goto(w, [r EXCEPT !.info = info, !.pc = "fill"])
              \/ Goto(w, [r EXCEPT !.pc = "user"])
      BY <1>4 DEF SessionStore, UserRow
    <2>3. Serves(NoTask, [r EXCEPT !.info = info, !.pc = "fill"])
      BY <1>1, <2>2 DEF Serves, Requests
    <2>4. Serves(NoTask, [r EXCEPT !.pc = "user"])
      BY <1>1, PlacedInherits, ServesNothing
    <2>5. \A v \in Worker : Serves(task'[v], req'[v])
      BY <2>1, <2>2, <2>3, <2>4, MovingServes
    <2>6. Slots'
      BY <1>1, <1>4 DEF Slots, SessionStore, UserRow
    <2> QED BY <2>5, <2>6 DEF SlotInv
  <1>5. CASE SessionSet(w)
    <2>1. /\ r.cookie \in Key /\ r.info \in {"staff", "other"} /\ r.pc = "fill"
          /\ Goto(w, Concluded(r)) /\ UNCHANGED cspVars
      BY <1>1, <1>5 DEF Sound, Asking, Serves, SessionSet, At
    <2>2. \A v \in Worker : Serves(task'[v], req'[v])
      BY <1>1, <2>1, ConcludedInherits, ServesNothing, MovingServes
    <2>3. Slots'
      BY <1>1, <1>5, <2>1, TimeoutBounds DEF Slots, Standing, SessionSet
    <2> QED BY <2>2, <2>3 DEF SlotInv
  <1>6. CASE RefreshStaffTrust(w)
    <2>1. r.pc = "refresh" /\ UNCHANGED cspVars
      BY <1>6 DEF RefreshStaffTrust, At
    <2>2. Goto(w, Returned(r)) \/ Goto(w, [r EXCEPT !.pc = "mark"])
      BY <1>6 DEF RefreshStaffTrust
    <2>3. Serves(NoTask, [r EXCEPT !.pc = "mark"])
      BY <1>1 DEF Serves, Requests
    <2>4. \A v \in Worker : Serves(task'[v], req'[v])
      BY <1>1, <2>1, <2>2, <2>3, ReturnedInherits, ServesNothing, MovingServes
    <2>5. Slots'
      BY <1>1, <1>6, TimeoutBounds DEF Slots, RefreshStaffTrust
    <2> QED BY <2>4, <2>5 DEF SlotInv
  <1>7. CASE MarkStaffTrustedIp(w)
    <2>1. r.pc = "mark" /\ Goto(w, Returned(r)) /\ UNCHANGED cspVars
      BY <1>7 DEF MarkStaffTrustedIp, At
    <2>2. \A v \in Worker : Serves(task'[v], req'[v])
      BY <1>1, <2>1, ReturnedInherits, ServesNothing, MovingServes
    <2>3. Slots'
      BY <1>1, <1>7, TimeoutBounds DEF Slots, MarkStaffTrustedIp
    <2> QED BY <2>2, <2>3 DEF SlotInv
  <1> QED BY <1>2, <1>3, <1>4, <1>5, <1>6, <1>7 DEF Privilege

LEMMA SlotLayer ==
    ASSUME AnswerInv, SlotInv, NEW w \in Worker, Layer(w) \/ Finish(w)
    PROVE  SlotInv'
  <1> DEFINE r == req[w]
             s == [r EXCEPT !.kind = ban]
  <1>1. r \in Requests /\ s \in Requests
    BY DEF AnswerInv, Standing, Requests
  <1> HIDE DEF s
  <1>2. /\ r.pc \in {"layer", "blocked"} /\ Unchanged
        /\ \/ Goto(w, Forward(s)) \/ Goto(w, Ask(s)) \/ Goto(w, Forward(r)) \/ Goto(w, Ask(r))
           \/ Goto(w, [r EXCEPT !.pc = "blocked"]) \/ Goto(w, NoRequest)
    BY DEF Layer, IpBan, Honeypot, JsonValidation, Waf, BotDetector, RateLimit, Finish,
           InLayer, At, s
  <1>3. /\ Serves(NoTask, Forward(s)) /\ Serves(NoTask, Ask(s))
        /\ Serves(NoTask, Forward(r)) /\ Serves(NoTask, Ask(r))
        /\ Serves(NoTask, [r EXCEPT !.pc = "blocked"]) /\ Serves(NoTask, NoRequest)
    BY <1>1, ForwardInherits, AskInherits, PlacedInherits, NoRequestInherits, ServesNothing
  <1>4. \A v \in Worker : Serves(task'[v], req'[v])
    <2>1. UNCHANGED cspVars
      BY <1>2 DEF Unchanged
    <2> QED BY <1>2, <1>3, <2>1, MovingServes
  <1>5. Slots'
    BY <1>2 DEF SlotInv, Slots, Unchanged
  <1> QED BY <1>4, <1>5 DEF SlotInv

LEMMA RespondsServes ==
    ASSUME NEW r \in Requests, NEW user
    PROVE  Serves(NoTask, Responds(r, user))
  BY DEF Responds, NoRequest, Serves

LEMMA SlotView ==
    ASSUME AnswerInv, ReportsInv, SlotInv, NEW w \in Worker, View(w)
    PROVE  SlotInv'
  <1> DEFINE r == req[w]
  <1>1. /\ r \in Requests /\ Standing /\ Slots /\ Serves(task[w], r)
        /\ task \in [Worker -> Tasks]
    BY DEF AnswerInv, SlotInv, ReportsInv, CspTypeOK
  <1>2. CASE Page(w) \/ LoginOther(w)
    <2>1. r.pc = "view" /\ Unchanged /\ \E user : Goto(w, Responds(r, user))
      BY <1>2 DEF Page, LoginOther, At
    <2>2. \A v \in Worker : Serves(task'[v], req'[v])
      BY <1>1, <2>1, RespondsServes, MovingServes DEF Unchanged
    <2>3. Slots'
      BY <1>1, <2>1 DEF Slots, Unchanged
    <2> QED BY <2>2, <2>3 DEF SlotInv
  <1>3. CASE Login(w)
    <2>1. /\ r.pc = "view" /\ UNCHANGED cspVars
          /\ Goto(w, [r EXCEPT !.pc = "signMark"]) \/ Goto(w, Responds(r, "staff"))
      BY <1>3 DEF Login, At
    <2>2. Serves(NoTask, [r EXCEPT !.pc = "signMark"])
      BY <1>1 DEF Serves, Requests
    <2>3. \A v \in Worker : Serves(task'[v], req'[v])
      BY <1>1, <2>1, <2>2, RespondsServes, MovingServes
    <2>4. Slots'
      BY <1>1, <1>3 DEF Slots, Login
    <2> QED BY <2>3, <2>4 DEF SlotInv
  <1>4. CASE SignInMark(w)
    <2>1. r.pc = "signMark" /\ UNCHANGED cspVars /\ Goto(w, [r EXCEPT !.pc = "signLift"])
      BY <1>4 DEF SignInMark, At
    <2>2. Serves(NoTask, [r EXCEPT !.pc = "signLift"])
      BY <1>1 DEF Serves, Requests
    <2>3. \A v \in Worker : Serves(task'[v], req'[v])
      BY <2>1, <2>2, MovingServes
    <2>4. Slots'
      BY <1>1, <1>4, TimeoutBounds DEF Slots, SignInMark
    <2> QED BY <2>3, <2>4 DEF SlotInv
  <1>5. CASE SignInLift(w)
    <2> DEFINE s == [r EXCEPT !.priv = "yes"]
    <2>1. r.pc = "signLift" /\ UNCHANGED cspVars /\ Goto(w, Responds(s, "staff"))
      BY <1>5 DEF SignInLift, At
    <2>2. s \in Requests
      BY <1>1 DEF Requests
    <2>3. \A v \in Worker : Serves(task'[v], req'[v])
      BY <2>1, <2>2, RespondsServes, MovingServes
    <2>4. Slots'
      BY <1>1, <1>5 DEF Slots, SignInLift
    <2> QED BY <2>3, <2>4 DEF SlotInv
  <1>6. CASE ReportView(w)
    <2>1. /\ task'[w] # NoTask /\ \A v \in Worker \ {w} : task'[v] = task[v]
      BY <1>1, <1>6 DEF ReportView, Receive, NoTask
    <2>2. /\ req'[w].pc = "csp" /\ \A v \in Worker \ {w} : req'[v] = req[v]
      BY <1>1, <1>6 DEF ReportView, Goto, AnswerInv, Requests
    <2>3. \A v \in Worker : Serves(task'[v], req'[v])
      BY <2>1, <2>2 DEF SlotInv, Serves
    <2>4. Slots'
      BY <1>1, <1>6 DEF Slots, ReportView, NotCsp
    <2> QED BY <2>3, <2>4 DEF SlotInv
  <1>7. CASE ReportServe(w)
    <2>1. \A v \in Worker \ {w} : task'[v] = task[v] /\ req'[v] = req[v]
      BY <1>1, <1>7
         DEF ReportServe, Serve, CountAdd, CountIncr, Dedupe, CreateRow, CacheFails, Step,
             Answer, Goto, AnswerInv
    <2>2. Serves(task'[w], req'[w])
      <3>1. r.pc = "csp" /\ req'[w] = IF task'[w] = NoTask THEN Responds(r, "unknown") ELSE r
        BY <1>1, <1>7 DEF ReportServe, At, Goto, AnswerInv
      <3> QED BY <1>1, <3>1, RespondsServes DEF Serves
    <2>3. Slots'
      BY <1>1, <1>7 DEF Slots, ReportServe, NotCsp
    <2> QED BY <2>1, <2>2, <2>3 DEF SlotInv
  <1> QED BY <1>2, <1>3, <1>4, <1>5, <1>6, <1>7 DEF View

LEMMA SlotArrive ==
    ASSUME AnswerInv, SlotInv, NEW w \in Worker, Arrive(w)
    PROVE  SlotInv'
  <1>1. PICK r \in site.requests :
            Goto(w, Forward([NoRequest EXCEPT
                     !.view = r.view, !.cookie = r.cookie, !.hits = r.hits,
                     !.exempt = r.exempt, !.welcomed = welcome > 1]))
    BY DEF Arrive
  <1> DEFINE s == [NoRequest EXCEPT
                     !.view = r.view, !.cookie = r.cookie, !.hits = r.hits,
                     !.exempt = r.exempt, !.welcomed = welcome > 1]
  <1>2. s \in Requests
    BY <1>1, Arriving DEF AnswerInv
  <1>3. Goto(w, Forward(s)) /\ req[w].pc = "idle" /\ Unchanged
    BY <1>1 DEF Arrive, At
  <1> HIDE DEF s
  <1>4. Serves(NoTask, Forward(s))
    BY <1>2, ForwardInherits, ServesNothing
  <1>5. \A v \in Worker : Serves(task'[v], req'[v])
    BY <1>3, <1>4, MovingServes DEF Unchanged
  <1>6. Slots'
    BY <1>3 DEF SlotInv, Slots, Unchanged
  <1> QED BY <1>5, <1>6 DEF SlotInv

LEMMA SlotDie ==
    ASSUME AnswerInv, ReportsInv, SlotInv, NEW w \in Worker, Die(w)
    PROVE  SlotInv'
  <1>1. \A v \in Worker : /\ req'[v] = IF v = w THEN NoRequest ELSE req[v]
                          /\ task'[v] = IF v = w THEN NoTask ELSE task[v]
    BY DEF AnswerInv, ReportsInv, CspTypeOK, Die, Goto
  <1>2. Serves(NoTask, NoRequest)
    BY DEF Serves, NoRequest
  <1>3. Slots'
    BY DEF SlotInv, Slots, Die, historyVars
  <1> QED BY <1>1, <1>2, <1>3 DEF SlotInv

LEMMA SlotTick ==
    ASSUME AnswerInv, SlotInv, Tick
    PROVE  SlotInv'
  <1>1. Slots /\ trust \in Nat /\ cached \in [Key -> Entries]
    BY DEF AnswerInv, Standing, SlotInv
  <1>2. ASSUME NEW key \in Key
        PROVE  \/ cached'[key] = NoEntry
               \/ /\ cached'[key].info \in {"staff", "other"}
                  /\ cached'[key].left \in 1 .. SessionTTL
    <2>1. cached'[key] = AgedEntry(cached[key]) /\ cached[key] \in Entries
      BY <1>1 DEF Tick
    <2>2. CASE cached[key].left > 1
      <3>1. /\ cached'[key].left = cached[key].left - 1
            /\ cached'[key].info = cached[key].info
        BY <2>1, <2>2 DEF AgedEntry, Entries
      <3>2. cached[key] # NoEntry
        BY <2>2 DEF NoEntry
      <3> QED BY <1>1, <2>2, <3>1, <3>2, TimeoutBounds DEF Slots
    <2>3. CASE ~(cached[key].left > 1)
      BY <2>1, <2>3 DEF AgedEntry
    <2> QED BY <2>2, <2>3
  <1>3. /\ trust' = IF trust > 0 THEN trust - 1 ELSE 0
        /\ refresh' = IF refresh > 0 THEN refresh - 1 ELSE 0
        /\ session' = session /\ task' = task
    BY DEF Tick, Lower, cspVars
  <1>4. Slots'
    BY <1>1, <1>2, <1>3, TimeoutBounds DEF Slots
  <1>5. \A w \in Worker : req'[w].pc = req[w].pc /\ req'[w].info = req[w].info
    BY DEF AnswerInv, Requests, Tick
  <1> QED BY <1>3, <1>4, <1>5 DEF SlotInv, Serves

LEMMA SlotStep ==
    ASSUME AnswerInv, ReportsInv, SlotInv, [Next]_vars
    PROVE  SlotInv'
  <1>1. Standing /\ Slots
    BY DEF AnswerInv, SlotInv
  <1>2. ASSUME NEW w \in Worker, Arrive(w) \/ Continue(w) \/ Die(w)
        PROVE  SlotInv'
    BY <1>2, SlotArrive, SlotPrivilege, SlotLayer, SlotView, SlotDie DEF Continue
  <1>3. CASE ChangeStaff \/ SetBan \/ UNCHANGED vars
    BY <1>3 DEF SlotInv, Slots, ChangeStaff, SetBan, vars, cspVars
  <1>4. CASE CspTime
    <2>1. task' = task /\ req' = req
      BY <1>4 DEF CspTime, Unmark, NextHour
    <2> QED BY <1>4, <2>1 DEF SlotInv, Slots, CspTime, NotCsp
  <1>5. CASE Logout \/ UnbanAndTrust \/ Evict
    <2>1. task' = task /\ req' = req
      BY <1>5 DEF Logout, UnbanAndTrust, Evict, cspVars
    <2>2. Slots'
      <3>1. CASE Logout
        BY <1>1, <3>1 DEF Slots, Logout
      <3>2. CASE UnbanAndTrust
        BY <1>1, <3>2, TimeoutBounds DEF Slots, UnbanAndTrust
      <3>3. CASE Evict
        BY <1>1, <3>3 DEF Slots, Standing, Evict
      <3> QED BY <1>5, <3>1, <3>2, <3>3
    <2> QED BY <2>1, <2>2 DEF SlotInv
  <1> QED BY <1>2, <1>3, <1>4, <1>5, SlotTick DEF Next, Outside

(* Type correctness, for every deployment, all timeouts and any number of   *)
(* workers: no entry, mark or marker outlives the timeout the code gives it,*)
(* and a report is served in its view only, wherever a worker dies.         *)
THEOREM PipelineTypes == Spec => []TypeOK
  <1>1. Init => SlotInv
    <2>1. SUFFICES ASSUME Init
                   PROVE  SlotInv
      OBVIOUS
    <2>2. Slots
      BY <2>1, TimeoutBounds DEF Init, Slots
    <2>3. Serves(NoTask, NoRequest)
      BY DEF Serves, NoRequest
    <2> QED BY <2>1, <2>2, <2>3 DEF Init, CspInit, SlotInv
  <1>2. AnswerInv /\ ReportsInv /\ SlotInv /\ [Next]_vars => SlotInv'
    BY SlotStep
  <1>3. AnswerInv /\ ReportsInv /\ SlotInv => TypeOK
    <2>1. SUFFICES ASSUME AnswerInv, ReportsInv, SlotInv
                   PROVE  TypeOK
      OBVIOUS
    <2>2. Standing /\ Slots /\ CspTypeOK
      BY <2>1 DEF AnswerInv, ReportsInv, SlotInv
    <2>3. ASSUME NEW key \in Key, cached[key] # NoEntry
          PROVE  cached[key] \in [info : {"staff", "other"}, left : 1 .. SessionTTL]
      BY <2>2, <2>3 DEF Standing, Slots, Entries
    <2>4. trust \in 0 .. Max({TrustTTL, GrantTTL})
      <3>1. Max({TrustTTL, GrantTTL}) = IF TrustTTL >= GrantTTL THEN TrustTTL ELSE GrantTTL
        BY TimeoutBounds DEF Max
      <3> QED BY <2>2, <3>1, TimeoutBounds DEF Standing, Slots
    <2>5. \A w \in Worker : task[w] # NoTask <=> At(w, "csp")
      BY <2>1 DEF SlotInv, Serves, At
    <2> QED BY <2>2, <2>3, <2>4, <2>5 DEF Standing, Slots, TypeOK
  <1> QED BY <1>1, <1>2, <1>3, AnswerInvariant, ReportsInvariant, PTL DEF Spec

=============================================================================
