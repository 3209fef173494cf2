# django-bouncer in TLA+

A verification project for `django_bouncer`, the Django application that bans,
limits and screens requests. Modules are translated from the code under
`src/django_bouncer/`; `PROJECT.json` maps each definition to its lines.

## 1. The system

A chain of middlewares runs before the application. Each layer has a mode
(`off`, `observe`, `enforce`). They share two stores: the **database**
(`BannedIP`, `SecurityEvent`, the users) and the **cache** (ban answers, counters,
locks, markers). There is no lock around a request: every web worker, management
command and admin action interleaves with the others at each database
statement and cache call, and the cache may lose a key at any time.

| Component | State | Operations | Used by |
|---|---|---|---|
| Ban list (`models.py`, `admin.py`, `bouncer_unban`, `bouncer_prune`) | one row per address; `bnc:ban:<ip>` | `is_banned`, `ban_kind`, `add_ban`, `add_automatic_ban`, `remove_ban`, admin actions and forms, `--all`, prune | every layer |
| Login guard (`signals.py`, gate in `rate_limit.py`, counters in `_helpers.py`) | failure counters by minute, login lock, staff trust | sign-in succeeded / failed, gate of the login POST | ban list |
| Automatic ban policy (`ban_policy.py`) | lock `bnc:auto-ban-lock:<policy>:<ip>` | `evaluate_auto_ban` | honeypot, WAF, rate limiter |
| Event log (`SecurityEvent`, `log_event`) | rows; throttle keys `bnc:once:ev:...` | write, count, prune | all layers |
| Rate limiter (`rate_limit.py`) | counter and violation marker by rule and minute | count, limit, log, evaluate | policy, event log |
| IP-ban middleware (`ip_ban.py`) | none | 403 for banned, login open under a temporary ban, response phase | ban list |
| Staff trust (`_helpers.py`) | `bnc:stafftrust:<ip>` and its refresh marker, `bnc:sess:<key>`, two memos on the request | `is_privileged`, mark, unmark, refresh | all layers |
| Honeypot, WAF, bot detector, JSON validation | none | classify, log, block | event log, policy |
| Settings (`policy.py`), client address (`client_ip.py`) | settings and environment; the address of a request | modes, rules, prefixes, login paths, `resolve_client_ip` | all layers |
| System checks (`checks.py`), `bouncer_status` | none | judge and report the settings | operators |
| CSP reports (`views.py`) | hourly counter, dedupe keys | collect a report | event log |
| Reports, templates, migrations | none | read and format | operators |

What is hard here: a cache entry and a row that change by separate calls
(stale answers after a race, a crash, an eviction, an admin form); a
row lock that does not exist while the row does not; decisions made by one query
and carried out by another (prune, `--all`, `make_permanent`, the policy's
count and its ban); counters that sum buckets while minutes pass; a privilege
asked once and used later, renewed by those who have it and cached beyond its
end; locks and markers with a timeout of their own; a cache that fails open; one
setting that has several sources and forms, read by two pieces of code.
`PROJECT.json` lists each at its line under `hazards`.

What makes each part correct:

- ban list: a lifted ban stops blocking, a ban that stays is enforced,
  detectors leave active bans alone, one detector reports each ban, an address
  the cache calls banned has its row;
- login guard: the lock bounds guessing and ends, bans rest on real failures;
- policy: a ban has its evidence, one request writes it, no offender
  slips between concurrent evaluations;
- all three writers of bans: the ban is what `BanLedger` promises;
- rate limiter: the limit holds whoever creates the counter, and a burst over
  one rule is not a ban;
- privilege: one answer per request, always for a reason, gone when the reason is,
  and a staff sign-in opens the address whatever the detectors write after it;
- settings: what is in force is well formed, quiet checks mean protection,
  an order the checks accept rejects the banned first, a translated path is no way
  around a rule, login pages are strict;
- client address: an address a proxy wrote, never one the client made up;
- CSP reports: no more rows in an hour than allowed.

## 2. Modules

**`BanList`** models one address (all of the code is keyed by the address). `row` is the
database row, `cache` its entry, `lock` the row lock of `select_for_update`,
`pc`/`seen`/`due` the position and local variables of each worker. A worker is
a request, command or admin action; each action is one database statement or
one cache call: `CheckGet`, `CheckDrop`, `CheckQuery`, `CheckFill`, `CheckKind` are
`ban_kind`; `AutoStart` ... `AutoPublish` are `add_automatic_ban` with its
transaction, the `IntegrityError` of two creators (`AutoCollide`) and the cache
write after the commit; `BanStart` ... `BanPublish` are `add_ban`; `Lift*`,
`Permanent*`, `UnbanAll*`, `Prune*` the operators' commands and admin actions;
`FormSave` and `FormDelete` the admin form, which does not touch the cache.
`Crash` may end a worker between any two steps, `Evict` may drop the entry.

Time is relative: deadlines and timeouts are stored as the ticks they have
left and `Tick` lowers all of them, so behaviours have no horizon and the
liveness properties need no bound on time. A deadline long past stays at
`Floor`, beyond which only "old enough to prune" matters.

**`LoginGuard`** models one address in minutes. `short` and `long` are the two
counters of `bump_counter` by age of the bucket, `lock`, `ban`, `trusted` the
rest of the shared state. `Gate` is the login POST in `RateLimitMiddleware`;
`LoggedIn`, `TrustStaff`, `LiftBan` are `on_user_logged_in`; `LoginFailed` ...
`SetBan` are `on_user_login_failed`, with each counter read and write a step;
`CacheFails` and `Evict` are the cache.

**`AutoBan`** models one address and one policy: `events` (a bag of
`SecurityEvent`s by reason, path, signed-in or not, and age), throttle keys,
the evaluation lock, the ban. `Detect`, `Throttle`, `Persist` are a detector and
`log_event`; `CountEvents`, `CountPaths`, `TakeLock`, `WriteBan` are
`evaluate_auto_ban`. Faults: a ban lifted, a request that dies, an outage
that `log_event` swallows, a lock the cache drops.

**`RateLimiter`** extends `AutoBan` with the limiter's counter and marker by rule
and minute: `Arrive`, `Hit`, `Create`, `Increase`, `Pass`, `FirstViolation`,
`LaterViolation`, `CounterFails`, then `Log` and the evaluation of `AutoBan`.
It is the composition of two components: its events are those the policy counts.

**`BanLedger`** is the abstract specification: an address has one ban at most, a
detector gives it one when it has none, and from then on only time or a lift
changes it. `BanList`, `AutoBan` and `LoginGuard` each instantiate it (`Ledger`), with a
refinement mapping `ban` from the row (what is left of its deadline, nothing once
it has passed) or from the variable that stands for it, and state
`Ledger!Spec` as a property (`DetectorsKeepLedger`, `EvaluationsKeepLedger`,
`GuardKeepsLedger`). This is what makes it right that `AutoBan`, `LoginGuard`
and `Pipeline` see a ban as one value.

**`CspReports`** is the view of browser reports for one address: the hourly counter
(`CountAdd`, `CountIncr`), the mark (`Dedupe`), the row (`CreateRow`), each a
call of its own; `NextHour` keeps the bucket of the hour before, because a
request may still be served in it.

**`Pipeline`** extends `CspReports` and takes requests of one address through the
stack. `req[w]` is a request: where it is, what its content makes a layer look at
(`hits`), its cookie, and the two memos `priv` and `info`. `Acts` and
`Forward` skip the layers that do not look at it; `IpBan`, `Honeypot`,
`JsonValidation`, `Waf`, `BotDetector`, `RateLimit` are the layers; `Ask` ...
`MarkStaffTrustedIp` are `is_privileged` with `session_user_info` and
`_refresh_staff_trust`, one cache call or query a step; `Page`, `Login`, `LoginOther`,
`SignInMark`, `SignInLift`, `ReportView`, `ReportServe` the views, and
`Responds` the response phase. Outside a request the user's row changes
(`ChangeStaff`), sessions end, operators grant trust, bans come and go, entries are
evicted, workers die, time passes. Three history variables say why trust may
exist: `evidence`, `granted`, `welcome`.

**`Policy`** is `policy.py` as operators over `settings` and `environ`; **`Checks`** the
five system checks and what `bouncer_status` says; **`ClientAddress`** the chain
a request comes through and `resolve_client_ip`. **`Deployment`** composes them: the
operator reconfigures and restarts, runs the checks, requests come in.
A path is the sequence of its pieces (`<<"/", "en", "/", "shop", "/">>`), so that
prefixes of texts are prefixes of sequences; the values of a setting are the
forms the code tells apart (a mode, a text that is none, a tuple, a dict).

`BanListMC`, `LoginGuardMC`, `AutoBanMC`, `RateLimiterMC`, `PipelineMC` and
`DeploymentMC` give TLC symmetry sets and instances. Definitions commented "Mutant" are
plausible bugs, used to show that a property notices them; no specification
uses them. The proofs are in modules of their own (`BanListProofs`, `AutoBanProofs`,
`LoginGuardProofs`, `RateLimiterProofs`, `ReportProofs`, `PipelineProofs`,
`DeploymentProofs`), which extend the module they are about, and `SumProofs`, the
lemmas about sums they share; see 4.

`Policy` and `Checks` filter lists by `AtIndices`, a recursive function over the length: the code's
list comprehensions and its removal of duplicates in `_login_prefixes`. The
library's `SelectSeq` is the same filter, but the prover cannot expand its definition.

### What the models assume

- The database locks rows and serialises statements (PostgreSQL, MySQL); on
  SQLite `select_for_update` is a no-op but writers are serialised.
- One address per instance; `AutoBan` has one policy per instance, because policies
  count different reasons and take different locks. A ban another policy wrote is
  an active ban and would only make this one idle.
- The requests of `AutoBan` and `RateLimiter` are unprivileged, from a bannable
  address, in enforce mode, with `BOUNCER_AUTO_BAN` on: others neither persist
  such events as blocking nor evaluate. `LoginGuard` and `Pipeline` have the privileged
  ones.
- `hit_count`, reasons, notes and messages are left out: no decision reads them.
- A tick is a minute in `LoginGuard` and `RateLimiter`. In `LoginGuard` the lock and
  the ban carry one more minute than their setting, the begun one.
- In `Pipeline` a tick is five minutes, the life of a cached session, and a request
  sees one boundary at most: the timeout of a web worker is far shorter. The mark of
  a trusted address is not evicted before its time (losing it loses the recovery path;
  no code can help that), nor is the hourly counter of `CspReports`. An operator's lift
  and grant are one step. With staff bypass off, `log_event` still reads the session;
  that has no effect on anything else and is left out. Superusers who are not
  staff are staff here: `on_user_logged_in` treats them alike, the session does not.
- `Policy` leaves out burst factors, the multiplier and the knobs for texts and sizes; the
  url names of the instance resolve to paths without a language prefix (see 5). The parse
  caches of `policy.py` are keyed by every value they depend on.

## 3. Runs

| Run | What it asks | Instance |
|---|---|---|
| `ban_all` | typing; a detector's transaction still sees the row it read; detectors never change an active ban | every operation, two workers, three keys, one address that may be unspecified |
| `ban_detectors` | a cached ban has its row with that deadline; one detector reports each ban; the row implements `BanLedger` | three workers that check and ban, crashes, evictions |
| `ban_live` | a ban that stays takes hold; a ban that is over stops blocking | two workers that check, ban automatically or by hand, lift, run `make_permanent` and `--all`, and crash; the admin form; fairness |
| `ban_race` | violation of "writes invalidate it" (`models.py:9-10`) | a reader and a lift |
| `ban_prune` | violation of "active bans are never touched" (`bouncer_prune.py:14`) | a detector and a prune |
| `login_lock` | typing; the lock bounds refused passwords | thresholds 2 and 4, windows of three minutes, staff sign-ins |
| `login_ban` | a ban has real failures behind it; it implements `BanLedger`; the lock ends | outage, eviction, staff; bans of two minutes; fairness |
| `auto_ban` | typing, evidence, one writer, no offender escapes; implements `BanLedger` | 3 events over 2 paths, a ban of one tick, lifts, crashes, outages, dropped locks |
| `rate_limiter` | the limit holds; a burst over one rule is not a ban | limit 1, hammer factor 3, one key lost, all faults |
| `pipeline` | one answer per request; trust has a reason; a sign-in recovers the address; rows of reports are bounded | two requests; four deployments (below) |
| `deployment` | what is in force is well formed; quiet checks mean protection; rules in effect or reported; translations classed alike; login pages strict; an order called right rejects the banned first; the address is a hop's | any two values of any two knobs, settings or environment; chains of up to two proxies |
| `deployment_rules` | violation of the hint of E006 (`checks.py:167-168`) | rules given as dicts |

Why the bounds are enough. Races in the ban list need two actors; the third
worker in `ban_detectors` is for the property about pairs of winners. `FreshPK`
needs one key more than the rows that workers may remember, hence three keys.
`AutoLength` and `ManualLength` differ so that deadlines can be told apart, and 0
is `hours=0`. In `LoginGuard` the windows are wider than a bucket, `MaxFailures` goes past the bound of
`GuessesBounded`, the lock lasts as long as its window as in the code (15 minutes each;
`GuardAssumption` says at least as long: a shorter lock would not bound guessing), and `Slack` lets a failure cross a minute
boundary between any two of its cache calls. The bound of `GuessesBounded` is
the threshold and two for each further worker, `LockCount + 2N - 2`: one that passed
the gate may still fail when the lock comes, and one that counts late misses the
newer bucket whose requests may have missed it. In `AutoBan`, `Slack` does the same
for the two queries and the ban, and `MaxEvents` is above the threshold;
a ban of one tick would hide a renewal, which `EvaluationsImplementLedger` excludes for any length.
`ban_live` has every operation that can leave a stale entry, with bans of one tick and
cache answers that last two. It leaves out what adds nothing to that: an eviction only takes the
entry away, prune takes entries and rows away as lifts do, and deleting in the form is `LiftDelete` of a worker that crashes before `LiftUncache`.
In `RateLimiter` an event may be persisted a minute after its request counted;
`MaxHits` goes past the hammering count, and `MaxLost` bounds how many keys the
cache loses or refuses. `GuessesBounded` was also checked with `MaxFailures` 7,
and with three workers for windows of two minutes.

`Pipeline` is checked on four deployments: an enforcing one whose staff user is revoked
or appointed once, with a page two layers look at; one with bans of both
kinds, a login page and a WAF hit; one that observes with layers off, an operator's
grant and a harmless bot; one that only takes reports. The timeouts keep the
code's order: session cache (2) below the renewal hour (3) below the trust (4) below an
operator's grant (5). In `Deployment`, `MaxWritten` is two because every interplay of
the code's readers is between two knobs (a mode and a layer's, a switch and
another, proxy counts, login urls and rules), or one knob's two sources.

The lists of middleware in `deployment` include some that name a layer twice, in and out of order:
a check that looked at the last place of a name would accept one of them.

`RulesInEffectOrReported` holds in `deployment` because its settings have no dicts, and
`LoginIsStrict` because no login url there starts with a language code; the theorems about
them name these conditions (see 4), and `deployment_rules` shows what dicts do.

`OneWriter` leaves out requests whose evaluation lock the cache drops (the history
`dropped`), and needs `Slack` below `LockTTL`: an evaluation is shorter than the
30 seconds of its lock.

Fairness. `FairSpec` of `BanList` and `LoginGuard` is weak fairness of each worker
that is in the middle of an operation, and of the clock: a web worker or command that
has started either goes on or dies (`Crash` is a step of its own, never fair), and
time passes. No operation is ever forced to start, and no request is assumed to
come. The other modules have no liveness property: that trust ends is stated as a
bound in time (`TrustHasEvidence`), which says more.

## 4. Proofs

Every invariant and every action property of a passing run is a theorem, for every value of
the constants that the named assumptions admit. The assumptions say what the code or its
surroundings make sure of: constants are numbers of the right sign, workers and rules are
finite sets (`WorkerAssumption` of `LoginGuard`, `FiniteAssumption` of `RateLimiter`,
`WorkersAreFinite`), settings hold values that Django and the raw readers accept
(`SettingsAssumption`), addresses are those the parser knows (`AddressAssumption`), and a
session stays cached for at least a tick (`_SESSION_INFO_TTL` is a positive constant).

### The ban list

`BanListProofs` is checked by TLAPS for every set of workers, keys, enabled
operations, ban lengths and timeouts, from the assumptions named in `BanList`
(`WorkerAssumption`, `KeyAssumption`, `LengthAssumption`, `TimeoutAssumption`).

- `TypeCorrect`: `Spec => []TypeOK`, one lemma for each group of actions; the point
  is that ageing stops at `Floor` and a timeout is never negative.
- `TransactionsSeeTheirRow`: `TransactionSeesItsRow` ties the holder of the row lock to
  its label, and what it remembers to the row; with the labels typed it is inductive
  as it stands. Steps of other workers leave
  the row alone because every writer asks for the lock
  (`OtherStepsAside`); the clock ages the row and what was read alike
  (`AgeingFacts`). `DetectorsKeepBans` follows: a detector writes a row only from
  `autoRevive`, when the row is inactive, or when there is none.
- `DetectorInvariant`, `CachedBansAreBacked`, `OneBanner`: where only checks, detectors,
  evictions and crashes run. `CachedBanIsBacked` is not inductive by itself: a worker
  about to write the cache may hold an old row. `DetectorInv` adds `PendingIsRow`
  (an active ban a worker is about to cache is the present row) and
  `DetectorsBanTemporarily` (detectors carry temporary bans), which gives both
  theorems.

### Automatic bans

`AutoBanProofs`, for every policy, number of requests and fault.

- `PolicyTypes`: `Spec => []TypeOK`. The types are stated for any set of labels (`Types`), so
  that `RateLimiterProofs` uses the same lemmas for the steps it takes over. What makes them
  inductive is what a request carries (`Request`): an offence, and a cutoff that
  ages only while it decides.
- `BansHaveEvidence`: from `EvidenceInv`, which says what each of the two queries found, at
  the age the cutoff has reached since. Events are not deleted within that time,
  so a count once found is there for the ban that comes late.
- `OffendersGetBanned`: from `AnswerInv`. As long as there is no ban, enough events
  mean that some request will still count them (the one that persisted last counts them
  all), and a lock that is taken means that its taker is about to ban: whoever
  finds the lock taken may go.
- `OneWriterAtATime` needs `ShortEvaluation` besides: an evaluation takes less
  time than the timeout of its lock. Requests whose lock the cache dropped are left out
  by the property itself. That one writer excludes another (`WritersAgree`) is
  not inductive; the strengthening `LockOutlivesWriter` says that whoever may write
  still has the lock: it was taken after the writer's cutoff, so the age of the cutoff
  and what the lock has left add up to the timeout at least.

### The rate limiter

`RateLimiterProofs`, from `LimiterAssumption` and `FiniteAssumption`.

- `TheLimitHolds`: `LimitInv` is about one counter. While its key is absent, the
  requests let through, those whose count lets them pass and those that will find no
  key were all paid for by lost keys; while it is there, the counter admits its own
  value besides, and the requests that may still create it are not all there are. The
  last part is what makes the share of a lost key `Burst + N - 1`: one request was behind it.
- `BansSpanMinutes`: `SpanInv` compares, up to any age, the events that are logged or
  due with the markers, counters and minutes that allow them; with the
  invariant of `AutoBan` a ban then needs minutes, not requests. It is stated for any
  set of minutes that holds the exceeded ones, because a counter can reach ten times
  the limit before its first violation is logged.

### The login guard

`LoginGuardProofs`, from `GuardAssumption` and `WorkerAssumption`.

- `GuardTypes`: `Spec => []TypeOK`.
- `BansHaveEvidence`: `RefusalInv` follows each failure from the refusal to the counter. What
  the long counter holds up to an age, and what workers are about to add there,
  were refused `Slack` minutes before at most; so was what a worker has read of some
  buckets together with what the others hold; so is the total it takes to the ban.
- `GuessesAreBounded`: `GuessInv` bounds how far a bucket can be counted up by workers that
  do not see the threshold (`Room`): what is in excess of it has a worker each that will
  lock, or has locked for as long as the excess stays in the window; and under the
  lock only those that had passed the gate fail once more.

These four invariants over counters (`LimitInv`, `SpanInv`, `RefusalInv`, `GuessInv`) were checked
by TLC on the instances of the runs before they were proved. They are about sums; what
they need of sums is in `SumProofs`. The library's folds are recursive, and induction
over them is out of the prover's reach, so its lemmas argue by a minimal
counterexample: a set of naturals that is not empty has a least element (`LeastNumber`), a finite set that
violates a law has a minimal violating subset (`MinimalSubset`), and taking one element
out of it leads to a contradiction.

### The ledger

`BanLedger` is implemented by each of the three writers of bans; every
proof maps the initial states and shows each step to be a ledger step or a stutter:

- `DetectorsImplementLedger` (`BanListProofs`), where only requests and detectors
  run: from `DetectorInv`, and `DueIsShort` (the ban a detector carries was drawn from
  the lengths the settings allow and has only run down since).
- `EvaluationsImplementLedger` (`AutoBanProofs`) needs only that the ban is a number:
  an evaluation that comes late writes nothing over the ban it finds.
- `GuardImplementsLedger` (`LoginGuardProofs`): `GuardInv` types the labels and says that
  only where staff sign in is anyone on the way to lift a ban.

### The pipeline

For every deployment, every set of requests, all timeouts and any
number of workers; `SiteAssumption` and `TimeoutAssumption` type the constants.

- `PipelineTypes`: `Spec => []TypeOK`. Cached sessions, marks and reports are typed by `SlotInv`,
  requests by `AnswerInv`, the rows and tasks of reports by `ReportsInvariant`.
- `AnswersAreKept` and `SignInOpens` follow from `AnswerInv`: each
  request is `Sound` (a request that was let through as privileged has the answer "yes",
  whoever still asks has none, or has it and only wants the user for the log), and the trust a sign-in wrote
  outlasts each request that arrived with it ahead. `SignInOpens` has a hypothesis,
  `GrantOutlastsTrust`: an operator's grant replaces the mark, so a grant shorter than
  the trust of a sign-in would end it early. The admin action grants thirty days
  (`admin.py`) and the trust is `BOUNCER_STAFF_TRUST_DAYS`, 7 unless configured;
  `bouncer_unban --trust --days N` may grant fewer, and then the hypothesis is not met.
- `TrustIsEarned`: `TrustHasEvidence` speaks of the mark, the invariant
  follows the evidence on the whole way to it: user's row, request that read the row, cached
  entry, request that read the entry, mark. At each station the evidence left covers
  what can still be made of it (`Backed`), and no layer adds to it (`Inherits`).
- `ReportsAreBounded` (`ReportProofs`), from `LimitAssumption` and `WorkersAreFinite`:
  the rows of an hour are not inductive, rows plus the reports past the counter are; these
  together are within the count and the limit.

### The deployment

`DeploymentProofs`, for all settings and environments (any number of values written), all
addresses, any number of proxies and any languages.

- `AddressesAreHops`: `AddressInv` says that the last entries of the header are the peers of
  the hops, in their order, whatever stands before them, and that an address was
  read from this header with these settings.
- `ConfigInv` says that settings and environment hold what may be written into them and
  that a report is the one of the settings in force. The other theorems follow from it.
- `DeploymentTypes`, `RulesAreInEffect`, `LoginsAreStrict`: `RulesAreBuilt` gives what `_build_rules`
  makes of any list of entries, from what `AtIndices` keeps (`AtIndicesKeeps`).
  `RulesAreInEffect` has the hypothesis `NoDicts`: no rules are given as dicts, and this
  is the only exception, the one `deployment_rules` shows. `LoginsAreStrict` has the hypothesis
  `PlainLogins`: no login url starts with the code of a language (see 5). Both hold in the
  instance of the run `deployment`.
- `SilenceIsProtection`: each id that the checks did not report says that its condition does not hold.
- `BannedAreRejectedFirst`: `checks.py` and `bouncer_status` sort our names by `index()`, the
  first place of each (`Expected`, `Found`), while Django runs every entry. `AtIndices` keeps
  the order (`InOrder`), so equal lists mean that the first places are in order
  (`OrderIsNoticed`), and a first place is ahead of every further one.
- `TranslationsAreInvisible`: `"/" code path` stripped is `path`, for every path
  without a prefix (`PathAssumption`), so every class and rule is the same.

### What is only model-checked

The liveness properties (`BanTakesHold`, `LiftTakesHold`, `LockEnds`): with fairness they are
out of the prover's reach. The violations of 5 are TLC's too.

## 5. Findings

Three sentences of the repository are not what the code does; each has a run:
a reader re-caches a lifted ban (`ban_race`), prune deletes a renewed ban
(`ban_prune`), and rate rules in the form of dicts are dropped unreported
(`deployment_rules`).

Read while modelling, and without a run of their own: a minute with
hammering gives two `rate_limit` events (`rate_limit.py:162`, against
`ban_policy.py:55`); a failure being counted may ban an address that staff just signed
in from (`signals.py:99`, against `signals.py:14-15`; `SignInRecovers` shows that
the ban turns nobody away); a `LOGIN_URL` under `i18n_patterns` resolves with a
language prefix that requests are compared without (`policy.py:393`), so a
temporary ban closes the login page too; a login path under `/api/` or
`/admin/` counts as covered and gets the limit of that prefix (`policy.py:261`);
a layer with an unknown mode is dropped without an issue (`policy.py:128`);
an IPv4-mapped entry of `BOUNCER_TRUSTED_IPS` passes the check and is dropped by
`_parse_trusted_networks` (`_helpers.py:63`); renewal shortens an operator's
thirty days to seven (`_helpers.py:270`); W009 says that no layer blocks although
`BOUNCER_LAYER_MODES` may enforce some (`checks.py:310`); one throttle key serves
allowed and blocked bot events (`bot_detector.py:223`, `:245`); the JSON layer does not ask for
exempt paths (`request_validation.py:47`, against `docs/SETTINGS.md:83`; `OneAnswer` and
`SignInRecovers` name it as the layer that asks nobody).

## 6. Not modelled

Regular expressions and token lists (WAF signatures, User-Agent lists) as text:
a request carries which layer would look at it. The interval between navigations
of the bot detector, which is logged and read by nothing. The deletion of old
events by `bouncer_prune`: its retention is days, the policies' windows minutes.
`bouncer_report`, rendering, templates, translations and migrations: output and
schema without decisions. Liveness of requests: each is a finite sequence of calls.

## 7. Plan

Proofs next: the invariants of `BanList` where operators take part, as far as they hold there,
and `TrustIsEarned` against an abstract specification of trust. Models next: `bouncer_report`'s
queries, and the navigation interval of the bot detector should a decision come to rest on it.
