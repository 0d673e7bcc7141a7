# Verification of cpa-plugin-xai-oauth

TLA+ models, TLC runs and TLAPS proofs for the plugin that logs a CLIProxyAPI
host in to xAI by device flow, keeps the credentials fresh and discovers the
models of each account. Paths such as `src/auth.go:227` are lines of the
repository. `PROJECT.json` maps each definition to the lines it stands for.

## 1. The system

| Component | Source | State it keeps | Operations |
| --- | --- | --- | --- |
| Login session store | `auth.go:14-60` | process-wide map: login state → `*loginSession`, behind a mutex | `put` (prunes every stale login first), `get`, `delete` |
| Device-login handlers | `auth.go:149-246`, `301-333` | locals of each call: the session pointer, `now`, the outcome | `auth.login.start`, `auth.login.poll`, rebuild from metadata |
| Device-code exchange | `oauth.go:201-288`, `324-381` | none in the plugin; x.ai keeps the device code | request a code, exchange it once per poll |
| Credential assembly | `storage.go` | none; builds storage JSON, metadata, attributes | `buildAuthData`, `usingAPI`, `authBaseURL`, `credentialFileName` |
| `auth.parse`, `auth.refresh` | `auth.go:126-147`, `248-298` | the credential file and the host's copy of the auth | parse a file, refresh it |
| Refresh schedule | `storage.go:234-263` | the host's next refresh time | `formatNextRefreshAfter` on login, parse, refresh |
| Plugin configuration | `config.go` | `pluginPrefix` | `setPluginConfig` on register and reconfigure |
| Model discovery: request | `models.go:81-202` | none | token, route and headers of `GET /models` |
| Model discovery: answer | `models.go:203-352`, `catalog.go` | none | decode, merge with the embedded catalog |
| OIDC discovery client | `oauth.go:76-199` | an endpoint cache in each client | `discover`, endpoint validation |
| ABI, dispatch, envelopes | `main.go`, `register.go`, `rpc.go` | none | marshal a request, call a handler, hand over a buffer |
| Build and release | `Makefile`, `scripts/`, `.github/` | none at run time | — |

How they interact. The host calls every method through one C entry point, from
any of its threads. `auth.login.start` asks x.ai for a device code, puts a
session into the store and returns a state, a deadline and metadata. The host
then calls `auth.login.poll` until it is told `success` or `error`; each poll
takes the *pointer* out of the store, releases the mutex, talks to x.ai and
writes to the object it still holds. A success becomes a credential: storage
JSON for the file, metadata for the host's native executor, attributes for
routing. From then on three actors renew or rewrite it: `auth.refresh`, the
native executor (which knows only the metadata), and the user, whose edits reach
the host through `auth.parse`. Model discovery reads the same three copies back.

What is hard here: calls that overlap on one session object outside the mutex;
`now` and the interval read before an exchange and used after it; a plugin
reload that empties the store under polls that can rebuild from metadata; an
answer that carries tokens and is lost; three copies of a credential that must
not shadow each other; and a refresh time recomputed at every parse; a configuration string
written while others read it; and requests that only a client timeout, or nothing
at all, brings to an end.

What makes each part correct:

* *login*: one credential per login at most; never an exchange past the promised
  deadline; never sooner than upstream asked (one caller) and never later than
  it asked; no live login lost to a neighbour; every login ends;
* *credential*: the newest access token is the one sent; the stored refresh token
  is the accepted one; host and discovery use one route, and a refresh keeps it;
  one file per account;
* *schedule*: refreshed ahead of the real expiry, parse after parse;
* *discovery answer*: the account's models and no others; the first listing of a
  model wins, the catalog only backfills;
* *calls*: endpoints of a valid discovery document only; the prefix in force, not
  an earlier one; every call comes back to the host.

`PROJECT.json`, `hazards`, lists the places where this can go wrong, each with
the properties that would notice.

## 2. Plan

Modules, most important behaviour first:

1. `LoginContract` (abstract), `LoginSessions`, `MCLogin` — **done**
2. `LoginSessionsProofs`: types, deadline, single credential, refinement — **done**
3. `Routing` (pure operators), `Credential`, `MCCredential` — **done**
4. `RefreshSchedule`, `MCSchedule` — **done**
5. `ModelMerge` (pure operators), `PluginCalls`, `MCPlugin`: the calls of several
   host threads, discovery, the models request and the merge — **done**
6. `Credential` with logins of the same account, also during a refresh — **done**
7. `CredentialProofs`, `RefreshScheduleProofs`, `PluginCallsProofs`,
   `LoginPacingProofs`, `LoginLifetimeProofs` — **done**
8. `LoginSequentialProofs`: what a host gets that asks about each login one poll at a
   time — **done**
9. `ListingProofs`: the merge, item by item, for every list — **done**
10. Left: a model of JWT decoding and of two accounts that share a file name

`Credential` composes `Routing`, and `PluginCalls` composes `ModelMerge` and
`Routing`; `LoginSessions` instantiates `LoginContract`
under its refinement mapping; the MC modules extend the module they instantiate.
Every recursive walk is written with functions or sets, so that each module can
be proved about. `LoginSessions` has two safety specifications: `Spec`, for any
host, and `SequentialSpec`, for one whose threads never have two polls of the same
login under way (`OnePollPerLogin`).

## 3. What is modelled

### LoginSessions

`sessions` maps a login to an address, `heap` says what is there: two polls may
share a session, or hold two sessions of one login, as Go pointers do. `poll` is
where each host thread stands:

| `pc` | code | next |
| --- | --- | --- |
| `idle` | — | `PollGet` (`get` finds it), `PollRebuild` (`sessionFromMetadata`), `PollUnknown` (no metadata: error envelope) |
| `restore` | before `put` at `auth.go:212` | `PollRestore` |
| `gate` | `auth.go:214-221` | `PollExpired`, `PollEarly` or `PollAdmit` |
| `send` | `auth.go:222` | `PollSend` reads the interval, the request leaves |
| `wait` | x.ai has the request | `AnswerPending`, `AnswerSlowDown`, `AnswerGrant`, `AnswerRefuse`, `Drop` |
| `answered` | `auth.go:224` | `PollRecord`, `PollFail`, `PollSucceed` |
| `save` | before `put` at `auth.go:227` and `232` | `PollSave` |

Between two of these points another thread may run. Reading the clock and the two
comparisons with it (`auth.go:214-219`) are one step, and so are the writes to
`Interval` and `NextAttempt`, which lie next to each other; `put` is atomic under
its mutex and prunes in the same step. A response is part of the last step.

Time is in ticks, `Second` ticks to a second: the metadata keeps whole seconds
(`time.RFC3339`), so a rebuilt session may expire a fraction early. `code` is the
device code as x.ai sees it; `asked` and `due` record what upstream asked for,
`reply.deadline` the lifetime it granted. They are not computed by the handler's
operators but by `Expected` and `Granted`, so that a handler without the floor of 5 s
or the default of 30 min would be noticed. Both are counted from the plugin's own
reading of the clock: when an exchange is *admitted*, not when it reaches x.ai.
The environment is `Tick`, `Approve`, `Refuse` (also a code that runs out
upstream) and `Reload`, in which calls in flight die and the store is new.
A failed `auth.login.start` leaves nothing behind and is no step. The host returns the
metadata of a login as it got it, or not at all: the fall-backs for an interval or an
expiry that is missing or unreadable (`auth.go:309-318`) are not taken. The host is
assumed to stop polling a login after `success`, as `login_test.go:119-121` asks.

`LoginContract` is what the operator is promised: `none`, `open`, `approved`, and
then `refused`, or `granted` and `delivered`, or `lost`. `LoginMap` derives it
from the code at x.ai, the responses and who holds tokens.

### Routing and Credential

`Routing` holds the pure functions that build an auth from a storage and those
that read it back for discovery. A base URL is one of the two known ones, one of
them with a trailing slash, a custom one, or absent; a flag is what `ParseBool`
makes of it; a token is the number of the exchange that issued it.

`Credential` has `file`, `auth` (the host's copy), `call` (a refresh in flight),
the configured prefix, and what the endpoint has granted and accepts; `received`
and `unheard` remember the last access token the host was given and the refresh
tokens spent in answers it has not got. Actions: `Login` (the same account once
more, even while a refresh is in flight), `Parse`, `RefreshSend`, `Grant` (rotating or not, with or without an `id_token`),
`RefreshFail`, `RefreshLost`, `RefreshDone`, `SetPluginConfig`, and outside the
plugin `Edit` and `NativeRefresh`. The native executor is modelled from README,
"Storage compatibility": it takes the refresh token from the metadata, renews
metadata and file and leaves attributes and the storage copy alone. The host is
assumed to run one refresh of a credential at a time, to save what a login or
a refresh returns, and to send along, as file name of a parse and as `AuthID` of a
refresh, the ID it was given or nothing (`SentNames`; an ID that does not end in
`.json` is handled like none). `named` remembers that no such request left both the
file and the account unnamed: the code then names the file after the clock. x.ai is assumed to name the account in the tokens of a login, and to keep
the tokens of an earlier login valid.

### RefreshSchedule

`formatNextRefreshAfter` with both of its branches, the cap by `expires_in`, the floor,
and the two places where RFC3339 drops the fraction of a second: the expiry that
`buildTokenData` stamps and the time the host is given. `Second` is the number of
ticks to a second. The host acts on the time it was last given, or up to `Lag` ticks
later (`Tick` stops there): it refreshes, or parses again; `Rewrite` is a file from
another tool, without a timestamp or with an `expires_in` that does not match it.

### ModelMerge and PluginCalls

`ModelMerge` is `mergeModels` as a recursive function, `MergedSoFar`: the answer after
each number of items of the account's list, with
the catalog by lower-case ID. Of the fields that are merged alike it keeps one
each: a string with a default (`owned_by`), names, a number, thinking, and one only
the catalog has.

`PluginCalls` is the plugin as the host's threads see it. `call` says where each
thread is:

| `pc` | code | next |
| --- | --- | --- |
| `idle` | outside the plugin | any method; those without a wait are answered at once |
| `config` | `setPluginConfig`, between the words of the string | `StoreWord` |
| `discover` | `discover`'s request, for a login start or a refresh without endpoint | `DiscoverAnswer` |
| `device` | `requestDeviceCode`'s request | `DeviceAnswer` |
| `token` | the exchange of a poll or a refresh | `TokenAnswer` |
| `build` | `buildAuthData`, between the words of `pluginPrefix` | `ReadWord` |
| `models` | `fetchModels`' request | `ModelsAnswer` |
| `replied` | the buffer is the host's | `HostFree` |

Every request may also fail (`RequestFail`), and all but the models request may
time out (`Timeout`). `pluginPrefix` is a Go string, two words that are written and
read one at a time, in an order the compiler chooses; no lock protects them. Words
of two strings make `"torn"`. Each call has a client of its own (`auth.go:122`), so
`discover`'s cache is always empty and is left out. An endpoint is what
`validateOAuthEndpoint` makes of it, a configuration block the values of its
`prefix:` lines. The session store and the credential's fields are not repeated
here: a poll is its exchange and the auth it builds, a parse or a refresh the
prefix of its auth. The host is assumed to register before it calls, and to
reconfigure from one thread at a time.

## 4. Runs

| Run | Instance | What it shows |
| --- | --- | --- |
| `login_sequential` | `SequentialSpec`, 1 login, 2 threads, 3 addresses, 2 ticks per second, intervals 0 and 4, lifetimes default and 5, clock to 13, 1 reload, 1 lost answer | `TypeOK`, `PacingKept`, `SlowDownSurvives`, `NoExcessBackoff`, `ConsumedOnSuccess` for a host that asks one at a time, from whatever thread |
| `login_store` | 2 logins, 1 thread, prune after 3 ticks, 1 reload | `LiveSessionsSurvive` with pruning neighbours; `ExchangesWithinDeadline` with rebuilds |
| `login_concurrent` | 1 login, 2 threads, 3 addresses, 1 reload, 1 lost answer | `OneCredential`, `NoExcessBackoff`, `ExchangesWithinDeadline`, `ImplementsContract` under every interleaving |
| `login_settles` | 1 login, 1 thread, `FairSpec`, 1 reload, 1 lost answer | `EveryLoginSettles` |
| `login_slow_down_lost` | 1 login, 2 threads | *violated*: a slow_down step is lost |
| `login_resurrected` | 1 login, 2 threads | *violated*: a consumed session comes back |
| `credential_lifecycle` | 2 prefixes, 4 grants, 2 edits | `TypeOK`, `FreshBearer`, `StaysRefreshable`, `RouteAgrees`, `OneFile`, `RefreshKeepsRoute` |
| `refresh_drops_prefix` | 3 prefixes, 2 grants, 2 edits | *violated*: the credential's prefix does not survive a refresh |
| `api_route_cli_headers` | the same, 2 grants | *violated*: CLI headers on the api.x.ai route |
| `refresh_schedule` | 2 ticks per second, floor 6, minute 10, lead 20, ten lifetimes from 0 to 40, host late by 1, clock to 64, 2 parses per token | `ParseHardlyDefers`, `NoExpiredToken`, `WithinExpiresIn`, `RefreshesSpaced` |
| `plugin_calls` | 2 threads, 3 prefixes, 4 blocks, 4 documents, 82 answers with a model list, `FairSpec` | `TypeOK`, `PrefixCurrent`, `OnlyValidEndpoints`, `FirstListingWins`, `CatalogFillsGaps`, `EveryOAuthCallReturns` |
| `models_hang` | the same | *violated*: a models request need not end |

Why the bounds are enough. A race on a session needs two polls and one answer
each; a third address lets one poll keep an object while two more are created.
Every repair path (rebuild, prune, early expiry) needs one reload or one lost
answer, and each run allows one. The clock outlasts a login's life and its prune
grace, or the longest interval after it. `MaxInterval` allows one slow_down in
the passing runs and two in `login_slow_down_lost`. The pacing constants are scaled (5 s
to 2 ticks, 30 min to 3 or 8), in the order they have in the code, except that
`PruneGrace` is short enough to bite. For credentials four grants are a login
and three renewals or logins, by any of the actors, rotating or not; two edits combine
any two routing fields. Two threads are a writer and a reader of the prefix, or two
calls side by side; nothing else is shared between calls. The model lists are all
of up to two of six items, and of three when the first is plain: IDs in two cases
and with blanks, an ID in `model`, a nameless item, names and numbers present or
not, one effort, several, blank ones, reasoning ruled out; `data` and `models`
present, empty or null. The schedule's constants are scaled, in the order they
have in the code, and the lifetimes lie on both sides of each threshold, on it and
next to it: none, below the floor, the floor, the minute, twice the floor, the lead
(twice the minute), the lead and a minute, and above. With two ticks to a second a
token is issued on a whole second or between two. No property of
`credential_lifecycle` depends on which prefix is set, so one besides "absent" will do.

`MCLogin` declares logins, threads and addresses symmetric and leaves out of the
fingerprint what no guard or property reads: the content of addresses nothing
points to, and by how much an instant that is only compared with the clock has
passed. `login_settles` uses neither. The login and schedule runs switch deadlock
checking off: the clock is bounded, and the host stops asking after success.

Fairness of `LoginSessions`. Time passes. A call in flight is scheduled by the Go
runtime. An exchange ends, because the HTTP client has a timeout
(`oauth.go:87-96`) — an answer or a failure; the weak fairness is on the answers.
The host keeps polling each login it was not told the end of: strong, because its
threads may be busy whenever one of them could begin. Nothing is assumed of the
user: a login nobody approves ends by its deadline.

Fairness of `PluginCalls`: the Go runtime runs a call that is not waiting
(`StoreWord`, `ReadWord`), and a request with a timeout ends by it (`Timeout`).
Answers, failures of the network and the host are not assumed to come.

Every property of a passing run has a slip of the code that breaks it (the
definitions marked *Slip*): a grace period with the wrong sign, a rebuild with a
fresh deadline, a slow_down treated as pending, an interval below the floor, `api_key`
put back into the attributes, a refresh token not carried over, a schedule measured
from now, model IDs compared in their own case, one endpoint of two validated.

## 5. Findings

* `login_resurrected`: polls A and B overlap; A is answered `authorization_pending`,
  the user approves, B succeeds and deletes the session, A puts it back
  (`auth.go:227`). The entry stays until a prune after its expiry.
* `login_slow_down_lost`: two overlapping polls are both told to slow down; both
  compute from the interval read before the exchange (`auth.go:223`, `230`), and
  the next poll comes a step earlier than x.ai asked.
* `refresh_drops_prefix`: `auth.refresh` preserves `using_api`, `base_url` and the
  refresh token, not `prefix` (`auth.go:269-285`).
* `api_route_cli_headers`: `header:*` attributes are set whatever the route
  (`storage.go:148-151`) and applied to the models request (`models.go:192-201`),
  so `using_api` does not remove the CLI identity README.md:143 says it does.
* `models_hang`: the models client has no timeout because "the lifetime is bounded by
  the request context" (`oauth.go:96-97`), and that context is
  `context.Background()` (`models.go:92`).

Two smaller observations have no run of their own.

* `storage.go:239-240` says that without a timestamp the delay is clamped "so the delay
  never exceeds expires_in"; the floor at `storage.go:259-261` makes it 15 s for every
  shorter `expires_in`. `WithinExpiresIn` states the bound the code keeps: `expires_in`,
  or the floor where `expires_in` is less.
* `models.go:275` fills in the owner "xAI" before the catalog is asked
  (`models.go:281-283`), so an owner in the catalog never shows, unlike its names,
  numbers, thinking and modalities (no document says which should win). `Says` states the owner as the code has it.

## 6. Proofs

`LoginSessionsProofs` proves about `LoginSessions`, for every set of logins,
threads and addresses, every clock and every bound. Assumed: the nil session is
no address and no login (`NoneAssumption`); a second has at least one tick, the
pacing constants are naturals and every interval is a whole number of seconds
(`TimeAssumption`), as the `int` seconds of `oauth.go:60-71` are.

* `TypeCorrect`: `[]TypeOK`. Inductive with `Bound`: a call in flight has a login
  and an address, an idle thread has neither.
* `AliasInvariant`: `ExchangesWithinDeadline` is not inductive: an exchange is
  admitted on the expiry of an *object*, and the promise is made to a *login*.
  `AliasInv` joins them: whatever the store or a call points to under a login
  carries that login's code and expires no later than promised. `Start` and
  `PollRebuild` create such objects at free addresses (`StartsAsExpected`: the handler's
  floor and default are what upstream expects and grants); all other steps only move
  pointers (`StepMovesPointers`), which keeps it (`PointersMoveKeeps`).
* `DeadlineKept`: `[]ExchangesWithinDeadline`, from `AliasInv` at `PollAdmit`, the
  only way into an exchange (`StepSentStays`).
* `SingleCredential`: `[]OneCredential`. `TokensInv` adds that whoever has tokens,
  or was given the credential, did so out of a consumed code, and that only one
  of them exists. `AnswerGrant` consumes the code of the *object's* login,
  `PollSucceed` answers for the *call's*; `AliasInv` makes them one.
* `LoginImplementsContract`: `Spec => ImplementsContract`. With `OutcomeInv`
  (tokens are in hand only at the switch), each step is a move of one login, a
  `Lose` (a reload may lose several), or a stutter (`StepNothingSeen`).

`LoginPacingProofs` proves `NeverTooPatient` (`[]NoExcessBackoff`). `BackoffInv` says
of every session in the store or in a call what the property says of the stored ones:
its interval, and its next poll counted from now, are within what upstream asked of
that login; so are the interval a call has computed and the one its metadata carries.
What was asked never shrinks, so an early or lost poll, a rebuild from metadata and
a late save keep it.

`LoginLifetimeProofs` proves `LiveLoginsSurvive` (`LiveSessionsSurvive`). The expiry in
the metadata has lost its fraction of a second, so `LastingInv` gives a second away:
whatever session a login goes by lasts until the promised deadline less a second.
Sessions are pruned and refused on their own expiry, and deleted under the login of
the call, hence only where `MayGiveUp` holds.

`LoginSequentialProofs` proves the three properties that two overlapping polls of one
login break, for hosts that have one poll of a login under way at a time
(`SequentialSpec`; no line of the plugin enforces it, and the runs
`login_slow_down_lost` and `login_resurrected` show what happens without). Threads,
logins and addresses are any number, and polls of different logins overlap freely.

* `ConsumedOnce`: `[]ConsumedOnSuccess`. `ConsumedInv` adds that no call is in flight
  for a login that has succeeded, so nobody is left to put its session back.
* `SlowDownKept`: `[]SlowDownSurvives`, and `PolledWhenDue`: `PacingKept`. Both follow
  from `PaceInv`. It follows one poll through its handler: at the gate the session it
  holds has the interval upstream asked for and is not due before upstream expects
  it, unless it has expired (a session may be rebuilt, with a fresh pacing, only
  after its expiry, and is then refused at the gate); in the exchange, what it has
  read is what upstream asked for; after the answer, what it will write is what
  upstream asks for now. That a session which is gone has expired needs `OutlastInv`
  (`OutlastInvariant`, for any host): no session ends before its metadata says.
  `OthersRest` is the part for several logins: a poll of one leaves the others alone,
  but for pruning an expired session.

`CredentialProofs` proves about `Credential`, for every set of prefixes and any
number of logins, refreshes and edits; assumed is that a prefix may be absent
(`CredentialAssumption`). `FreshBearer` is not inductive: whatever reads the file
makes its tokens the host's, and whatever refreshes starts from a storage that may
be older than both. `CredentialInv` therefore says

* `AnswerInv`: the answer in flight carries an access token the host has not got, and
  the refresh token that will come of it (its own, or the one it left out) is accepted;
* `CopiesInv`: file and metadata hold the token received last and a refresh token
  accepted or lost with an answer, as does the storage copy unless its access token is
  an older one, and the attributes are those of the storage, so
  they hold no token that could shadow the metadata;
* `RouteInv`: the routing half of the metadata is the one of the storage;
* `NameInv`: while `named`, one name, and the auth bears it.

From it follow `CredentialTypes`, `BearerIsFresh`, `CredentialStaysRefreshable`,
`SingleFile`, and, with the lemmas `RouteOfAttributes` and `RouteOfMetadata` on where
a storage leads, `RouteAgreement` and `RefreshMovesNoRoute`. The latter needs that
only `RefreshDone` delivers the answer in flight (`DeliveredByDone`, from `AnswerInv`).

`RefreshScheduleProofs` proves all four properties of `RefreshSchedule` for every
lead, floor, minute, lag and set of lifetimes. Assumed (`ScheduleAssumption`): they are
naturals, a second has at least one tick and is no longer than the floor, and lifetimes
are whole seconds. The invariant adds that the host is never later than `Lag` past the
time it was given, and that this time lies a floor after the last refresh, less the
fraction of a second that truncation takes; `WholeSecondsBounds` and `HalfBounds` say
what the two roundings take, `NextRefreshBounds` what the code grants.

`PluginCallsProofs` proves `CallTypes`, `PrefixIsCurrent` and `EndpointsAreValid` for
any number of threads. Assumed: the empty prefix is one, and so is every value a
configuration line names (`PrefixesAssumption`). `StringInv` says that one thread
writes the prefix at a time, that what it wrote is its own, and that between two
reconfigures both words are the configured prefix; `Sound` what a call relies on:
the words a calm reading has seen are the configured ones, a calm auth was read
before any reconfigure or has a prefix of its own, and whoever uses an endpoint has
a valid document. `Reconfigure` keeps it by ending every calm.

`ListingProofs` proves `ListingFaithful` (`[]FirstListingWins`) and `GapsFilled`
(`[]CatalogFillsGaps`) for lists of any length, any catalog and any `Trim` and `Lower`.
Assumed: an entry of the catalog has every field, as the Go struct has
(`CatalogAssumption`), an answer's list is a list, and levels that were named are not
nil (`PayloadsAssumption`).

* `ListingInvariant`: whatever calls overlap, a list of models at the host is the merge
  of a list that upstream sent (`ListingInv`); each kind of reply has a lemma.
* `MergeIsRight`: the merge has a model for each item that counts, at its place. Shown
  by `MergedUpTo(n)` for each n: the answer after n items holds, in order, the models
  of the items that count among them, and nothing else. The prover has no induction
  over an operator; `InductionUpTo` replaces it, by the least number outside a set
  (`LeastElement`, from the well-foundedness of `<`). The same argument shows that the
  recursive function satisfies its equation (`MergedEquation`), and that among the
  items of one key one comes first (`FirstOfKey`), which is where an item that is not
  yet in the answer turns out to count (`TakenCounts`).
* `ListedSays`: what each model says, whether or not the catalog has its key; its owner
  is the list's or "xAI", never the catalog's.

Only model-checked: `EveryLoginSettles` and `EveryOAuthCallReturns`, because liveness
under fairness is beyond the prover. Every invariant and every action property that a
passing run checks is a theorem, `ConsumedOnSuccess`, `SlowDownSurvives` and
`PacingKept` under `SequentialSpec` as in their run. No module has a recursive operator.

## 7. Not modelled

* The C side of the ABI (`cliproxy_plugin_init`, the memory of the buffers) and
  JSON encoding: no state of the plugin depends on them.
* Two accounts at once: `Credential` follows one, and file names are "has an
  identity" or not, so that two accounts whose names differ in special characters
  only (`storage.go:90-108`) are not seen to share a file.
* A native refresh during a plugin refresh: excluded by the host's assumed order.
* The words of one configuration line (`config.go:33-48`), the entries of
  `catalog.json`, and `discover`'s cache, which no call ever finds filled.
* JWT decoding, labels, error texts, logging, HTTP details: pure text or I/O, by
  result only.
* Overflow: intervals and lifetimes are `int` seconds from x.ai turned into 64-bit
  nanoseconds; values near the limit are taken not to occur.
* Build, packaging and release scripts: no part of the running plugin.
