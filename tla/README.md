# TLA+ models of stream-admin

This directory holds TLA+ models of four parts of the service, with the TLC
configurations that check them:

- the websocket gateway (`src/internal/wsserver/server.go`), which fans NATS
  market data out to subscribed clients;
- start-up (`cmd/main.go`, `setup.SetupApp`, the factories and registries),
  composed with the leader-election loop;
- the worker pool and its two users, admin action logging and contextual
  messages;
- admin authentication and sessions (`service/administrator/auth`,
  `repository/administrator/auth`, the session limiter and the guard
  middleware, the OTP store `caesar/caesar.go`), composed with the superadmin's
  management of the user's row (`service/administrator/users` and its
  repository), as a state machine over the Redis keys and the row they write.

The rest of the service is listed below, with what is planned for it.

## System inventory

| Part | Source | What changes state | Status |
|---|---|---|---|
| Connection handler | `server.go` `handleConnections` (188-272) | capacity check, `sync.Pool` Get/Put, `klients.Store`, write-pump start, read loop, `wg.Wait`, deferred metric send | modelled |
| Request expansion | `handleRequest`, `validateRequest`, `isValidChannel`, `isValidTopic` (311-314, 489-566) | one goroutine per frame; enqueues `SubsRequest`s or writes an error frame | modelled |
| Subscription router | `handleSubRequest` (342-415) | client `bridges`/`subs` maps, NATS subscriptions, relay goroutines, bridge metric | modelled |
| NATS callback and relay | closures in `handleSubRequest` (363-387) | send on the bridge channel; forward to `client.writeCh` | modelled |
| Write pump | `writeToClient` (274-295) | write to the socket; report a failure on `removeClientChan` | modelled |
| Teardown | `removeClientPermanently` (439-487) | hands `subs` to the sweep, deletes entries, closes bridges, deletes from `klients`, closes queues | partly (see below) |
| Sweep | `unsubscribeFromNats` (417-437) | unsubscribes each entry of a subs map, bridge metric | modelled |
| Metrics | `prometheusTotalConnections`, `prometheusTotalBridges` (568-611) | `activeConns`, total bridges | partly (load formula left out) |
| Worker pool | `workers/pool.go` (13-40, 56-58) | bounded task and error queues, workers blocking on a full `ErrorQueue` | modelled (`RunWithTimeout` and `Shutdown` have no caller) |
| Contextual messages, admin logs | `comm/message/message.go` (59-139), `service/administrator/logs/logs.go` (75-146) | submit to the pool, read results from the shared `ErrorQueue`, return early on error or timeout | partly (the listener map and `GetContextualMessage` are not modelled) |
| Start-up wiring | `setup/setup.go`, `factory/*.factory.go`, `registry/*.registry.go`, `prefix/prefix.go`, `router/*.go` | concurrent init goroutines, check-then-create registries, prefix table maps, route mounting | partly |
| Leader loop | `cmd/main.go` (95-148), `factory/administrator.factory.go` (177-188) | election goroutine and leadership watcher on one channel | modelled |
| Outbox | `outbox/outbox.go` | polling, retries, cleanup | not modelled (see below) |
| Admin authentication and sessions | `service/administrator/auth/auth.go`, `repository/administrator/auth/auth.go`, `handler/administrator/auth/auth.go` (logout), `middleware/session.go`, `middleware/guard.go`, `caesar/caesar.go` | OTP, attempt counter, user lock, access and refresh keys, idle timer | modelled |
| Admin users | `service/administrator/users/users.go`, `repository/administrator/users/users.go`, `handler/administrator/user/user.go` | the user's row (create, update, delete, verify) and its `_admin_verify` OTP | modelled (reads and `CreateSuperAdmin` left out, see below) |
| HTTP rate limiter | `middleware/limiter/limiter.go` | `x/time/rate` token buckets | not modelled (library state) |
| Other REST handlers, services, repositories, transports | `handler`, `service`, `repository`, `transport`, `config`, `builders`, `utils` | request-scoped database I/O | not modelled |

### How the gateway's goroutines interact

- `NewServer` starts four long-lived goroutines: the router (`handleSubRequest`),
  the teardown (`removeClientPermanently`), the sweep (`unsubscribeFromNats`) and
  the two metric reporters. They talk through buffered channels: `requestChannel`,
  `removeClientChan`, `natsCleanupChan`, `prometheusConnectionChan` and
  `prometheusBridgeChan`.
- Each upgrade runs `handleConnections`. It takes a `*Client` from a `sync.Pool`
  and starts the write pump. For every decoded frame it starts one
  `handleRequest` goroutine.
- The router subscribes to NATS for each new topic. The NATS library's callback
  sends each message on a per-topic bridge channel. A relay goroutine forwards it
  to the client's `writeCh`, and the write pump writes it.
- A failed write sends the socket to the teardown. The teardown hands the
  client's `subs` map to the sweep and closes the bridge channels.

### The router never releases `s.mu`

This fact shapes the whole model. `handleSubRequest` takes `s.mu` at line 343
and defers the unlock. It then ranges over `requestChannel`, which is never
closed; `server.cancel` is never called either. A teardown needs a failed write,
a write needs a delivered message, and a message needs a subscription from the
router. So by the time any teardown runs, the router holds `s.mu` for good.

Every `s.mu.Lock()` in the teardown therefore blocks for ever:

- with a non-empty subs map, at 453;
- otherwise, at 464.

The `klients.Delete` and the closing of `closeCh` and `writeCh` (464-477) are
never reached. The pump's `closeCh` and closed-channel cases (280-282, 291) are
never taken either.

The model has no lock variable and no actions for these unreachable steps. A
teardown that reaches the lock stays in phase `"locked"`, and the client stays
in the registry for good.

## Modules

- `TopicRequest.tla` holds pure operators for `handleRequest`. A frame
  `{action, topics}` becomes the sequence of steps its goroutine performs
  (`RequestSteps`, via `PairsSteps`, which is RECURSIVE, and `PairSteps`).
  Strings are abstracted: a pair is `Malformed` or a record
  `[ch, asset]`, and case folding is taken as done. The reference is section 4.2
  of the specification (`SpecRejects`, `SpecTopics`).
- `MCTopicRequest.tla` enumerates every frame of up to `MaxPairs` pairs as
  initial states. It checks the code's steps against the reference.
- `WsServer.tla` models the gateway's goroutines. Its state is grouped as
  follows:

  | Group | Variables | Code |
  |---|---|---|
  | Connections | `handler`, `peer`, `objOf`, `frames`, `delivered` | one handler per connection: its program counter, the peer's behaviour, which pooled struct it holds, frames still to read, messages written to its socket |
  | Pooled structs | `gen`, `conn`, `bridges`, `subs`, `pool`, `used`, `klients` | `Client` fields; `gen` counts how often a struct was taken from the pool, so `<<k, gen[k]>>` (an incarnation) names one use of it |
  | Goroutines | `reqs`, `requestQ`, `pump` | `handleRequest` goroutines, `requestChannel`, write pumps |
  | Subscriptions | `nextSub`, `subInc`, `subTopic`, `natsOn`, `inbox`, `cb`, `chClosed`, `relay` | NATS subscriptions, the callback's pending send, bridge channels, relays |
  | Teardown | `removeQ`, `tds`, `cleanupQ`, `sweep` | `removeClientChan`, teardown invocations, `natsCleanupChan`, the sweep's range |
  | Metrics | `connQ`, `activeConns`, `bridgeQ`, `totalBridges` | metric channels and counters |
  | Environment | `published`, `crash`, `mapRace` | messages published; a process abort (panic); a concurrent map iteration and write |

  There is one action per step between two synchronisation points of a
  goroutine. Closures read the pointer fields (`client.conn`,
  `client.writeCh`) when they run, not when they were created. This is why a
  stale goroutine acts on the struct's next incarnation.
  - The `bridges` and `subs` maps are indexed by incarnation, because
    `handleConnections` makes new maps each time the pool hands the struct
    out (228). A map of an earlier incarnation still exists, but only the
    sweep can reach it, and only if it was handed to the sweep
    (`Reachable`).
  - The goroutines of `handleRequest` and of the write pump read the
    variable `clientA` when they start (`ReqStart`, `PumpStart`), not when
    the `go` statement runs (265-268, 238-241). Once the handler has
    returned, its deferred `clientA = &Client{}` (218-220) has run, and a
    late goroutine gets that blank struct (`Blank`). For a request goroutine,
    an error frame on its nil conn panics (`ReqErrorNilConn`), and so does a
    SUBSCRIBE, by writing its nil `bridges` map (`RouterSubscribeNilMap`).
    A late pump blocks for ever on two nil channels.
  - A panic sets `crash`, and every action is guarded by `Running`.
- `MCWsServer.tla` instantiates `WsServer` for TLC, with model values for
  connections and structs and the topic set from `TopicRequest`.
- `Startup.tla` models start-up.
  - `main` makes `config.IsLeader` (capacity 1), sends `false`, and starts the
    election goroutine. `SetupApp` then starts one goroutine per init function
    and waits for all of them.
  - Each init function is the sequence of `Register*` calls its factory makes
    (`AdminSteps`, `AuthSteps`, ..., collected in `Calls`). A registry field is
    a boolean in `slot`.
  - A repository registration is two steps, because the constructor between
    the nil check and the assignment writes the unsynchronised
    `PrefixService` maps:
    - `RepoBuild` enters the constructor (`writers` holds the goroutines
      inside `RegisterServiceTables`). The auth repository captures
      `f.contextMessages` here (`authCtx`).
    - `RepoAssign` stores the repository, after which the policy registry's
      check of the logs slot may end in `logger.Fatal`.
    - `RepoFound` returns an existing repository.
  - Service and handler registrations are one step each, because no other
    goroutine reads those slots before `wg.Wait` returns.
  - `RouterUp` is `wg.Wait` plus the router: a route group is mounted when its
    handler slot is set.
  - The election goroutine is `ElectRecv`, `Campaign`, `ElectSend` and
    `Refresh`. The watcher that `NewAdminServiceFactory` starts is
    `WatcherRecv`. `IdleTimeout` is the auth repository's idle-session timer.
  - An abort sets `crash`; two overlapping map writes may or may not be
    detected by the runtime, and the model takes both.
- `MCStartup.tla` names the sets of init functions the runs use.
- `WorkerPool.tla` models one pool per service (`"logs"`, `"msgs"`) of `N`
  workers, whose task queue and `ErrorQueue` both have capacity `N`.
  - The workers are identical goroutines, so they are counted: `busy[p]`
    counts those past a task's context check, and `held[p]` counts those
    blocked sending each kind of result. The rest wait on the task queue.
  - A call (`LogActionCall`, `SetMessageCall`) submits its tasks (`Submit`,
    blocking while the queue is full), then reads results (`ReadResult`) until
    it has read all of them, read an error, or timed out (`TimeoutReturn`).
  - A task records the call `<<c, n>>` it belongs to. `WorkerRun` takes it
    and runs the closure's `select`. When that call's context is done
    (`CtxDone`: timed out, or cancelled by the call's deferred `cancel()`),
    the task returns an error without working. Otherwise it goes on to the
    `default` case. `WorkerWrite` is that case: `a.mutex.Lock`, then
    `repo.Create`, `SendToNats` or the Redis SET (logs.go:113-127,
    message.go:84-114). The first two ignore the context, so a write can
    land after its call has returned.
  - `MaxCalls[c]` bounds the calls each caller makes.
  - Results carry no owner: a call reads whatever result is at the head of the
    queue.
- `MCWorkerPool.tla` declares the caller model values.
- `AuthSession.tla` models one admin user's session: the Redis keys
  (`otp`, `attempts`, `locked`, `access`, `refresh`), the repository's idle
  timer (`armed`, and `cbs`, which counts running callbacks by step), and one
  request in flight per browser tab (`req[t]`, with a program counter `pc`).
  - Every Redis round trip is an action of its own, because other tabs,
    callbacks and key expiries run between them: `LimitRead` (GET
    `otp-attempts`), `LimitWrite` (SET it, or SET `user-lock`), `OtpGet`,
    `OtpDel`, `GenerateRefreshToken`, `GenerateAccessToken` (SET access plus
    `resetUserTimer`), `RefreshCheck`, `LogoutGuard`, `SignOutCheck`,
    `RevokeAccess`, `RevokeRefresh`. `Login` and `InitiateOTP` store an OTP;
    `Activity` is the guard on any other request, which restarts the timer.
  - A token is an issue number (`issued` counts `GenerateAccessToken` calls),
    paired with the tab's User-Agent. An OTP is a member of `Codes` plus the
    number of the `SignIn` that stored it.
  - An error returned after a step that changed state is `RequestFails`: the
    tab's request ends there, and what was written stays written. Failures
    before any write change nothing and are left out as stuttering steps.
  - A fired timer's callback is `CbMessage`, `CbRevokeAccess`,
    `CbRevokeRefresh`, or `CbFails` when a DEL errs (the callback drops the
    error). `Stop` in `resetUserTimer` cannot stop a callback already
    running, so `ResetUserTimer` only re-arms.
  - Redis TTLs are actions that may fire whenever the key exists
    (`AccessExpires`, ..., `LockExpires`).
  - The ghost variable `passed` counts the requests the limiter let
    through in the current window of `otp-attempts`.
  - Superadmin requests (`Supers`) share `req` with the tabs. `CreateUser`
    creates the row with the status the request gives, then `CreateOtp`
    stores the `_admin_verify` code (`votp`). `UpdateUser` writes a status,
    since validation requires one, and `DeleteUser` marks the row `"deleted"`.
    A verification passes the same `LimitRead` and `LimitWrite` on the same
    attempt key, then `AdminOtpGet`, `AdminOtpDel` and `AdminVerifyUpdate`.
    A database lookup and the write after it are one step, because only
    superadmin requests write the row.
  - The row (`row`) is the status only. `Login` requires `"verified"`, as
    `SignIn` does. The `/verify` handler's and `RefreshToken`'s lookups
    (`AfterLimit`, the refresh branch of `RevokeRefresh`) only require that a
    row exists, as the code does.
- `MCAuthSession.tla` declares the tab, superadmin and code model values.

## Runs

The shared bounds are:

- at most 2 subscriptions (`MaxSubs`);
- one topic (`trades.BTC`) plus a malformed pair;
- up to 3 frames;
- up to 2 publishes.

Each hazard below needs at most two connections, one struct reused by both, and
two or three requests. These bounds reach every such case.

| Run | Checks | Result |
|---|---|---|
| `topic_request` | `RejectsAndAcceptsPerSpec`: the code rejects exactly the pairs spec 4.2 rejects, and enqueues every topic it derives | pass, 1389 states |
| `pooled_clients` | `TypeOK`, `SubscribeIdempotent`; two connections sharing one struct, invalid and rejected frames, late request and pump goroutines, symmetry on connections | pass |
| `foreign_delivery` | `NoForeignDelivery` | violation: the struct is Put (231) while a stale SUBSCRIBE is in flight |
| `send_on_closed` | `NoSendOnClosedChannel` | violation: `close(ch)` (402) lands while the callback is sending |
| `upstream_leak` | `UpstreamTracked`: every live NATS subscription is in a subs map that an UNSUBSCRIBE or the sweep can still reach | violation: a connection subscribes and its peer closes. The read loop returns (248) without a teardown, and the next connection that gets the struct replaces `subs` (228). The subscription is never unsubscribed, against the teardown and sweep of spec sections 4.6 and 4.7 |
| `startup` | `LeaderOnlyAfterWin` (action property); init functions admin, auth, adminUsers, ctx, logs; one failed `BecomeLeader` | pass |
| `process_aborts` | `ProcessNeverAborts`; init functions admin, auth, ctx, logs, policy | violation: two repository constructors write the prefix maps at once (prefix.go:54). The same state space also reaches the policy registry's `logger.Fatal` (repos.registry.go:243) and the nil context-message service in the idle timer (auth.go:273) |
| `leader_elected` | `LeaderEventuallyKnown` (liveness) | violation: the watcher takes the `false` the election loop sent itself after a failed campaign, and the loop blocks at main.go:118 for ever |
| `worker_pool` | `TypeOK`, `CallsReturn` (liveness); one `LogAction` caller making three calls, one idle-timer caller making one, N = 2 | pass |
| `log_wedge` | `CallsReturn` (liveness); two `LogAction` callers, N = 2, three calls each | violation: results abandoned by early returns fill the `ErrorQueue`, workers block at pool.go:35, and `Submit` (pool.go:57) blocks the request for ever |
| `otp_attempts_race` | `AttemptsLimited`; two tabs, `OTPCodesMaxTry` = 1 | violation: both tabs GET `otp-attempts` (session.go:130) before either SETs it (153), so two attempts pass a limit of one |
| `unverified_login` | `OnlyVerifiedGetTokens` (action property); one tab, one superadmin request | violation: the superadmin creates the user as pending, and a `/verify` with `999900` gets a token pair; only `SignIn` reads the status |

`SubscribeIdempotent` is checked against a router without the `bridges`
check, in which the second SUBSCRIBE opens a second upstream subscription.

`TypeOK` is checked against a pump that sends its client instead of its socket.

The start-up and pool properties have mutants of their own:

| Property | Mutant | Effect |
|---|---|---|
| `LeaderOnlyAfterWin` | an election loop that sends `true` after a failed campaign | the service believes it leads without having won |
| `TypeOK` (pool) | an unbounded task queue | the queue exceeds its capacity |
| `CallsReturn` | an `ErrorQueue` with one slot fewer than the workers | the third call's `Submit` blocks for ever |

`CallsReturn` holds for one caller per pool with three calls: each call
reads its predecessor's leftover results before the queues fill. A fourth
call, or a second caller (`log_wedge`), wedges the pool.

A waiting call always returns, even with no deadline: every task yields one
result, and no call reads more results than it submitted. So the hang is not
in the read loop. It is in `Submit`, which the deadline does not cover.

Eight earlier violation runs were retired so that the project stays within 12
runs:

- `ConnGaugeExact`: rejected upgrades decrement the gauge.
- `SingleWriter`: two error frames are written to one socket at once.
- `NoDoubleClose`: a bridge channel is closed twice.
- `HandlerReturns`: the handler waits on a pump that never exits.
- `EnqueuesOnlySpecTopics`: `all@<asset>` also enqueues `all.<asset>`.
- `ConnectionCeiling`: the capacity check at 212 reads a counter that is
  updated asynchronously, so more connections than the ceiling are served.
- `NoConcurrentMapAccess`: the sweep ranges over a subs map (425) while the
  router deletes from it. `process_aborts` still shows this class of crash.
- `TeardownFinishes`: a teardown blocks on `s.mu` (343/453) for ever; the
  argument is given above.

Their behaviours are still in the models. They are listed as hazards in
PROJECT.json, each with a note.

Some passing properties were dropped because they could not fail:

- `RoutesComplete` and `StartupFinishes` restated `RouterUp`'s guard and the
  fairness of the init steps.
- `NoWorkAfterCallOver` held only while the model made a task's context
  check and its write one step. The code writes after the check without the
  context (logs.go:113-127), so the claim is false there. It is a hazard in
  PROJECT.json with a note.
- The single-tab `auth_session` run checked `SessionStoreRefined` (the
  token keys implement an abstract session store) and `OtpSingleUse`. With
  one tab the token and OTP writers are sequential, so neither can fail, and
  two tabs violate both (see below). The run was retired, and the
  `SessionStore` module with it.

## Fairness

Every server goroutine gets weak fairness: each handler, each pump, each
request goroutine, the router, each callback, each relay, the teardown, the
sweep and both reporters. The Go scheduler runs a runnable goroutine
eventually, so this is justified.

Clients, the network (`PeerClose`, `ReadFrame`, `ReadInvalid`) and the NATS bus
(`Publish`) get no fairness. The liveness violations therefore do not come from
an idle environment; they come from server goroutines that wait for ever.

In `Startup`, every init goroutine, `main`'s wait, the election goroutine and
the watcher are weakly fair. The idle-session timeout belongs to the environment
(an admin must stay idle), so it has no fairness. `BecomeLeader` returns
eventually, and whether it succeeds is a nondeterministic choice. Failures are
bounded by `MaxFailures`.

In `WorkerPool`, every caller, every worker kind and every started timer
(`Expire`) is weakly fair: a context deadline passes whatever the goroutines do.
When a new call starts is left to the clients.

`AuthSession` has no fairness and no liveness property. Every step is a
request of the admin's browser, a timer that the admin's activity may keep
re-arming, or a TTL: none of them is owed to happen. The one liveness claim
worth making, that an idle session ends, would rest on the TTL actions
alone, which is no claim about the code.

`CHECK_DEADLOCK FALSE` is set because a gateway with no input is meant to idle.
The same holds for a started service waiting for requests, and for a pool with
no callers.
Symmetry on connections is used only in safety-only runs.

## Not modelled, and the plan

- **Teardown after its first `s.mu.Lock()`.** It is unreachable, as argued above.
- **The bridge gauge.** An UNSUBSCRIBE of an untracked topic sends -1 (408),
  and the gauge then freezes (596). The `BridgeGauge` action models this, but no
  run checks it.
- **Queue capacities.** Capacities of 1000 and 100 are never reached within the
  bounds, so the model's queues are unbounded. The hazard is recorded in
  PROJECT.json.
- **Load formula.** The load-pressure formula in `prometheusTotalConnections` is
  floating-point reporting.
- **Start-up bounds.** Each run uses at most five of the eleven init functions.
  The rest (roles, orders, transactions, users, assets) follow the same pattern:
  one repository that writes the prefix maps, one service and one handler. They
  add interleavings of the same map-write race and nothing new.
- **Duplicate repositories.** Auth and adminUsers can both build the admin
  users repository. The model shows the overlap, but not its consequences: two
  outbox goroutines, and services holding different instances.
- **Misattributed results.** A call can read another call's result from the
  shared `ErrorQueue`. No run checks this yet; a violation run for it would
  exceed the run budget.
- **Outbox.** `publishMessage` always returns nil (outbox.go:120-124), so the
  retry path `handleFailure` cannot run. `CreateMessage` has no caller. What is
  left is a ticker that marks every pending message published, with nothing
  concurrent to check.
- **Two tabs.** The two auth runs that are kept are the violations
  `otp_attempts_race` (two tabs) and `unverified_login` (one tab and a
  superadmin). Two tabs break two more claims, and the run budget has no
  room for them:
  - Two `/verify` requests with one code both GET the OTP before either DELs
    it (service auth.go:76-94), so the code logs in twice.
  - A failed second SET in `GenerateAccessToken` leaves a mismatched pair
    (repository auth.go:121).
- **The idle callback that already fired.** `resetUserTimer` ignores the
  result of `timer.Stop()` (repository auth.go:265). A callback that has
  fired is still in `SetContextualMessage`, and it goes on to
  `RevokeTokens` (286) after a guarded request has re-armed the timer, or
  after a new login. The model reaches this in 10 steps: login,
  `TimerFires`, `Activity`, then `CbRevokeAccess` deletes a session in use.
  A violation run for it would be a thirteenth run, so the hazard is in
  PROJECT.json with a note.
- **Concurrent logins of one user.** The repository mutex covers only
  `GenerateRefreshToken`; the SET of `access_token` comes after the unlock
  (repository auth.go:121). With two tabs, TLC reaches this in a trace of 8
  states: both tabs sign a pair, and the older access token is stored after
  the newer refresh token, so neither tab holds a working pair. No run slot
  is left for a two-tab violation run. The hazard is in PROJECT.json.
- **The bypass code.** `VerifyOTPAndLogin` accepts `999900` for any user
  (service auth.go:83); the model includes it as `Bypass`, and it skips the
  OTP GET and DEL. `unverified_login` shows what follows.
- **Admin-user hazards without a run.** `VerifyAdminUser` writes back the
  whole row it read before two Redis round trips (users.go:153), so it undoes
  a superadmin update made in between; the model's row is only a status, so
  the reverted pause is reachable but the role is not modelled. A failed SMS
  call in `CreateAdminUser` leaves a pending user with no code (95).
  `DeleteAdminUser` leaves the user's Redis keys and timer in place (repository
  users.go:258). All three are in PROJECT.json with notes.
- **Admin-user reads.** `GetAdminUsers` only reads.
  `GetAdminActiveUsersVPNAddresses` and its cache are used only by
  `IPAllowedMiddleware`, which no route mounts. `CreateSuperAdmin` runs once,
  from the unguarded `/superadmin` route. A username whose row was deleted and
  created again has a new `UserID`, and so other Redis keys; the model's row
  is never re-created.
- **Password reset** has no route, and **`Shutdown`/`RunWithTimeout`** of the
  pool have no caller.
- **Rate limiter.** `middleware/limiter` keeps its state in `x/time/rate`
  buckets, a library the model would have to restate rather than translate.
- **`utils/utils.go`.** Its helpers are string, IP and map formatting,
  CORS headers and gin error responses: per-character data conversion with
  no state and no concurrency. A model would restate Go's `strings` package
  and check nothing a unit test does not.
- **Policy and role repositories.** Their check-then-create races end in
  the database's unique constraints on `title` and `role_name`. One hazard
  remains: `UpdateAdminRolePolicy` reads the policy (policy roles.go:104) and
  then runs `Updates` (111). A delete in between makes the update touch no
  row, gorm reports no error, and the handler answers with the stale policy.
  It would need a module and a run of its own, and the hazard list in
  PROJECT.json is full, so it is recorded here only.
- **User details.** `GetUserDetailsBuilder` is the one fan-out of goroutines
  among the REST repositories. Its service method and route are commented
  out (service users.go:103, router services.go:67), so no request reaches it.
- **Contextual message reads.** The guard's `GetContextualMessage` (guard.go:74)
  only picks the wording of a 401, and the listener map has no caller.
- **Role authorization.** `AuthorizeRole` (middleware roles.go:59-107)
  compares fixed strings: every access token carries the role name
  `superAdmin` (repository auth.go:89), and the seeded role is named
  `SuperAdmin` (repository users.go:128). Whether a request passes depends
  only on these constants and the roles table, not on an interleaving, so it
  is left to unit tests. The policy roles repository is plain CRUD on that
  table.
- **Later sittings, in order:**
  1. An abstract subscription specification (a set of client and topic pairs
     with fan-out). `WsServer` would be shown to refine it under a fixed router
     where the pool reuse is removed, with the abstract spec as a PROPERTY.
  2. Two-tab auth violation runs (OTP reuse, concurrent logins), if run
     slots are freed. An abstract session store refined by `AuthSession`
     is worth reinstating only with those runs.
