# Verification of go-user-system

TLA+ modules, TLC configurations and TLAPS proofs for go-user-system: accounts,
login sessions with rotating refresh tokens, revocable access tokens, a login
rate limit and role-based permissions, served by one or more replicas over MySQL
and, optionally, Redis; the process that serves them and its configuration; and
the browser client that keeps a session alive.

## 1. The system

| Component | State | Operations | Interacts with |
|---|---|---|---|
| Login sessions (`internal/service/auth.go`, `user.go`, `internal/handler/user_handler.go`, `internal/repository/refresh_token.go`) | tables `users` (status, `auth_version`, password hash) and `refresh_tokens` (jti, family, revoked reason, successor) | login, refresh (rotate or detect a replay), logout, validate an access token, change the password, disable | MySQL transactions and row locks; the state store |
| Access tokens (`internal/auth/token_manager.go`, `internal/middleware/auth_middleware.go`) | none of their own: signed claims with an expiry | issue, parse, revoke, look up | clock; state store |
| State store (`internal/authstate`) | revoked access tokens; failure counters per account and address | revoke, look up, check limit, record failure, reset | called from every request; in memory, or Redis shared by the replicas |
| Login rate limit (`LoginHandler`, `AuthService`) | the store's counters | check, record, reset around the password check | state store |
| Accounts and roles (`internal/service/rbac.go`, `bootstrap.go`, `user.go`, `internal/repository/rbac.go`) | `users`, `roles`, `user_roles` | register, bootstrap-admin, replace roles, check a permission | MySQL transactions and row locks |
| Profile (`user.go`) | `users.nickname` | read, update | |
| Browser client (`frontend/src/api`, `app`, `components/auth`, `pages/auth`) | access token and status in the Redux store of a tab, refresh token in an HttpOnly cookie all tabs share, one pending refresh per tab | restore the session, call with one retry after 401, refresh under a Web Lock, login, logout | the HTTP API; other tabs |
| Process (`cmd/main.go`, `internal/handler/health_handler.go`, `pkg/database`, `pkg/redisclient`) | handles, deferred calls, listener, signal and error channels | start, serve, shut down, migrate, bootstrap, readiness | signals, database, Redis |
| HTTP wrapping (`internal/observability/metrics.go`, `internal/middleware`, `router`) | request counter, in-flight and readiness gauges | count, time out, recover, route | every request |
| Configuration (`config/config.go`) | configuration record | find the file, override from the environment, default, validate | start-up |

The hard behaviour is concurrency: requests of one user, in any number of
replicas, meet on the same rows; a handler is several database statements and
store calls, and the client may repeat a token it has already used. Then time:
tokens, revocations and counting windows run out by clocks that nobody stops
while a request is between two calls. And failure: any statement or call can
fail, a remote store may have acted without the caller learning of it, an answer
may never reach the browser, and the process may be killed and started again.
`PROJECT.json` lists these hazards with the lines where they bite.

What makes each component correct:

* sessions: a refresh token is exchanged at most once; a family has at most one
  usable token; a replay ends the family and stays recorded; a password change
  ends every session; nothing waits for ever;
* access tokens: a revoked token is refused for as long as it would be valid;
* store: memory and Redis are interchangeable, no entry outlives its time in
  effect and none is kept for ever;
* rate limit: the limit can be overrun only by attempts already under way, and a
  lockout lasts as long as configured;
* roles: one of racing bootstraps wins, no account without a role, a replacement is all or
  nothing, an answer about one's permissions lists only what one had;
* browser: the tabs do not spend a token twice, a logout lasts, no page waits for
  ever;
* process: what serves is configured, what was opened is closed, a confirmed
  logout outlives a restart in production, shutdown ends, the metrics are true.

## 2. Modules

**`AuthSessions`** models the sessions. `users` and `rows` are the tables,
`claims` the signed contents of a token pair, `revoked` the access tokens in the
state store, `userLock` and `tokenLock` InnoDB's row locks, `req` the requests
with their program counters. A request takes one step per database statement that
another request can tell apart:

| Code | Actions |
|---|---|
| `UserService.Login`, `LoginHandler`, `StoreRefreshToken` | `Login`, `LoginTouch`, `LoginStore` |
| `AuthMiddleware`, `ValidateAccessToken` | `AccessBegin`, `ValidateUser`, `ValidateStore` |
| `UpdateUserPassword` | `PasswordLock`, `PasswordCommit` |
| `RefreshTokenHandler`, `RotateRefreshToken` | `RefreshBegin`, `RefreshLockUser`, `RefreshLockToken`, then `RefreshRotate` or `RefreshReplay` |
| `LogoutHandler`, `RevokeAccessToken`, `RevokeRefreshToken` | `LogoutBegin`, `LogoutAccess`, `LogoutLockToken`, `LogoutCommit` |
| errors, timeouts, cancelled contexts | `Fail` |
| `dao.UserDisabled`, the clock | `UserDisabled`, `Expire` |

The writes of a transaction happen in its commit step; the reads before it are
locking reads, which see the latest committed rows whatever the isolation level.
Row locks stand for InnoDB's; a bulk update waits until nobody else holds a row
it touches. Gap locks on `refresh_tokens` are left out: they only delay. Expired
is a state of a row (`lapsed`), reached at any time.

**`Sessions`** is what a client may rely on, without requests, locks and rows:
open, exchange, close, change password, disable. `AuthSessions` refines it, a
family being a session and its unrevoked tokens the usable ones
(`ImplementsSessions`).

**`StoreKeys`**, **`AuthState`**, **`MemoryStore`**, **`RedisStore`**: the
`authstate.Store` interface and its implementations. `AuthState` is the contract:
atomic operations on revocations and fixed windows that are forgotten when their
time has passed, with an error whose effect is unknown. `MemoryStore` keeps
entries in its maps until the key is used again; `RedisStore` has keys with a
time to live, `MULTI`/`EXEC` pipelines, replies that get lost, and a `PTTL` that
may read 0 in the last instant of a key. Both are shown to implement `AuthState`.
Time advances in units of one second, the value `positiveTTL` falls back to.

**`LoginLimiter`** is `LoginHandler` over `AuthState`: `Check`, `Credentials`,
then `RecordFailure` or `ResetFailures`, with any number of attempts overlapping.

**`AccessRevocation`** follows one access token against the clock, over
`AuthState`: `Issue`, the two halves of `RevokeAccessToken` (`TimeLeft`,
`StoreRevocation`), and the two halves of the middleware (`Parse`, `Lookup`).

**`Rbac`** models registration, `bootstrap-admin` and role replacement on
`users`, `roles` and `user_roles`. A `DELETE` that finds no row locks a gap, which
several transactions can share and which the others' inserts wait for; there are
no foreign keys. `ListUserRoleCodes` and `ListUserPermissionCodes` are the two
reads of `GetUserAuthorization`; `RolePermissions` is `role_permissions`, which
only migrations write.

**`BrowserClient`** extends `Sessions`, the contract `AuthSessions` is proved to
implement: a request of the browser that reaches the backend takes a step of
`Sessions`. Around it are the tabs of one browser (`tab`: session slice, calls,
pending refresh, login and logout), the cookie, the Web Lock and the requests
whose page is gone (`orphans`). The cookie is attached when a request is sent and
replaced when its answer is read, so that everything may happen in between.

| Code | Actions |
|---|---|
| `refresh-coordinator.ts`, `performRefresh` | `RefreshSend`, `RefreshServed`, then `RefreshGranted` or `RefreshRefused` |
| `RefreshTokenHandler` as the browser sees it | `Exchanged`, `Replayed`, `Refusal`, `NotGranted`: which refusal clears the cookie |
| interceptors of `client.ts` | `CallBegin`, `CallUnauthorized`, `CallEnds` |
| `AuthBootstrap` | `NewPage`, `Succeeded`, `Failed` |
| login page | `LoginServed`, `LoginGranted`, `LoginFails`, `Failed` (leaves again when the authorization cannot be loaded) |
| navbar's `handleLogout`, `LogoutHandler` | `LogoutSend`, `LogoutServed`, `LogoutDone`, `LogoutFails` |
| reloads, closed tabs, other devices | `Reload`, `OrphanServed`, `EndedElsewhere` |

Tokens that were never issued are interchangeable, so the next one is chosen
(`Fresh`). The browser starts as one does that was closed the day before: with
the cookie of a session and pages that restore it.

**`Config`** holds `config.go` as operators: `findFileUpward`,
`applyEnvOverrides`, `applyDefaults`, `Validate`, `Load` (`Loaded`, `Loads`), and
what start-up makes of the result: token lifetimes with Go's wrap-around
(`accessTTL`, `refreshTTL`, `NewTokenManagerWithTTL`) and data source names. Texts
are reduced to the cases the code tells apart (empty, blank, padded, other letter
case, too short, not a number).

**`ServerLifecycle`** is the process over `Config`.

| Code | Actions |
|---|---|
| `main`, `LoadEnv`, `runMigrateUp`, `runBootstrapAdmin` | `Main`, `LoadEnv`, `BootstrapEnv`, `OpenMigrationDB`, `Command` |
| `run` up to serving | `LoadConfig`, `InitDB`, `NewTokenManager`, `NewAuthStateStore` |
| the goroutine in `ListenAndServe`, the `select`, `Shutdown`, deferred calls | `Listen`, `ListenFails`, `Signal`, `ServerRunFailed`, `BeginShutdown`, `Shutdown`, `RunDeferred`, `Exit` |
| `Metrics.HTTPHandler`, `TimeoutHandler`, `Recovery` | `Arrive`, `Answer`, `Timeout`, `Discard`, `Count`; `Work` for what any handler that fails or panics does, `Logout` for one that succeeds |
| `ReadyzHandler`, `failReadiness` | `PingDatabase`, `PingStore`, `FailReadiness`, `RecordReady` |
| crash, restart, MySQL and Redis | `Kill`, `Restart`, `DependencyChanges` |

`http.TimeoutHandler` leaves the handler's goroutine behind when it answers
itself: a request has a client side and a job that end separately.

The `MC...` modules hold symmetry sets, files and environments, and, for
liveness, an initial state; `MCStores` joins the two stores in one instance, of which
the configuration chooses one (`kind`). `..._proofs` modules hold theorems.

## 3. Runs

| Run | Bounds | Shows |
|---|---|---|
| `sessions` | 1 user, 2 passwords, 3 token pairs, 2 requests, 2 values of `auth_version` | `TypeOK`, `SingleUse`, `OneLivePerFamily`, `ReplayEndsFamily`, `AcceptedWasValid`, `RotationIsCurrent`, `RevocationIsFinal`, `ImplementsSessions` |
| `sessions_live` | as `sessions`, from a session that was refreshed once | `EveryRequestEnds` |
| `sessions_logout` | 2 token pairs | violation: see section 6 |
| `stores` | 2 accounts, 1 address, 1 token, window 2, 4 time units, either store | `ImplementsAuthState` and `EveryKeyExpires` for Redis, `MemoryImplementsAuthState` for the memory store |
| `login_limiter` | 3 attempts, 2 accounts, 1 address, limits 2 and 3 | `BoundedOverrun`, `FixedWindow` |
| `access_revocation` | 2 tokens of lifetime 3, 2 requests, leeway 1, 6 time units | `RevokedUntilExpiry`, `LoggedOutIsStored` |
| `access_leeway` | 1 token | violation |
| `rbac` | 2 names, 3 ids, 2 requests | `TypeOK`, `OneBootstrapPerVacancy`, `AccountsKeepRoles`, `RolesAsRequested`, `AuthorizationWasTrue` |
| `rbac_register`, `rbac_bootstrap` | 2 names, 2 ids | violations |
| `server` | 10 files, 12 environments, 2 directories, 1 request of the readiness probe and 1 of any client, to any path, at a time, `Half` 2^17, `Minute` 4 | `TypeOK`, `ServingIsConfigured`, `LogoutSurvivesRestart`, `ResourcesReleased`, `CutIsReported`, `CountedOnce`, `ShutdownEnds`, `ReadinessConverges` |
| `browser` | 2 tabs, 3 tokens, 1 kind of call, 1 reload or session ended elsewhere, Web Locks | `BrowserTypeOK`, `ReplayOnlyAfterLoss`, `LoggedOutStaysOut`, `PageGoesOn` |

The bounds are chosen so that the case each property is about happens: three
token pairs let a token be exchanged, replayed and raced by another exchange; two
versions let a password change invalidate one; the limiter's limits are reached
while other attempts are under way, within a window and after it; the store's
counters pass their limits and their windows end and open again; three ids
leave one to be assigned roles before it exists. The files and environments of
`server` are the shipped ones and the deviations that decide something: an
unknown environment, blanks, other letter case, a short and a padded secret,
numbers that are 0, negative or do not parse, production with and without Redis
and secure cookies; and, with `Half` and `Minute` scaled down, numbers of minutes
and hours that wrap around to a negative lifetime. Two tabs and three tokens
let one tab exchange a token while the other holds, waits for or has lost the one
before, and log in again afterwards. `MaxVersion`, `MaxTime`, `MaxTTL`,
`MaxFailures`, `MaxId`, `MaxFound` and `MaxEvents` name the bounds. Requests are
reused without limit, so the number of requests bounds concurrency only.
Requests, tokens, passwords, users, attempts and names are used only through
equality, so symmetry over them is sound for the safety runs; the liveness
runs use none. Every run but `browser` checks for deadlock as well: a browser whose
users do nothing more, or for which the tokens of the instance have run out, may
stop.

Each property has a mutant in `PROJECT.json`: a version of one action with a
plausible bug (`FOR UPDATE` missing, a condition dropped from an update, a lock
not released, an error ignored) under which TLC refutes the property. The mutated
operator stands next to the one it replaces.

**Fairness.** `EveryRequestEnds` assumes strong fairness of every request's own
steps. The Go scheduler runs every runnable goroutine, and InnoDB hands a lock to
its waiters in turn, so a request that is able to take its lock again and again
finally takes it. Failing and beginning are not assumed to happen, so requests
must end without the help of timeouts: the lock order, user row before token
rows, is what the run tests.

`ServerLifecycle` assumes that the goroutine of `run` goes on once it is to stop,
that the readiness probe of the deployment asks `/readyz` again and again, and that
its check, whose two pings take the request's context, goes on. Nothing is assumed of
other requests: `ShutdownEnds` holds although they may take for ever, by the deadline
of `Shutdown`, and `ReadinessConverges` although a check asked for by anybody else
may overlap with the probe's and report, much later, what it found before an outage.

`BrowserClient` assumes that a refresh or a call that was sent is answered or
fails, since the backend bounds its handlers by a timeout and a browser reports a
broken connection; and that a tab which waits for a Web Lock gets it when it
stays free. Nothing is assumed of users, of logins and logouts, or of requests
succeeding. `PageGoesOn` needs that the lock of a page goes with the page, and
that a refusal clears the session.

## 4. Proofs

`AuthSessions_proofs` proves, for any sets of users, passwords, tokens and
requests and any bound on versions, that `IInv` is invariant (`Invariance`), and
from it `TypeCorrect`, `SingleUseCorrect`, `OneLiveCorrect`, `ReplayCorrect`,
`RotationCorrect` (`[]`-action property `RotationIsCurrent`) and
`RevocationCorrect` (`RevocationIsFinal`). The assumption is
`ConstantsAssumption`: `None` is none of the other values, and `MaxVersion` is
positive.

`SingleUse` and `OneLivePerFamily` are not inductive: that a rotation meets a
live token follows from what the request learned when it locked the row. `IInv`
adds `TableOK` (a row's family is opened by a token in the table, with the same
user and claims), `LocalsOK` (what a transaction read under a lock is still true,
in particular that the token it is about to rotate is live and its user current),
`NextOK` (a generated identifier is nobody else's and not in the table) and
`LocksOK` (a transaction holds the locks it took). The proof has one lemma per
action and, under it, one step per conjunct the action can disturb. TLC
confirms `IInv` on the instance of `sessions`, and that of `LoginLimiter` on its
own.

The same module builds on it: `RefinementCorrect` proves
`Spec => ImplementsSessions` for every value of the constants, in particular for
any number of users, whose sessions do not touch each other. `LoginStore` opens a
session, `RefreshRotate` exchanges its token, `RefreshReplay` and `LogoutCommit`
close it, `PasswordCommit` closes all of the user's and raises the version,
`UserDisabled` disables; every other step leaves the sessions as they are, the
expiry of a row and a logout that finds its token revoked included. One lemma per
kind of step shows it, over lemmas about how the mapped session of a family
follows from its rows. `AcceptedCorrect` proves `AcceptedWasValid`. Both need
`VInv`, a second inductive invariant: no token and no login carries a version its
account has not reached (otherwise a password change could make a stale token
current), and, between the two reads of `ValidateAccessToken`, a token that would
pass the next read was valid on arrival. `VInv` rests on `Monotone`: versions only
grow, a disabled account stays disabled, revocations and claims stay.

`LoginLimiter_proofs` proves `OverrunCorrect`: for any limits, window and
accounts and any finite set of attempts, a counter stays below its limit plus the
number of attempts. The strengthening is `OverrunIsPending`: once a limit is
reached, the failures still to come are among the attempts past the check, and
those plus the counter stay below the bound, since the attempt that reached the
limit is no longer pending. `WindowCorrect` proves the action property
`FixedWindow` from the lemma `CounterStep`: the account's and the address's
counter are different keys, so a step leaves a counter, closes it, or counts one
failure more.

`AccessRevocation_proofs` proves `StoredCorrect` (`LoggedOutIsStored`) and
`RevokedCorrect` (`RevokedUntilExpiry`), from `LifetimeAssumption` and the
assumption on the store's constants. `LoggedOutIsStored` is not inductive, because
the time left is computed in one step and stored in a later one. `IInv` adds
`IssuedOK` (the token of a request or of a logout was issued, so its expiry does
not change any more), `TimeLeftOK` (a time left that was computed still reaches to
the expiry, and all the more as the clock goes on) and `LateOK` (a request that
came after a logout still did).

`Rbac_proofs` proves the five properties of `Rbac` (`TypeCorrect`,
`BootstrapCorrect`, `RolesKept`, `AuthorizationCorrect`, `ReplacementCorrect`) for
any names, ids and requests, from `RbacAssumption`. What a transaction read must
still be true when it commits, so `IInv` says in `LocalOK` that a bootstrap holds
the row of the role from its count to its commit and that no bootstrap has
succeeded since the system was without an administrator, that the rows an
assignment has found and deleted are still the user's, and that a query has seen the user's present roles; in `IdsOK` that ids
are given out in ascending order, so that a registration does not meet an
account; and in `BootstrapsOK` that, if a bootstrap has succeeded since the system
was last without an administrator (`bootstraps` is larger than `vacantAt`), there is
one now.

`RedisStore_proofs` and `MemoryStore_proofs` prove that the two stores implement
`AuthState` (`RedisRefinesStore`, `MemoryRefinesStore`), for any tokens, accounts
and addresses, limits, window and lifetimes, from `AuthStateAssumption`. For Redis
`IInv` is that every key is live: it has a positive value and an expiry that is
still to come, which is also `ExpiryCorrect` (`EveryKeyExpires`). It is needed
because a counter without an expiry would never be forgotten, and because a
missing counter and one that is 0 could not be told apart. One lemma per operation
on the key space says what it does to the abstract state (`RevokeLive`,
`CountLive`, `DelLive`), `KeysDistinct` that the key families do not meet, and
`RetryExact` that `PTTL` with the fallback of `positiveTTL` is the exact waiting
time, in the last instant of a key too. For the memory store `IInv` only has the
types of the maps; the work is in the mapping, which sees the entries that have
not run out: dropping one that has, or leaving it, is the same abstract state.

`ServerLifecycle_proofs` proves the six safety properties of `ServerLifecycle`
(`TypeCorrect`, `ServingCorrect`, `LogoutCorrect`, `ReleaseCorrect`, `CutCorrect`,
`CountCorrect`) for any configuration files and environments, any number of
directories and any finite sets of concurrent requests, from `ServerAssumption`
and `WidthAssumption`. `IInv` has four parts:

* `ProcessOK`: from the moment a configuration is loaded until `run` returns it is
  validated, and from the token manager on its lifetimes are positive. That `Load`
  returns a configuration for every file and environment is proved first
  (`OverridesType`, `LoadedType`); that there is a first file among those found
  (`FirstFile`) rests on the well-foundedness of the natural numbers;
* `DeferOK`: what is open is exactly what is deferred, the database before the
  store, so that returning from any step closes everything;
* `TrafficOK`: a request that is not over has not been counted, the gauge is the
  cardinality of the requests under way, there are none outside of serving and
  returning, and none under way once the process returns without an error;
* `LogoutOK`: a job runs under a validated configuration, also one left behind by
  its timeout, and what it has stored before its answer is where that
  configuration says. `LogoutSurvivesRestart` speaks of the configuration of a later
  process, which has nothing to do with the one that confirmed; what connects them
  is that both were validated.

`BrowserClient_proofs` proves `TypeCorrect` (`BrowserTypeOK`), `ReplayCorrect`
(`ReplayOnlyAfterLoss`), `LogoutCorrect` (`LoggedOutStaysOut`) and `ContractKept`,
for any number of tabs, tokens, users, calls and reloads, from
`BrowserAssumption`: `None` is no tab, token or user, and there is a token, since the
browser is opened with one. The last two properties are not inductive: they depend on
where a token is: still with the backend, in an answer, in the cookie, in a request,
or lost. `IInv` keeps track of that:

* `BackendOK` and `HeldOK`: every token was issued in a session that was opened, and
  whatever the browser holds was issued;
* `AnswersOK`: a token in an answer nobody has read yet is in no other place, neither
  in the cookie nor in a request nor in another answer, and no other token of its
  session is usable. So another request cannot exchange it or have it exchanged;
* `CookieOK`: the cookie is the usable token of its session, unless a newer one is
  in an answer under way, or the session has lost an answer, or is closed;
* `LocksOK`: with Web Locks a page that refreshes holds the lock, hence is the only
  one, and sent the usable token. `ReplayOnlyAfterLoss` follows: a token that is
  refused as replayed is in a session that has lost an answer;
* `OrphansOK`: a request nobody waits for belongs to a session that has lost an
  answer;
* `CalmOK`: a logout with nothing else under way presents the usable token, so its
  session is closed once it was handled;
* `OutOK`: after such a logout no answer with a token is on its way, and no refresh
  that was sent, or will be with the cookie, can be exchanged.

Most steps bring no token into the browser; `QuietlyKeeps` shows once that those keep
`IInv`, and each of their lemmas only describes the page. The others have a proof of
their own: a refresh is sent, a token is issued (to a page, to a request nobody
waits for, to a login), an answer is read. `LoggedOutStaysOut` turns out not to need
Web Locks: TLC confirms `IInv` on the instance of `browser` with and without them.
`ContractKept` proves `BrowserSpec => [][Next]_vars`: whatever the tabs do, the
backend takes steps of `Sessions`, the contract that `RefinementCorrect` shows
`AuthSessions` to implement. (`Init` is left out: the browser starts with a session
that is already open.)

TLC confirms each `IInv` on the instance of the component's run.

Only model-checked: liveness (`EveryRequestEnds`, `ShutdownEnds`,
`ReadinessConverges`, `PageGoesOn`), which is out of the prover's reach, like
`ENABLED` and so the absence of deadlock.

## 5. Not modelled

Signatures, hashes and password rules (a token is not forged, a hash identifies
its input); the `token_hash` column, which follows the jti; response bodies and
the wording of errors; logging and request ids. `GetProfile` is one read, and
`UpdateNickname` reads the user and updates a column that nothing else reads;
`ListRoles` and `ListPermissions` read tables that only migrations write. The SQL
of the migrations is run by goose. The histogram of durations, the pages of the
frontend, generated API documentation and deployment manifests are left out.
Soft deletion of users (`deleted_at`) has no writer in the code. `ServerLifecycle`
has one process: what replicas share is in the database and in Redis, where
`AuthSessions`, `RedisStore` and `Rbac` have any number of requests. Redis is the
same durable one across restarts, as in the deployments, which keep its append-only
file on a volume.

Three details are below the models. `run` and `runBootstrapAdmin` return without
closing the handle if `db.DB()` fails after `InitDB`, which has called it already
with success; `InitDB` therefore has one outcome less. go-redis cuts a time to live
to milliseconds, less than the unit of time of `RedisStore`. It may also send a
command again when a reply is lost; a `SET` that is sent twice stores the same
value, with an expiry that is later at most by the delay; of a transaction pipeline,
where a second `INCR` would count, `RedisStore` assumes that it is not sent again once
it has been written.

## 6. Where documentation and code differ

* `sessions_logout`: `RevokeRefreshToken` treats any revoked row as logged out. A
  logout that waited for a concurrent refresh of the same token succeeds although
  the successor token is live.
* `access_leeway`: a revocation lasts until `exp`, parsing accepts until `exp`
  plus 30 s. A token logged out before is accepted again in between.
* `rbac_bootstrap`: `README.md` says that the administrator may be initialised only
  once. `BootstrapAdmin` counts the administrators there are, and an administrator
  may take the role from itself: after the last one has lost it a second bootstrap
  succeeds. What holds, and is proved, is `OneBootstrapPerVacancy`: of bootstraps
  that race one succeeds, and another only after the system has been without an
  administrator.
* `rbac_register`: roles can be given to an id that has no account; whoever
  registers next inherits them beside `user`.

Observations that contradict no document:

* `Rbac`: a role assignment whose permission was checked before a demotion may still
  commit after it, even between the count and the commit of a bootstrap, which then
  succeeds beside an administrator. The two lists of `GetUserAuthorization` may
  belong to two different assignments.
* `Config`: an `APP_ENV` of blanks overrides `production` in the file and becomes
  `development`, with the checks for production off. A secret of 32 characters
  with blanks at its ends passes `Validate` and `bootstrap-admin`, but is refused
  by the token manager. A lifetime that wraps around to a negative value is
  refused by the token manager; one that wraps around to a positive value is not
  noticed.
* `ServerLifecycle`: a readiness check may succeed without an instant at which
  both dependencies were up, and a client of `/readyz` that disconnects sets the
  gauge to 0 until the next check. When the listener fails and a signal arrives
  at the same time the error may be dropped and the exit be clean. `CutIsReported`
  is about clients: a handler that was left behind by a timeout may still run
  when the database is closed after a clean `Shutdown`.
* `BrowserClient`: a refresh that is under way when a logout is sent may put cookie
  and access token back after it, the counterpart of `sessions_logout`;
  `LoggedOutStaysOut` leaves it out by the history variable `calm` and covers what
  goes on, or begins, after a logout that met no refresh. A logout that
  fails leaves the cookie usable although the page shows a signed-out user. After
  an answer with a new token is lost, the next refresh is a replay and ends the
  session. Without Web Locks two tabs may end each other's session:
  `docs/operation-record-auth-delivery-hardening.md` (lines 22 and 59) says so, and
  `ReplayOnlyAfterLoss` speaks of browsers that have them.

## 7. Plan

Done: `AuthSessions` and `Sessions` with their invariants and refinement proved;
`StoreKeys`, `AuthState`, `MemoryStore`, `RedisStore` with both refinements proved;
`LoginLimiter`, `AccessRevocation`, `Rbac`, `Config` and `ServerLifecycle` with
their safety properties proved; `BrowserClient` over `Sessions` with its safety
properties proved. Every safety property of a passing run is a theorem.

Left, out of the prover's reach: the four liveness properties, which TLC checks.
