-------------------------- MODULE ServerLifecycle ---------------------------
(***************************************************************************)
(* cmd/main.go: the process, from loading its configuration to its exit,   *)
(* as the server or as one of the commands migrate up and bootstrap-admin; *)
(* and, while it serves, what the HTTP handlers wrapped around the router  *)
(* do for a request: count it, answer it in time, recover its panics,      *)
(* report readiness.                                                       *)
(*                                                                         *)
(* Every step of start-up may fail.  A handler runs in a goroutine of its  *)
(* own, which http.TimeoutHandler leaves behind when it answers the client *)
(* itself.  The process may be killed at any time, and is started again    *)
(* with any configuration.                                                 *)
(***************************************************************************)
EXTENDS Config, Sequences, FiniteSets

CONSTANTS
    Api,      \* concurrent requests of any client, to any path
    Probe,    \* concurrent requests of the deployment's readiness probe
    Files,    \* contents of config.yml, in one of the directories searched
    NoFile,   \* no such file
    Envs,     \* environments (with the variables of .env)
    MaxFound  \* number of directories that may hold a config.yml

Request == Api \cup Probe

ASSUME ServerAssumption ==
    /\ IsFiniteSet(Request) /\ Api \cap Probe = {}
    /\ Files \subseteq Config /\ Envs \subseteq Environment /\ NoFile \notin Files
    /\ MaxFound \in Nat

VARIABLES
    mode,      \* what main was asked to do
    pc,        \* where run, runMigrateUp or runBootstrapAdmin is
    env,       \* the environment, while start-up reads it
    cfg,       \* the configuration Load returned, NoFile before
    db, store, \* the database handle and the authentication state store
    deferred,  \* the deferred calls registered so far, the latest last
    listener,  \* the goroutine in ListenAndServe
    serverErr, \* its channel: an error to be received
    quit,      \* the signal channel: a signal to be received
    result,    \* what the process returned
    up,        \* external: whether the database and the Redis server answer
    redis,     \* the entry of a logged-out access token in the Redis server
    memory,    \* the same in the memory store of this process
    promised,  \* history: a server in production confirmed that logout
    http,      \* the requests
    inFlight,  \* the gauge requests_in_flight
    readiness  \* the gauge readiness

process == <<mode, pc, env, cfg, db, store, deferred, listener, serverErr, quit,
             result>>
outside == <<up, redis, promised>>
traffic == <<http, inFlight, readiness>>
vars    == <<process, outside, memory, traffic>>

\* A request: whether its client waits, the handler's goroutine, the status the
\* goroutine has produced, the status the client got (0: none yet), and what the
\* counter requests_total was given for it.
HttpRequest ==
    [client : {"none", "waiting", "written", "gone"},
     path : {"api", "metrics", "readyz"},
     job : {"none", "work", "ping_db", "ping_store", "ready", "unready", "done"},
     status : {0, 200, 500, 503}, seen : {0, 200, 500, 503},
     counted : Seq(Nat), logout : BOOLEAN]

NoRequest == [client |-> "none", path |-> "api", job |-> "none", status |-> 0,
              seen |-> 0, counted |-> <<>>, logout |-> FALSE]

Resource == {"db", "store"}

\* Type correctness.  In particular at most one deferred call per resource.
TypeOK ==
    /\ mode \in {"serve", "migrate", "bootstrap-admin", "usage"}
    /\ pc \in {"main", "load_env", "bootstrap_env", "load_config", "init_db",
               "token", "store", "serve", "shutdown", "migration_db", "command",
               "return", "exited"}
    /\ env \in Envs \cup {NoFile} /\ cfg \in Config \cup {NoFile}
    /\ db \in {"none", "open", "closed"} /\ store \in {"none", "open", "closed"}
    /\ deferred \in Seq(Resource) /\ Len(deferred) <= 2
    /\ listener \in {"off", "starting", "listening", "ended"}
    /\ serverErr \in {"empty", "error"} /\ quit \in BOOLEAN
    /\ result \in {"none", "ok", "error", "killed"}
    /\ up \in [Resource -> BOOLEAN]
    /\ redis \in BOOLEAN /\ memory \in BOOLEAN /\ promised \in BOOLEAN
    /\ http \in [Request -> HttpRequest]
    /\ inFlight \in Nat /\ readiness \in {0, 1}

-----------------------------------------------------------------------------
(* Start-up.  A step that fails returns from run with the error, through   *)
(* the deferred calls registered so far.                                   *)

Return(value) == pc' = "return" /\ result' = value

Goto(label) == pc' = label /\ UNCHANGED result

\* What the steps of start-up leave alone.
Idle == UNCHANGED <<mode, listener, serverErr, quit, outside, memory, traffic>>

\* main: the subcommand, or a usage error.
Main ==
    /\ pc = "main"
    /\ \E m \in {"serve", "migrate", "bootstrap-admin", "usage"} :
          /\ mode' = m
          /\ IF m = "usage" THEN Return("error") ELSE Goto("load_env")
    /\ UNCHANGED <<env, cfg, db, store, deferred, listener, serverErr, quit, outside,
                   memory, traffic>>

\* LoadEnv: a .env file that cannot be parsed is an error, a missing one is not.
LoadEnv ==
    /\ pc = "load_env"
    /\ \/ Return("error") /\ UNCHANGED env
       \/ /\ env' \in Envs
          /\ Goto(CASE mode = "serve" -> "load_config"
                    [] mode = "migrate" -> "migration_db"
                    [] mode = "bootstrap-admin" -> "bootstrap_env")
    /\ Idle /\ UNCHANGED <<cfg, db, store, deferred>>

\* runBootstrapAdmin: the administrator's name and password are required.
BootstrapEnv ==
    /\ pc = "bootstrap_env"
    /\ \/ Return("error") /\ env' = NoFile
       \/ Goto("load_config") /\ UNCHANGED env
    /\ Idle /\ UNCHANGED <<cfg, db, store, deferred>>

\* config.Load("config.yml") of the first file found.
LoadConfig ==
    /\ pc = "load_config"
    /\ \E found \in [1..MaxFound -> Files \cup {NoFile}] :
          LET file == findFileUpward(found, NoFile) IN
          IF file # NoFile /\ Loads(file, env)
          THEN cfg' = Loaded(file, env) /\ Goto("init_db") /\ UNCHANGED env
          ELSE Return("error") /\ env' = NoFile /\ UNCHANGED cfg
    /\ Idle /\ UNCHANGED <<db, store, deferred>>

\* Open the database and ping it, closing a handle that does not answer; then defer
\* Close.  This is the last use of the environment.
OpenDatabase(configured, label) ==
    /\ \/ /\ configured /\ up["db"]
          /\ db' = "open" /\ deferred' = Append(deferred, "db")
          /\ Goto(label)
       \/ /\ db' \in {"none", "closed"} /\ UNCHANGED deferred
          /\ Return("error")
    /\ env' = NoFile
    /\ Idle /\ UNCHANGED <<cfg, store>>

InitDB ==
    /\ pc = "init_db"
    /\ OpenDatabase(buildDSN(cfg, env), IF mode = "serve" THEN "token" ELSE "command")

OpenMigrationDB ==
    /\ pc = "migration_db"
    /\ OpenDatabase(MigrationConfigFromEnv(env), "command")

\* migrateUp or bootstrapAdmin (module Rbac) on the open database.
Command ==
    /\ pc = "command"
    /\ Return("ok") \/ Return("error")
    /\ Idle /\ UNCHANGED <<env, cfg, db, store, deferred>>

NewTokenManager ==
    /\ pc = "token"
    /\ IF NewTokenManagerWithTTL(cfg) THEN Goto("store") ELSE Return("error")
    /\ Idle /\ UNCHANGED <<env, cfg, db, store, deferred>>

NewAuthStateStoreLate ==
    /\ pc = "store"
    /\ \/ /\ cfg.redis => up["store"]
          /\ store' = "open"
          /\ Goto("serve") /\ listener' = "starting"
          /\ UNCHANGED deferred
       \/ /\ cfg.redis /\ ~up["store"]
          /\ store' = "closed" /\ Return("error")
          /\ UNCHANGED <<deferred, listener>>
    /\ UNCHANGED <<mode, env, cfg, db, serverErr, quit, outside, memory, traffic>>

\* newAuthStateStore: memory, or a Redis client that was pinged; then defer Close,
\* SetupRouter, newServer and the goroutine that listens.
NewAuthStateStore ==
    /\ pc = "store"
    /\ \/ /\ cfg.redis => up["store"]
          /\ store' = "open" /\ deferred' = Append(deferred, "store")
          /\ Goto("serve") /\ listener' = "starting"
       \/ /\ cfg.redis /\ ~up["store"]
          /\ store' = "closed" /\ Return("error")
          /\ UNCHANGED <<deferred, listener>>
    /\ UNCHANGED <<mode, env, cfg, db, serverErr, quit, outside, memory, traffic>>

-----------------------------------------------------------------------------
(* Serving and shutting down. *)

\* ListenAndServe begins to accept.
Listen ==
    /\ listener = "starting" /\ pc = "serve"
    /\ listener' = "listening"
    /\ UNCHANGED <<mode, pc, env, cfg, db, store, deferred, serverErr, quit, result,
                   outside, memory, traffic>>

\* It cannot bind its address, or stops accepting: serverErr <- err.
ListenFails ==
    /\ listener \in {"starting", "listening"} /\ pc = "serve"
    /\ listener' = "ended" /\ serverErr' = "error"
    /\ UNCHANGED <<mode, pc, env, cfg, db, store, deferred, quit, result, outside,
                   memory, traffic>>

\* SIGINT or SIGTERM, once signal.Notify was called.
Signal ==
    /\ pc = "serve" /\ ~quit
    /\ quit' = TRUE
    /\ UNCHANGED <<mode, pc, env, cfg, db, store, deferred, listener, serverErr, result,
                   outside, memory, traffic>>

\* case err := <-serverErr; nobody receives from quit any more.
ServerRunFailed ==
    /\ pc = "serve" /\ serverErr = "error"
    /\ serverErr' = "empty" /\ quit' = FALSE
    /\ Return("error")
    /\ UNCHANGED <<mode, env, cfg, db, store, deferred, listener, outside, memory,
                   traffic>>

\* case <-quit: server.Shutdown closes the listener and begins to wait.  Nobody
\* receives from serverErr any more, an error in it included.
BeginShutdown ==
    /\ pc = "serve" /\ quit
    /\ quit' = FALSE /\ serverErr' = "empty" /\ listener' = "ended"
    /\ Goto("shutdown")
    /\ UNCHANGED <<mode, env, cfg, db, store, deferred, outside, memory, traffic>>

\* The connections on which the server has not finished a response.
Active == {r \in Request : http[r].client \in {"waiting", "written"}}

ShutdownIgnoringTimeout ==
    /\ pc = "shutdown"
    /\ Return("ok")
    /\ UNCHANGED <<mode, env, cfg, db, store, deferred, listener, serverErr, quit,
                   outside, memory, traffic>>

ShutdownWithoutDeadline ==
    /\ pc = "shutdown" /\ Active = {}
    /\ Return("ok")
    /\ UNCHANGED <<mode, env, cfg, db, store, deferred, listener, serverErr, quit,
                   outside, memory, traffic>>

\* Shutdown returns when no connection is active, or after shutdownTimeout.
Shutdown ==
    /\ pc = "shutdown"
    /\ (Active = {} /\ Return("ok")) \/ (Active # {} /\ Return("error"))
    /\ UNCHANGED <<mode, env, cfg, db, store, deferred, listener, serverErr, quit,
                   outside, memory, traffic>>

\* The deferred calls, the latest first.
RunDeferred ==
    LET last == deferred[Len(deferred)] IN
    /\ pc = "return" /\ deferred # <<>>
    /\ deferred' = SubSeq(deferred, 1, Len(deferred) - 1)
    /\ db' = IF last = "db" THEN "closed" ELSE db
    /\ store' = IF last = "store" THEN "closed" ELSE store
    /\ UNCHANGED <<mode, pc, env, cfg, listener, serverErr, quit, result, outside,
                   memory, traffic>>

\* The process's memory goes with it: the requests, the gauges, the memory store.
Gone ==
    /\ pc' = "exited"
    /\ listener' = "off" /\ serverErr' = "empty" /\ quit' = FALSE
    /\ env' = NoFile /\ cfg' = NoFile
    /\ memory' = FALSE
    /\ http' = [r \in Request |-> NoRequest] /\ inFlight' = 0 /\ readiness' = 0
    /\ UNCHANGED <<mode, outside>>

\* main returns, or calls fatalf.
Exit ==
    /\ pc = "return" /\ deferred = <<>>
    /\ Gone
    /\ UNCHANGED <<db, store, deferred, result>>

\* A crash, SIGKILL, or a signal before Notify: nothing deferred runs; the system
\* closes the connections.
Kill ==
    /\ pc \notin {"main", "exited"}
    /\ Gone
    /\ result' = "killed" /\ db' = "none" /\ store' = "none" /\ deferred' = <<>>

\* The next process starts from nothing but what MySQL and Redis hold.
Restart ==
    /\ pc = "exited"
    /\ pc' = "main" /\ mode' = "usage" /\ result' = "none"
    /\ db' = "none" /\ store' = "none"
    /\ UNCHANGED <<env, cfg, deferred, listener, serverErr, quit, outside, memory,
                   traffic>>

\* The database or the Redis server goes away or comes back.
DependencyChanges(d) ==
    /\ up' = [up EXCEPT ![d] = ~@]
    /\ UNCHANGED <<process, redis, promised, memory, traffic>>

-----------------------------------------------------------------------------
(* Requests: Metrics.HTTPHandler around TimeoutHandler around the router.  *)

Running == pc # "exited"

\* A request begins: HTTPHandler counts it in, TimeoutHandler starts the router in
\* a goroutine.  /metrics is not counted.
Arrive(r, path) ==
    /\ pc = "serve" /\ listener = "listening"
    /\ http[r].client \in {"none", "gone"} /\ http[r].job = "none"
    /\ http' = [http EXCEPT ![r] =
                  [NoRequest EXCEPT !.client = "waiting", !.path = path,
                      !.job = IF path = "readyz" THEN "ping_db" ELSE "work"]]
    /\ inFlight' = IF path = "metrics" THEN inFlight ELSE inFlight + 1
    /\ UNCHANGED <<process, outside, memory, readiness>>

Produce(r, status) ==
    http' = [http EXCEPT ![r].job = "done", ![r].status = status]

\* A handler ends with an error, which is what Recovery makes of a panic too; a
\* scrape of /metrics succeeds.
Work(r) ==
    /\ Running /\ http[r].job = "work"
    /\ Produce(r, IF http[r].path = "metrics" THEN 200 ELSE 500)
    /\ UNCHANGED <<process, outside, memory, inFlight, readiness>>

\* A handler succeeds: a logout, stored where the configuration says, stands for
\* all of them.
Logout(r) ==
    /\ Running /\ http[r].job = "work" /\ http[r].path = "api"
    /\ db = "open" /\ up["db"] /\ store = "open" /\ (cfg.redis => up["store"])
    /\ redis' = (redis \/ cfg.redis)
    /\ memory' = (memory \/ ~cfg.redis)
    /\ http' = [http EXCEPT ![r].job = "done", ![r].status = 200,
                            ![r].logout = TRUE]
    /\ UNCHANGED <<process, up, promised, inFlight, readiness>>

\* ReadyzHandler: ping the database; the context ends with the client's wait.
PingDatabase(r) ==
    /\ Running /\ http[r].job = "ping_db"
    /\ http' = [http EXCEPT ![r].job =
                  IF db = "open" /\ up["db"] /\ http[r].client = "waiting"
                  THEN "ping_store" ELSE "unready"]
    /\ UNCHANGED <<process, outside, memory, inFlight, readiness>>

\* Ping the store; the memory store always answers.
PingStore(r) ==
    /\ Running /\ http[r].job = "ping_store"
    /\ http' = [http EXCEPT ![r].job =
                  IF cfg.redis => /\ store = "open" /\ up["store"]
                                  /\ http[r].client = "waiting"
                  THEN "ready" ELSE "unready"]
    /\ UNCHANGED <<process, outside, memory, inFlight, readiness>>

FailReadinessUnrecorded(r) ==
    /\ Running /\ http[r].job = "unready"
    /\ Produce(r, 503)
    /\ UNCHANGED <<process, outside, memory, inFlight, readiness>>

\* failReadiness: SetReady(false), then the answer.
FailReadiness(r) ==
    /\ Running /\ http[r].job = "unready"
    /\ readiness' = 0
    /\ Produce(r, 503)
    /\ UNCHANGED <<process, outside, memory, inFlight>>

RecordReady(r) ==
    /\ Running /\ http[r].job = "ready"
    /\ readiness' = 1
    /\ Produce(r, 200)
    /\ UNCHANGED <<process, outside, memory, inFlight>>

\* The goroutine has ended in time: TimeoutHandler copies its response.
Answer(r) ==
    /\ Running /\ http[r].client = "waiting" /\ http[r].job = "done"
    /\ http' = [http EXCEPT ![r].client = "written", ![r].job = "none",
                            ![r].seen = http[r].status, ![r].logout = FALSE]
    /\ promised' = (promised \/ (http[r].logout /\ cfg.environment = "production"))
    /\ UNCHANGED <<process, up, redis, memory, inFlight, readiness>>

\* The time is over, or the client is gone: TimeoutHandler writes 503 itself.
Timeout(r) ==
    /\ Running /\ http[r].client = "waiting"
    /\ http' = [http EXCEPT ![r].client = "written", ![r].seen = 503]
    /\ UNCHANGED <<process, outside, memory, inFlight, readiness>>

\* What the goroutine writes after that goes nowhere.
Discard(r) ==
    /\ Running /\ http[r].client # "waiting" /\ http[r].job = "done"
    /\ http' = [http EXCEPT ![r].job = "none", ![r].status = 0, ![r].logout = FALSE]
    /\ UNCHANGED <<process, outside, memory, inFlight, readiness>>

CountOutScrapes(r) ==
    /\ Running /\ http[r].client = "written"
    /\ http' = [http EXCEPT ![r].client = "gone",
                  ![r].counted = IF http[r].path = "metrics" THEN @
                                 ELSE Append(@, http[r].seen)]
    /\ inFlight' = inFlight - 1
    /\ UNCHANGED <<process, outside, memory, readiness>>

CountHandlerStatus(r) ==
    LET uncounted == http[r].path = "metrics" IN
    /\ Running /\ http[r].client = "written"
    /\ http' = [http EXCEPT ![r].client = "gone",
                  ![r].counted = IF uncounted THEN @ ELSE Append(@, http[r].status)]
    /\ inFlight' = IF uncounted THEN inFlight ELSE inFlight - 1
    /\ UNCHANGED <<process, outside, memory, readiness>>

\* HTTPHandler counts the status its recorder saw, and the request out.
Count(r) ==
    LET uncounted == http[r].path = "metrics" IN
    /\ Running /\ http[r].client = "written"
    /\ http' = [http EXCEPT ![r].client = "gone",
                  ![r].counted = IF uncounted THEN @ ELSE Append(@, http[r].seen),
                  ![r].status = IF http[r].job = "none" THEN 0 ELSE @]
    /\ inFlight' = IF uncounted THEN inFlight ELSE inFlight - 1
    /\ UNCHANGED <<process, outside, memory, readiness>>

-----------------------------------------------------------------------------

Init ==
    /\ mode = "usage" /\ pc = "main" /\ env = NoFile /\ cfg = NoFile
    /\ db = "none" /\ store = "none" /\ deferred = <<>>
    /\ listener = "off" /\ serverErr = "empty" /\ quit = FALSE /\ result = "none"
    /\ up = [d \in Resource |-> TRUE]
    /\ redis = FALSE /\ memory = FALSE /\ promised = FALSE
    /\ http = [r \in Request |-> NoRequest]
    /\ inFlight = 0 /\ readiness = 0

StartUp ==
    \/ Main \/ LoadEnv \/ BootstrapEnv \/ LoadConfig \/ InitDB \/ OpenMigrationDB
    \/ Command \/ NewTokenManager \/ NewAuthStateStore

\* What run does once it serves, to its return.
Ending == ServerRunFailed \/ BeginShutdown \/ Shutdown \/ RunDeferred \/ Exit

Probing(r) ==
    \/ Arrive(r, "readyz") \/ PingDatabase(r) \/ PingStore(r)
    \/ FailReadiness(r) \/ RecordReady(r)

Responding(r) == Answer(r) \/ Timeout(r) \/ Discard(r) \/ Count(r)

Next ==
    \/ StartUp \/ Ending
    \/ Listen \/ ListenFails \/ Signal \/ Kill \/ Restart
    \/ \E d \in Resource : DependencyChanges(d)
    \/ \E r \in Api :
          \E path \in {"api", "metrics"} : Arrive(r, path)
    \/ \E r \in Api : Work(r) \/ Logout(r)
    \/ \E r \in Request : Probing(r) \/ Responding(r)

\* The goroutine of run goes on; the deployment's probe asks /readyz again and again,
\* and its goroutine, whose calls all take the request's context, goes on.  Nothing
\* is assumed of other requests, to /readyz too: they may take for ever.
Fairness ==
    /\ WF_vars(Ending)
    /\ \A r \in Probe : /\ WF_vars(Probing(r))
                        /\ WF_vars(Answer(r) \/ Discard(r))
                        /\ WF_vars(Count(r))

Spec == Init /\ [][Next]_vars /\ Fairness

-----------------------------------------------------------------------------

\* A server that serves has lifetimes, limits, a window and a request timeout that
\* are positive, although the two lifetimes are products that may have wrapped
\* around, and no more idle connections than open ones: what the handlers and the
\* other modules take for granted.
ServingIsConfigured ==
    pc = "serve" =>
        /\ accessTTL(cfg) > 0 /\ refreshTTL(cfg) > 0
        /\ \A f \in {"accountLimit", "ipLimit", "window", "timeout"} : cfg.num[f] > 0
        /\ cfg.num["maxIdleConns"] <= cfg.num["maxOpenConns"]

\* A logout that a server in production has confirmed is known to every server in
\* production afterwards, whatever restarted or crashed in between: Validate does
\* not let it keep revocations in the memory of the process.
LogoutSurvivesRestart ==
    pc = "serve" /\ cfg.environment = "production" /\ promised =>
        IF cfg.redis THEN redis ELSE memory

\* Whatever step of start-up, serving or shutting down fails, the process returns
\* with everything closed that it has opened.
ResourcesReleased ==
    pc = "exited" => db # "open" /\ store # "open"

\* The database is closed under a client that still waits only by a process that
\* reports an error: a clean exit has answered everyone.
CutIsReported ==
    db = "closed" /\ Active # {} => result = "error"

\* A finished request was counted exactly once, with the status its client got even
\* if its handler went on after the timeout, and the gauge tells how many are under
\* way.
CountedOnce ==
    /\ \A r \in Request : http[r].client = "gone" /\ http[r].path # "metrics" =>
          http[r].counted = <<http[r].seen>>
    /\ inFlight = Cardinality({r \in Active : http[r].path # "metrics"})

\* A signal is there to be received, or run is on its way out; only the end of the
\* process ends this.
Stopping == pc \in {"shutdown", "return"} \/ (pc = "serve" /\ quit)

\* No process goes on stopping for ever: after a signal, an error of the server or a
\* failed start it ends, even if requests never finish.
ShutdownEnds == []<>~Stopping

\* While a dependency stays away from a server that is probed, the readiness gauge
\* goes to 0 and stays there, whatever checks were under way when it went and however
\* late they end.
ReadinessConverges ==
    \A d \in Resource :
        <>[](/\ pc = "serve" /\ listener = "listening"
             /\ ~up[d] /\ (d = "store" => cfg.redis))
           => <>[](readiness = 0)

=============================================================================
