------------------------- MODULE ServerLifecycle_proofs -------------------------
(* Proofs about the life of the process, for every configuration file, every    *)
(* environment and any number of concurrent requests: type correctness; a       *)
(* server that serves is configured; what was opened is closed on every path    *)
(* out; a client is cut off only by a process that reports an error; requests   *)
(* are counted once; a logout confirmed in production survives restarts.        *)
EXTENDS ServerLifecycle, TLAPS, FiniteSetTheorems, WellFoundedInduction

-----------------------------------------------------------------------------
(* The configuration that Load returns. *)

\* Of the files that exist, there is a first one.
LEMMA FirstFile ==
    ASSUME NEW found \in [1..MaxFound -> Files \cup {NoFile}],
           findFileUpward(found, NoFile) # NoFile
    PROVE  findFileUpward(found, NoFile) \in Files
<1> DEFINE T == {i \in 1..MaxFound : found[i] # NoFile}
           R == OpToRel(<, Nat)
<1>1. T \subseteq Nat /\ T # {}
  <2>1. 1..MaxFound \subseteq Nat
    BY ServerAssumption
  <2>2. \E i \in 1..MaxFound : found[i] # NoFile
    BY DEF findFileUpward
  <2> QED
    BY <2>1, <2>2
<1>2. PICK i \in T : \A j \in T : ~ (<<j, i>> \in R)
  BY <1>1, NatLessThanWellFounded, WFMin
<1>3. i \in 1..MaxFound /\ found[i] # NoFile /\ \A j \in 1..(i - 1) : ~ (found[j] # NoFile)
  <2>1. \A x, y \in Nat : x < y => <<x, y>> \in R
    BY DEF OpToRel
  <2>2. i \in Nat /\ i \in 1..MaxFound /\ found[i] # NoFile
    BY ServerAssumption
  <2>3. ASSUME NEW j \in 1..(i - 1), found[j] # NoFile PROVE FALSE
    <3>1. j \in Nat /\ j < i /\ j \in T
      BY <2>2, <2>3, ServerAssumption
    <3> QED
      BY <1>2, <2>1, <2>2, <3>1
  <2> QED
    BY <2>2, <2>3
<1>4. \E x \in DOMAIN found : found[x] # NoFile /\ \A j \in 1..(x - 1) : ~ (found[j] # NoFile)
  BY <1>3
<1> QED
  BY <1>4 DEF findFileUpward

\* The numbers stay integers: an environment variable that parses is one, and
\* wrapping around yields one.
LEMMA WrapType == ASSUME NEW n \in Int PROVE Wrap(n) \in Int
<1>1. Half \in Nat /\ 2 * Half > 0
  BY WidthAssumption DEF Hour
<1> QED
  BY <1>1 DEF Wrap

LEMMA DefaultNumType ==
    ASSUME NEW num \in [NumField -> Int]
    PROVE  DefaultNum(num) \in [NumField -> Int]
<1> SUFFICES ASSUME NEW f \in NumField PROVE DefaultNum(num)[f] \in Int
  BY DEF DefaultNum
<1>1. "expireHours" \in NumField
  BY DEF NumField, Positive
<1>2. Wrap(num["expireHours"] * 60) \in Int
  BY <1>1, WrapType
<1>3. f \in DOMAIN Default => Default[f] \in Int
  BY DEF Default
<1> QED
  BY <1>2, <1>3 DEF DefaultNum

\* An override of a number replaces it by a number.
LEMMA OverrideNumType ==
    ASSUME NEW file \in Config, NEW e \in Environment
    PROVE  [f \in NumField |->
              IF \E v \in DOMAIN IntVariable :
                    IntVariable[v] = f /\ e.int[v].kind = "number"
              THEN e.int[CHOOSE v \in DOMAIN IntVariable : IntVariable[v] = f].value
              ELSE file.num[f]] \in [NumField -> Int]
<1>1. file.num \in [NumField -> Int]
  BY DEF Config
<1>2. \A v \in DOMAIN IntVariable : e.int[v].value \in Int
  BY DEF Environment
<1> QED
  BY <1>1, <1>2

\* A yes-or-no variable replaces a yes or no.
LEMMA OverrideBoolType ==
    ASSUME NEW value \in BOOLEAN, NEW text
    PROVE  OverrideBool(value, text) \in BOOLEAN
BY Zenon DEF OverrideBool

\* The environment overrides a configuration by a configuration.
LEMMA OverridesType ==
    ASSUME NEW file \in Config, NEW e \in Environment, Parses(e)
    PROVE  applyEnvOverrides(file, e) \in Config
<1> DEFINE c == applyEnvOverrides(file, e)
           redis1 == OverrideBool(file.redis, e.REDIS_ENABLED)
           secure1 == OverrideBool(file.secure, e.COOKIE_SECURE)
           num1 == [f \in NumField |->
                      IF \E v \in DOMAIN IntVariable :
                            IntVariable[v] = f /\ e.int[v].kind = "number"
                      THEN e.int[CHOOSE v \in DOMAIN IntVariable : IntVariable[v] = f].value
                      ELSE file.num[f]]
<1>1. num1 \in [NumField -> Int]
  BY OverrideNumType
<1>2. file.redis \in BOOLEAN /\ file.secure \in BOOLEAN
  BY Zenon DEF Config
<1>3. redis1 \in BOOLEAN /\ secure1 \in BOOLEAN
  BY <1>2, OverrideBoolType
<1>4. c = [file EXCEPT
             !.environment = IF e.APP_ENV = "" THEN @ ELSE Normalised(e.APP_ENV),
             !.host = Override(@, e.DB_HOST), !.mysqlPort = Override(@, e.DB_PORT),
             !.user = Override(@, e.DB_USER), !.database = Override(@, e.DB_NAME),
             !.redis = redis1, !.address = Override(@, e.REDIS_ADDR),
             !.secret = Override(@, e.JWT_SECRET),
             !.registration = Override(@, e.REGISTRATION_ENABLED),
             !.secure = secure1,
             !.proxies = IF e.TRUSTED_PROXIES = {} THEN @
                         ELSE splitCommaSeparated(e.TRUSTED_PROXIES),
             !.num = num1]
  BY DEF applyEnvOverrides
<1> HIDE DEF c, redis1, secure1, num1
<1> DEFINE env1 == IF e.APP_ENV = "" THEN file.environment ELSE Normalised(e.APP_ENV)
           proxies1 == IF e.TRUSTED_PROXIES = {} THEN file.proxies
                       ELSE splitCommaSeparated(e.TRUSTED_PROXIES)
<1>5. /\ env1 \in EnvironmentText /\ proxies1 \in SUBSET ProxyText
      /\ Override(file.host, e.DB_HOST) \in PlainText
      /\ Override(file.user, e.DB_USER) \in PlainText
      /\ Override(file.database, e.DB_NAME) \in PlainText
      /\ Override(file.mysqlPort, e.DB_PORT) \in PlainText \cup {"junk"}
      /\ Override(file.address, e.REDIS_ADDR) \in {"", "set"}
      /\ Override(file.secret, e.JWT_SECRET) \in SecretText
      /\ Override(file.registration, e.REGISTRATION_ENABLED) \in {"unset", "true", "false"}
  <2>1. env1 \in EnvironmentText
    BY DEF Config, Environment, Normalised, EnvironmentText
  <2>2. proxies1 \in SUBSET ProxyText
    BY DEF Config, Environment, splitCommaSeparated
  <2>3. /\ Override(file.host, e.DB_HOST) \in PlainText
        /\ Override(file.user, e.DB_USER) \in PlainText
        /\ Override(file.database, e.DB_NAME) \in PlainText
        /\ Override(file.mysqlPort, e.DB_PORT) \in PlainText \cup {"junk"}
        /\ Override(file.address, e.REDIS_ADDR) \in {"", "set"}
        /\ Override(file.secret, e.JWT_SECRET) \in SecretText
    BY DEF Config, Environment, Override
  <2>4. Override(file.registration, e.REGISTRATION_ENABLED) \in {"unset", "true", "false"}
    BY DEF Config, Environment, Parses, BoolText, Override
  <2> QED
    BY <2>1, <2>2, <2>3, <2>4
<1> HIDE DEF env1, proxies1
<1>6. c = [environment |-> env1, algorithm |-> file.algorithm,
           secret |-> Override(file.secret, e.JWT_SECRET),
           host |-> Override(file.host, e.DB_HOST), user |-> Override(file.user, e.DB_USER),
           database |-> Override(file.database, e.DB_NAME),
           mysqlPort |-> Override(file.mysqlPort, e.DB_PORT),
           address |-> Override(file.address, e.REDIS_ADDR),
           redis |-> redis1, secure |-> secure1,
           registration |-> Override(file.registration, e.REGISTRATION_ENABLED),
           proxies |-> proxies1, num |-> num1]
  BY <1>4 DEF Config, env1, proxies1
<1>7. file.algorithm \in {"", "HS256", "none"}
  BY DEF Config
<1>8. c \in Config
  BY <1>1, <1>3, <1>5, <1>6, <1>7 DEF Config
<1> QED
  BY <1>8 DEF c

\* Load returns a configuration.
LEMMA LoadedType ==
    ASSUME NEW file \in Config, NEW e \in Environment, Parses(e)
    PROVE  Loaded(file, e) \in Config
<1> DEFINE c == applyEnvOverrides(file, e)
           env1 == IF Normalised(c.environment) = "" THEN "development"
                   ELSE Normalised(c.environment)
           num1 == DefaultNum(c.num)
<1>1. c \in Config
  BY OverridesType
<1> HIDE DEF c
<1>2. c.num \in [NumField -> Int] /\ c.environment \in EnvironmentText
      /\ c.algorithm \in {"", "HS256", "none"} /\ c.address \in {"", "set"}
  BY <1>1 DEF Config
<1>3. num1 \in [NumField -> Int] /\ env1 \in EnvironmentText
      /\ Override("HS256", c.algorithm) \in {"", "HS256", "none"}
      /\ Override("set", c.address) \in {"", "set"}
  BY <1>2, DefaultNumType DEF Normalised, EnvironmentText, Override
<1>4. Loaded(file, e) = [c EXCEPT !.environment = env1,
                                  !.algorithm = Override("HS256", @),
                                  !.address = Override("set", @), !.num = num1]
  BY DEF Loaded, applyDefaults, c
<1> HIDE DEF env1, num1
<1> DEFINE d == Loaded(file, e)
<1> HIDE DEF d
<1>5. d = [environment |-> env1, algorithm |-> Override("HS256", c.algorithm),
           secret |-> c.secret, host |-> c.host, user |-> c.user, database |-> c.database,
           mysqlPort |-> c.mysqlPort, address |-> Override("set", c.address),
           redis |-> c.redis, secure |-> c.secure, registration |-> c.registration,
           proxies |-> c.proxies, num |-> num1]
  <2> DEFINE algorithm1 == Override("HS256", c.algorithm)
             address1 == Override("set", c.address)
  <2>1. d = [c EXCEPT !.environment = env1, !.algorithm = algorithm1,
                      !.address = address1, !.num = num1]
    BY <1>4 DEF d
  <2> HIDE DEF algorithm1, address1
  <2>2. d = [environment |-> env1, algorithm |-> algorithm1, secret |-> c.secret,
             host |-> c.host, user |-> c.user, database |-> c.database,
             mysqlPort |-> c.mysqlPort, address |-> address1, redis |-> c.redis,
             secure |-> c.secure, registration |-> c.registration,
             proxies |-> c.proxies, num |-> num1]
    BY <1>1, <2>1 DEF Config
  <2> QED
    BY <2>2 DEF algorithm1, address1
<1>6. /\ c.secret \in SecretText /\ c.host \in PlainText /\ c.user \in PlainText
      /\ c.database \in PlainText /\ c.mysqlPort \in PlainText \cup {"junk"}
      /\ c.registration \in {"unset", "true", "false"} /\ c.proxies \in SUBSET ProxyText
  BY <1>1 DEF Config
<1>7. c.redis \in BOOLEAN /\ c.secure \in BOOLEAN
  BY <1>1, Zenon DEF Config
<1>8. d \in Config
  BY <1>3, <1>5, <1>6, <1>7 DEF Config
<1> QED
  BY <1>8 DEF d

-----------------------------------------------------------------------------
(* The inductive invariant. *)

\* While requests may be under way.
Serving == {"serve", "shutdown", "return"}

BeforeDB == {"main", "load_env", "bootstrap_env", "load_config", "init_db",
             "migration_db", "exited"}

Stages == BeforeDB \cup Serving \cup {"token", "store", "command"}

\* The process: a step of start-up finds what the earlier ones have made.
ProcessOK ==
    /\ mode \in {"serve", "migrate", "bootstrap-admin", "usage"}
    /\ pc \in Stages
    /\ env \in Envs \cup {NoFile} /\ cfg \in Config \cup {NoFile}
    /\ listener \in {"off", "starting", "listening", "ended"}
    /\ serverErr \in {"empty", "error"} /\ quit \in BOOLEAN
    /\ result \in {"none", "ok", "error", "killed"}
    /\ pc = "load_env" => mode # "usage"
    /\ pc \in {"bootstrap_env", "load_config"} => env \in Envs
    /\ pc \in {"init_db", "token", "store", "serve", "shutdown"} => Validate(cfg)
    /\ pc \in {"store", "serve", "shutdown"} => NewTokenManagerWithTTL(cfg)

\* What is open is what is deferred, the database before the store.
DeferOK ==
    /\ db \in {"none", "open", "closed"} /\ store \in {"none", "open", "closed"}
    /\ deferred \in {<<>>, <<"db">>, <<"db", "store">>}
    /\ db = "open" <=> deferred # <<>>
    /\ store = "open" <=> deferred = <<"db", "store">>
    /\ db = "closed" => pc \in {"return", "exited"}
    /\ pc \in BeforeDB => deferred = <<>>
    /\ pc \in {"token", "store", "command"} => deferred = <<"db">>
    /\ pc \in {"serve", "shutdown"} => deferred = <<"db", "store">>

\* A request is counted when it is over, not before.
RequestOK(m) ==
    /\ m \in HttpRequest
    /\ m.client \in {"waiting", "written"} => m.counted = <<>>
    /\ m.client = "gone" /\ m.path # "metrics" => m.counted = <<m.seen>>

InFlight == {r \in Active : http[r].path # "metrics"}

\* There are requests only while the process serves or ends, and none under way
\* once it has begun to return without an error.
TrafficOK ==
    /\ http \in [Request -> HttpRequest]
    /\ \A r \in Request : RequestOK(http[r])
    /\ inFlight = Cardinality(InFlight)
    /\ readiness \in {0, 1}
    /\ pc \notin Serving => \A r \in Request : http[r] = NoRequest
    /\ pc = "return" /\ result # "error" => Active = {}

\* A handler that runs does so under a validated configuration, and what it has
\* stored before its answer is where that configuration says.
LogoutOK ==
    /\ up \in [Resource -> BOOLEAN]
    /\ redis \in BOOLEAN /\ memory \in BOOLEAN /\ promised \in BOOLEAN
    /\ promised => redis
    /\ \A r \in Request :
          /\ http[r].job # "none" => Validate(cfg)
          /\ http[r].logout /\ cfg.redis => redis
          /\ http[r].logout => http[r].job = "done"

IInv == ProcessOK /\ DeferOK /\ TrafficOK /\ LogoutOK

-----------------------------------------------------------------------------
(* What the groups of actions leave alone. *)

\* The empty request.
LEMMA NoRequestOK ==
    /\ RequestOK(NoRequest)
    /\ NoRequest.client = "none" /\ NoRequest.job = "none" /\ NoRequest.logout = FALSE
BY DEF RequestOK, NoRequest, HttpRequest

\* Without requests nothing is counted in.
LEMMA NoTraffic ==
    ASSUME http = [r \in Request |-> NoRequest]
    PROVE  /\ Active = {} /\ InFlight = {} /\ Cardinality(InFlight) = 0
           /\ http \in [Request -> HttpRequest]
           /\ \A r \in Request : RequestOK(http[r]) /\ http[r].job = "none"
                                 /\ http[r].logout = FALSE
<1>1. \A r \in Request : http[r] = NoRequest
  OBVIOUS
<1>2. Active = {}
  BY <1>1, NoRequestOK DEF Active
<1>3. InFlight = {} /\ Cardinality(InFlight) = 0
  BY <1>2, FS_EmptySet DEF InFlight
<1>4. NoRequest \in HttpRequest
  BY NoRequestOK DEF RequestOK
<1> QED
  BY <1>1, <1>2, <1>3, <1>4, NoRequestOK

\* The steps of a request leave the process alone.
LEMMA ProcessQuiet ==
    ASSUME ProcessOK, DeferOK, UNCHANGED process
    PROVE  ProcessOK' /\ DeferOK'
BY DEF ProcessOK, DeferOK, process

\* Before the server serves there are no requests, whatever start-up does.
LEMMA StartQuiet ==
    ASSUME IInv, pc \notin Serving, UNCHANGED <<outside, memory, traffic>>
    PROVE  TrafficOK' /\ LogoutOK'
<1>1. UNCHANGED <<up, redis, promised, memory, http, inFlight, readiness>>
  BY DEF outside, traffic
<1>2. /\ http \in [Request -> HttpRequest] /\ \A r \in Request : http[r] = NoRequest
      /\ inFlight = Cardinality(InFlight) /\ readiness \in {0, 1}
  BY DEF IInv, TrafficOK
<1>3. http = [r \in Request |-> NoRequest]
  BY <1>2
<1>4. http' = [r \in Request |-> NoRequest]
  BY <1>1, <1>3
<1>5. Active' = {} /\ InFlight' = InFlight
  BY <1>1, <1>2, NoRequestOK DEF Active, InFlight
<1>6. TrafficOK'
  BY <1>1, <1>2, <1>4, <1>5, NoRequestOK DEF TrafficOK, RequestOK
<1>7. LogoutOK'
  BY <1>1, <1>2, NoRequestOK DEF IInv, LogoutOK
<1> QED
  BY <1>6, <1>7

\* The steps that end the process leave its requests alone until it exits.
LEMMA EndQuiet ==
    ASSUME IInv, UNCHANGED <<cfg, outside, memory, traffic>>, pc' \in Serving,
           pc' = "return" /\ result' # "error" => Active = {}
    PROVE  TrafficOK' /\ LogoutOK'
<1>1. UNCHANGED <<cfg, up, redis, promised, memory, http, inFlight, readiness>>
  BY DEF outside, traffic
<1>2. Active' = Active /\ InFlight' = InFlight
  BY <1>1 DEF Active, InFlight
<1>3. TrafficOK'
  BY <1>1, <1>2 DEF IInv, TrafficOK, RequestOK
<1>4. LogoutOK'
  BY <1>1 DEF IInv, LogoutOK
<1> QED
  BY <1>3, <1>4

\* The process is gone, and its memory.
LEMMA GoneInv ==
    ASSUME IInv, Gone, db' \in {"none", "closed"}, store' \in {"none", "closed"},
           deferred' = <<>>, result' \in {"none", "ok", "error", "killed"}
    PROVE  IInv'
<1>1. /\ pc' = "exited" /\ listener' = "off" /\ serverErr' = "empty" /\ quit' = FALSE
      /\ env' = NoFile /\ cfg' = NoFile /\ memory' = FALSE
      /\ http' = [r \in Request |-> NoRequest] /\ inFlight' = 0 /\ readiness' = 0
      /\ UNCHANGED <<mode, up, redis, promised>>
  BY DEF Gone, outside
<1>2. ProcessOK'
  BY <1>1 DEF IInv, ProcessOK, Stages, BeforeDB
<1>3. DeferOK'
  BY <1>1 DEF DeferOK, BeforeDB
<1>4. /\ \A r \in Request : http'[r] = NoRequest
      /\ Active' = {} /\ InFlight' = {}
  BY <1>1, NoRequestOK DEF Active, InFlight
<1>5. Cardinality(InFlight)' = 0
  BY <1>4, FS_EmptySet
<1>6. TrafficOK'
  BY <1>1, <1>4, <1>5, NoRequestOK DEF TrafficOK, RequestOK, Serving
<1>7. LogoutOK'
  BY <1>1, <1>4, NoRequestOK DEF IInv, LogoutOK
<1> QED
  BY <1>2, <1>3, <1>6, <1>7 DEF IInv

-----------------------------------------------------------------------------
(* Start-up. *)

\* The sequences of deferred calls.
LEMMA DeferredCalls ==
    /\ Append(<<"db">>, "store") = <<"db", "store">>
    /\ SubSeq(<<"db", "store">>, 1, 1) = <<"db">>
    /\ SubSeq(<<"db">>, 1, 0) = <<>>
    /\ <<"db">> # <<>> /\ <<"db", "store">> # <<>> /\ <<"db">> # <<"db", "store">>
<1> DEFINE s == Append(<<"db">>, "store")
           t == SubSeq(<<"db", "store">>, 1, 1)
<1>1. s \in Seq({"db", "store"}) /\ Len(s) = 2 /\ s[1] = "db" /\ s[2] = "store"
  OBVIOUS
<1>2. <<"db", "store">> \in Seq({"db", "store"})
  OBVIOUS
<1>3. t \in Seq({"db", "store"}) /\ Len(t) = 1 /\ t[1] = "db"
  BY <1>2
<1>4. SubSeq(<<"db">>, 1, 0) = <<>>
  OBVIOUS
<1> HIDE DEF s, t
<1>5. s = <<"db", "store">> /\ t = <<"db">>
  BY <1>1, <1>3
<1>6. <<"db">> # <<>> /\ <<"db", "store">> # <<>> /\ <<"db">> # <<"db", "store">>
  <2>1. Len(<<"db">>) = 1 /\ Len(<<"db", "store">>) = 2
    OBVIOUS
  <2> QED
    BY <2>1
<1> QED
  BY <1>4, <1>5, <1>6 DEF s, t

\* Each step preserves the invariant of the process and of what is open.
LEMMA StartUpInv ==
    ASSUME IInv, StartUp
    PROVE  IInv'
<1>0. ProcessOK /\ DeferOK
  BY DEF IInv
<1>1. CASE Main
  BY <1>0, <1>1, StartQuiet
     DEF Main, Return, Goto, IInv, ProcessOK, DeferOK, Serving, Stages, BeforeDB
<1>2. CASE LoadEnv
  <2>1. /\ pc = "load_env" /\ UNCHANGED <<mode, listener, serverErr, quit, cfg, db, store, deferred>>
        /\ UNCHANGED <<outside, memory, traffic>>
        /\ \/ pc' = "return" /\ result' = "error" /\ env' = env
           \/ /\ env' \in Envs /\ result' = result
              /\ pc' = CASE mode = "serve" -> "load_config"
                         [] mode = "migrate" -> "migration_db"
                         [] mode = "bootstrap-admin" -> "bootstrap_env"
    BY <1>2 DEF LoadEnv, Return, Goto, Idle
  <2>2. pc' \in {"return", "load_config", "migration_db", "bootstrap_env"}
        /\ (pc' # "return" => env' \in Envs)
    BY <1>0, <2>1 DEF ProcessOK
  <2>3. ProcessOK' /\ DeferOK'
    BY <1>0, <2>1, <2>2 DEF ProcessOK, DeferOK, Serving, Stages, BeforeDB
  <2> QED
    BY <2>1, <2>3, StartQuiet DEF IInv, Serving
<1>3. CASE BootstrapEnv
  <2>1. ProcessOK' /\ DeferOK'
    BY <1>0, <1>3
       DEF BootstrapEnv, Return, Goto, Idle, ProcessOK, DeferOK, Serving, Stages, BeforeDB
  <2> QED
    BY <1>3, <2>1, StartQuiet DEF BootstrapEnv, Idle, IInv, Serving
<1>4. CASE LoadConfig
  <2>1. PICK found \in [1..MaxFound -> Files \cup {NoFile}] :
          LET file == findFileUpward(found, NoFile) IN
          IF file # NoFile /\ Loads(file, env)
          THEN cfg' = Loaded(file, env) /\ Goto("init_db") /\ UNCHANGED env
          ELSE Return("error") /\ env' = NoFile /\ UNCHANGED cfg
    BY <1>4 DEF LoadConfig
  <2> DEFINE file == findFileUpward(found, NoFile)
  <2>2. pc = "load_config" /\ UNCHANGED <<mode, listener, serverErr, quit, db, store, deferred>>
        /\ UNCHANGED <<outside, memory, traffic>>
    BY <1>4 DEF LoadConfig, Idle
  <2>3. env \in Environment
    BY <1>0, <2>2, ServerAssumption DEF ProcessOK
  <2>4. \/ /\ cfg' \in Config /\ Validate(cfg') /\ pc' = "init_db" /\ UNCHANGED <<result, env>>
        \/ pc' = "return" /\ result' = "error" /\ env' = NoFile /\ cfg' = cfg
    <3>1. CASE file # NoFile /\ Loads(file, env)
      <4>1. file \in Config
        BY <3>1, FirstFile, ServerAssumption
      <4> HIDE DEF file
      <4>2. Loaded(file, env) \in Config /\ Validate(Loaded(file, env))
        BY <2>3, <3>1, <4>1, LoadedType DEF Loads
      <4>3. cfg' = Loaded(file, env) /\ Goto("init_db") /\ UNCHANGED env
        BY <2>1, <3>1 DEF file
      <4> QED
        BY <4>2, <4>3 DEF Goto
    <3>2. CASE ~(file # NoFile /\ Loads(file, env))
      BY <2>1, <3>2 DEF Return
    <3> QED
      BY <3>1, <3>2
  <2>5. Validate(cfg') => Validate(cfg)'
    BY DEF Validate
  <2>6. ProcessOK' /\ DeferOK'
    BY <1>0, <2>2, <2>4, <2>5 DEF ProcessOK, DeferOK, Serving, Stages, BeforeDB
  <2> QED
    BY <2>2, <2>6, StartQuiet DEF IInv, Serving
<1>5. CASE InitDB \/ OpenMigrationDB
  <2>1. /\ pc \in {"init_db", "migration_db"}
        /\ \/ /\ db' = "open" /\ deferred' = Append(deferred, "db") /\ UNCHANGED result
              /\ pc' \in {"token", "command"} /\ (pc' = "token" => pc = "init_db")
           \/ /\ db' \in {"none", "closed"} /\ UNCHANGED deferred
              /\ pc' = "return" /\ result' = "error"
        /\ env' = NoFile /\ UNCHANGED <<mode, listener, serverErr, quit, cfg, store>>
        /\ UNCHANGED <<outside, memory, traffic>>
    BY <1>5 DEF InitDB, OpenMigrationDB, OpenDatabase, Goto, Return, Idle
  <2>2. deferred = <<>> /\ Append(<<>>, "db") = <<"db">>
    BY <1>0, <2>1 DEF DeferOK, BeforeDB
  <2>3. ProcessOK'
    BY <1>0, <2>1 DEF ProcessOK, Serving, Stages, BeforeDB
  <2>4. DeferOK'
    BY <1>0, <2>1, <2>2 DEF DeferOK, BeforeDB
  <2> QED
    BY <2>1, <2>3, <2>4, StartQuiet DEF IInv, Serving
<1>6. CASE Command
  <2>1. ProcessOK' /\ DeferOK'
    BY <1>0, <1>6
       DEF Command, Return, Goto, Idle, ProcessOK, DeferOK, Serving, Stages, BeforeDB
  <2> QED
    BY <1>6, <2>1, StartQuiet DEF Command, Idle, IInv, Serving
<1>7. CASE NewTokenManager
  <2>1. /\ pc = "token" /\ UNCHANGED <<mode, listener, serverErr, quit, env, cfg, db, store, deferred>>
        /\ UNCHANGED <<outside, memory, traffic>>
        /\ \/ NewTokenManagerWithTTL(cfg) /\ pc' = "store" /\ UNCHANGED result
           \/ pc' = "return" /\ result' = "error"
    BY <1>7 DEF NewTokenManager, Return, Goto, Idle
  <2>2. ProcessOK' /\ DeferOK'
    BY <1>0, <2>1 DEF ProcessOK, DeferOK, Serving, Stages, BeforeDB
  <2> QED
    BY <2>1, <2>2, StartQuiet DEF IInv, Serving
<1>8. CASE NewAuthStateStore
  <2>1. /\ pc = "store" /\ UNCHANGED <<mode, env, cfg, db, serverErr, quit>>
        /\ UNCHANGED <<outside, memory, traffic>>
        /\ \/ /\ store' = "open" /\ deferred' = Append(deferred, "store")
              /\ pc' = "serve" /\ UNCHANGED result /\ listener' = "starting"
           \/ /\ store' = "closed" /\ pc' = "return" /\ result' = "error"
              /\ UNCHANGED <<deferred, listener>>
    BY <1>8 DEF NewAuthStateStore, Goto, Return
  <2>2. deferred = <<"db">> /\ Append(<<"db">>, "store") = <<"db", "store">>
    BY <1>0, <2>1, DeferredCalls DEF DeferOK
  <2>3. ProcessOK'
    BY <1>0, <2>1 DEF ProcessOK, Serving, Stages, BeforeDB
  <2>4. DeferOK'
    BY <1>0, <2>1, <2>2 DEF DeferOK, BeforeDB
  <2> QED
    BY <2>1, <2>3, <2>4, StartQuiet DEF IInv, Serving
<1> QED
  BY <1>1, <1>2, <1>3, <1>4, <1>5, <1>6, <1>7, <1>8 DEF StartUp

-----------------------------------------------------------------------------
(* Serving and shutting down. *)

\* The goroutine that listens, and signals, only set what run waits for.
LEMMA WaitInv ==
    ASSUME IInv, Listen \/ ListenFails \/ Signal
    PROVE  IInv'
<1>1. /\ pc = "serve" /\ UNCHANGED <<mode, pc, env, cfg, db, store, deferred, result>>
      /\ listener' \in {"off", "starting", "listening", "ended"}
      /\ serverErr' \in {"empty", "error"} /\ quit' \in BOOLEAN
      /\ UNCHANGED <<outside, memory, traffic>>
  BY DEF Listen, ListenFails, Signal, IInv, ProcessOK
<1>2. ProcessOK' /\ DeferOK'
  BY <1>1 DEF IInv, ProcessOK, DeferOK
<1> QED
  BY <1>1, <1>2, EndQuiet DEF IInv, Serving

\* From the select in run to the return of run.
LEMMA EndingInv ==
    ASSUME IInv, Ending
    PROVE  IInv'
<1>0. ProcessOK /\ DeferOK
  BY DEF IInv
<1>1. CASE ServerRunFailed \/ BeginShutdown \/ Shutdown
  <2>1. /\ pc \in {"serve", "shutdown"} /\ pc' \in {"shutdown", "return"}
        /\ UNCHANGED <<mode, env, cfg, db, store, deferred>>
        /\ listener' \in {"off", "starting", "listening", "ended"}
        /\ serverErr' \in {"empty", "error"} /\ quit' \in BOOLEAN
        /\ UNCHANGED <<outside, memory, traffic>>
        /\ result' \in {"none", "ok", "error", "killed"}
        /\ pc' = "return" /\ result' # "error" => Active = {}
    BY <1>0, <1>1 DEF ServerRunFailed, BeginShutdown, Shutdown, Return, Goto, ProcessOK
  <2>2. ProcessOK' /\ DeferOK'
    BY <1>0, <2>1 DEF ProcessOK, DeferOK, Serving, Stages, BeforeDB
  <2> QED
    BY <2>1, <2>2, EndQuiet DEF IInv, Serving
<1>2. CASE RunDeferred
  <2>1. /\ pc = "return" /\ deferred # <<>>
        /\ deferred' = SubSeq(deferred, 1, Len(deferred) - 1)
        /\ db' = IF deferred[Len(deferred)] = "db" THEN "closed" ELSE db
        /\ store' = IF deferred[Len(deferred)] = "store" THEN "closed" ELSE store
        /\ UNCHANGED <<mode, pc, env, cfg, listener, serverErr, quit, result>>
        /\ UNCHANGED <<outside, memory, traffic>>
    BY <1>2 DEF RunDeferred
  <2>2. ProcessOK'
    BY <1>0, <2>1 DEF ProcessOK
  <2>3. TrafficOK' /\ LogoutOK'
    BY <2>1, EndQuiet DEF IInv, TrafficOK, Serving
  <2>4. CASE deferred = <<"db">>
    <3>1. db' = "closed" /\ store' = store /\ deferred' = <<>>
      BY <2>1, <2>4, DeferredCalls
    <3>2. DeferOK'
      BY <1>0, <2>1, <2>4, <3>1 DEF DeferOK, BeforeDB
    <3> QED
      BY <2>2, <2>3, <3>2 DEF IInv
  <2>5. CASE deferred = <<"db", "store">>
    <3>1. db' = db /\ store' = "closed" /\ deferred' = <<"db">>
      BY <2>1, <2>5, DeferredCalls
    <3>2. DeferOK'
      BY <1>0, <2>1, <2>5, <3>1, DeferredCalls DEF DeferOK, BeforeDB
    <3> QED
      BY <2>2, <2>3, <3>2 DEF IInv
  <2> QED
    BY <1>0, <2>1, <2>4, <2>5 DEF DeferOK
<1>3. CASE Exit
  BY <1>0, <1>3, GoneInv DEF Exit, DeferOK, ProcessOK
<1> QED
  BY <1>1, <1>2, <1>3 DEF Ending

\* The process is killed, or started again.
LEMMA KillInv ==
    ASSUME IInv, Kill \/ Restart
    PROVE  IInv'
<1>1. CASE Kill
  BY <1>1, GoneInv DEF Kill
<1>2. CASE Restart
  <2>1. /\ pc = "exited" /\ pc' = "main" /\ mode' = "usage" /\ result' = "none"
        /\ db' = "none" /\ store' = "none"
        /\ UNCHANGED <<env, cfg, deferred, listener, serverErr, quit>>
        /\ UNCHANGED <<outside, memory, traffic>>
    BY <1>2 DEF Restart
  <2>2. ProcessOK' /\ DeferOK'
    BY <2>1 DEF IInv, ProcessOK, DeferOK, Serving, Stages, BeforeDB
  <2> QED
    BY <2>1, <2>2, StartQuiet DEF IInv, Serving
<1> QED
  BY <1>1, <1>2

\* The database or the Redis server goes away or comes back.
LEMMA DependencyInv ==
    ASSUME IInv, NEW d \in Resource, DependencyChanges(d)
    PROVE  IInv'
<1>1. up' = [up EXCEPT ![d] = ~@] /\ UNCHANGED process
      /\ UNCHANGED <<pc, result, cfg, redis, promised, memory, http, inFlight, readiness>>
  BY DEF DependencyChanges, process, traffic
<1>2. up' \in [Resource -> BOOLEAN]
  BY <1>1, Zenon DEF IInv, LogoutOK
<1>3. Active' = Active /\ InFlight' = InFlight
  BY <1>1 DEF Active, InFlight
<1>4. TrafficOK'
  BY <1>1, <1>3 DEF IInv, TrafficOK, RequestOK
<1>5. LogoutOK'
  BY <1>1, <1>2 DEF IInv, LogoutOK
<1> QED
  BY <1>1, <1>4, <1>5, ProcessQuiet DEF IInv

-----------------------------------------------------------------------------
(* Requests. *)

\* Counting a request in or out.
LEMMA CountStep ==
    ASSUME http \in [Request -> HttpRequest], inFlight = Cardinality(InFlight),
           NEW r \in Request, NEW m \in HttpRequest, http' = [http EXCEPT ![r] = m],
           NEW isIn, isIn = (m.client \in {"waiting", "written"} /\ m.path # "metrics"),
           inFlight' = IF isIn THEN IF r \in InFlight THEN inFlight ELSE inFlight + 1
                       ELSE IF r \in InFlight THEN inFlight - 1 ELSE inFlight
    PROVE  inFlight' = Cardinality(InFlight)'
<1>1. IsFiniteSet(InFlight) /\ Cardinality(InFlight) \in Nat
  BY FS_Subset, FS_CardinalityType, ServerAssumption DEF InFlight, Active
<1>2. CASE isIn
  <2>1. InFlight' = InFlight \cup {r}
    BY <1>2 DEF InFlight, Active
  <2> QED
    BY <1>1, <1>2, <2>1, FS_AddElement
<1>3. CASE ~isIn
  <2>1. InFlight' = InFlight \ {r}
    BY <1>3 DEF InFlight, Active
  <2> QED
    BY <1>1, <1>3, <2>1, FS_RemoveElement
<1> QED
  BY <1>2, <1>3

\* A step of one request: what is required of its new state m.
LEMMA RequestStep ==
    ASSUME IInv, UNCHANGED process, pc \in Serving,
           NEW r \in Request, NEW m, http' = [http EXCEPT ![r] = m], RequestOK(m),
           m.client \in {"waiting", "written"} =>
              pc = "serve" \/ http[r].client \in {"waiting", "written"},
           inFlight' = Cardinality(InFlight)',
           readiness' \in {0, 1}, up' = up,
           redis' \in BOOLEAN, memory' \in BOOLEAN, promised' \in BOOLEAN,
           redis => redis', promised' => redis',
           m.job # "none" => Validate(cfg),
           m.logout /\ cfg.redis => redis', m.logout => m.job = "done"
    PROVE  IInv'
<1>1. UNCHANGED <<pc, cfg, result>> /\ ProcessOK' /\ DeferOK'
  BY ProcessQuiet DEF process, IInv
<1>2. /\ http \in [Request -> HttpRequest] /\ m \in HttpRequest
      /\ http' \in [Request -> HttpRequest] /\ http'[r] = m
      /\ \A q \in Request : q # r => http'[q] = http[q]
  BY DEF IInv, TrafficOK, RequestOK
<1>3. pc # "serve" => Active' \subseteq Active
  BY <1>2 DEF Active
<1>4. TrafficOK'
  <2>1. \A q \in Request : RequestOK(http[q])'
    BY <1>2 DEF IInv, TrafficOK, RequestOK
  <2>2. pc' = "return" /\ result' # "error" => Active' = {}
    BY <1>1, <1>3 DEF IInv, TrafficOK
  <2> QED
    BY <1>1, <1>2, <2>1, <2>2 DEF TrafficOK
<1>5. LogoutOK'
  <2>1. ASSUME NEW q \in Request
        PROVE  /\ http'[q].job # "none" => Validate(cfg)'
               /\ http'[q].logout /\ cfg'.redis => redis'
               /\ http'[q].logout => http'[q].job = "done"
    <3>0. Validate(cfg)' = Validate(cfg) /\ cfg'.redis = cfg.redis
      BY <1>1 DEF Validate
    <3>1. CASE q = r
      BY <1>2, <3>0, <3>1
    <3>2. CASE q # r
      BY <1>2, <3>0, <3>2 DEF IInv, LogoutOK
    <3> QED
      BY <3>1, <3>2
  <2> QED
    BY <2>1 DEF IInv, LogoutOK
<1> QED
  BY <1>1, <1>4, <1>5 DEF IInv

\* A request under way: the process serves, and was configured.
LEMMA UnderWay ==
    ASSUME IInv, NEW r \in Request
    PROVE  /\ http[r] \in HttpRequest /\ http \in [Request -> HttpRequest]
           /\ RequestOK(http[r])
           /\ http[r].client # "none" => pc \in Serving
           /\ http[r].job # "none" => pc \in Serving /\ Validate(cfg)
           /\ r \in InFlight <=> /\ http[r].client \in {"waiting", "written"}
                                 /\ http[r].path # "metrics"
           /\ inFlight = Cardinality(InFlight) /\ readiness \in {0, 1}
           /\ redis \in BOOLEAN /\ memory \in BOOLEAN /\ promised \in BOOLEAN
           /\ promised => redis
           /\ http[r].logout /\ cfg.redis => redis
           /\ http[r].logout => http[r].job = "done"
BY NoRequestOK DEF IInv, TrafficOK, LogoutOK, InFlight, Active

\* A step of the handler's goroutine leaves what its client sees alone.
LEMMA JobStep ==
    ASSUME IInv, UNCHANGED process, NEW r \in Request, NEW m \in HttpRequest,
           http' = [http EXCEPT ![r] = m], http[r].job # "none",
           m.client = http[r].client, m.path = http[r].path, m.seen = http[r].seen,
           m.counted = http[r].counted,
           inFlight' = inFlight, readiness' \in {0, 1}, up' = up,
           redis' \in BOOLEAN, memory' \in BOOLEAN, promised' = promised,
           redis => redis',
           m.logout /\ cfg.redis => redis', m.logout => m.job = "done"
    PROVE  IInv'
<1>1. RequestOK(m)
  BY UnderWay DEF RequestOK
<1>2. inFlight' = Cardinality(InFlight)'
  <2> DEFINE isIn == m.client \in {"waiting", "written"} /\ m.path # "metrics"
  <2>1. isIn <=> r \in InFlight
    BY UnderWay
  <2>2. inFlight' = IF isIn THEN IF r \in InFlight THEN inFlight ELSE inFlight + 1
                    ELSE IF r \in InFlight THEN inFlight - 1 ELSE inFlight
    BY <2>1
  <2> QED
    BY <2>2, UnderWay, CountStep
<1>3. promised' \in BOOLEAN /\ (promised' => redis')
  BY UnderWay
<1>4. m.job # "none" => Validate(cfg)
  BY UnderWay
<1>5. pc \in Serving
  BY UnderWay
<1> QED
  BY <1>1, <1>2, <1>3, <1>4, <1>5, RequestStep

\* A request from its parts.
Make(c, p, j, s, n, k, l) ==
    [client |-> c, path |-> p, job |-> j, status |-> s, seen |-> n, counted |-> k,
     logout |-> l]

Clients == {"none", "waiting", "written", "gone"}
Paths   == {"api", "metrics", "readyz"}
Jobs    == {"none", "work", "ping_db", "ping_store", "ready", "unready", "done"}
Codes   == {0, 200, 500, 503}
Counts  == Seq(Nat)
Flags   == BOOLEAN
Yes     == TRUE
No      == FALSE

\* What is made of parts of the right types is a request with these parts.
LEMMA Made ==
    ASSUME NEW c \in Clients, NEW p \in Paths, NEW j \in Jobs, NEW s \in Codes,
           NEW n \in Codes, NEW k \in Counts, NEW l \in Flags,
           NEW m, m = Make(c, p, j, s, n, k, l)
    PROVE  /\ m \in HttpRequest
           /\ m.client = c /\ m.path = p /\ m.job = j /\ m.status = s /\ m.seen = n
           /\ m.counted = k /\ m.logout = l
<1>1. [client |-> c, path |-> p, job |-> j, status |-> s, seen |-> n, counted |-> k,
       logout |-> l] \in HttpRequest
  BY SMT DEF HttpRequest, Clients, Paths, Jobs, Codes, Counts, Flags
<1>2. m.client = c /\ m.path = p /\ m.job = j /\ m.status = s /\ m.seen = n
      /\ m.counted = k /\ m.logout = l
  BY Zenon DEF Make
<1> QED
  BY <1>1, <1>2 DEF Make

\* The parts of a request.
LEMMA Parts ==
    ASSUME NEW o \in HttpRequest
    PROVE  /\ o.client \in Clients /\ o.path \in Paths /\ o.job \in Jobs
           /\ o.status \in Codes /\ o.seen \in Codes
           /\ o.counted \in Counts /\ o.logout \in Flags
           /\ Yes \in Flags /\ No \in Flags
BY DEF HttpRequest, Clients, Paths, Jobs, Codes, Counts, Flags, Yes, No

\* The updates of a request.
SetJob(o, j, s)       == [o EXCEPT !.job = j, !.status = s]
SetEnd(o, j, s, l)    == [o EXCEPT !.job = j, !.status = s, !.logout = l]
SetAnswer(o, c, j, n, l) == [o EXCEPT !.client = c, !.job = j, !.seen = n, !.logout = l]
SetSeen(o, c, n)      == [o EXCEPT !.client = c, !.seen = n]
SetCounted(o, c, k, s) == [o EXCEPT !.client = c, !.counted = k, !.status = s]

\* What they make of its parts.
LEMMA Updates ==
    ASSUME NEW o \in HttpRequest, NEW c, NEW j, NEW s, NEW n, NEW k, NEW l
    PROVE  /\ SetJob(o, j, s)
                = Make(o.client, o.path, j, s, o.seen, o.counted, o.logout)
           /\ SetEnd(o, j, s, l)
                = Make(o.client, o.path, j, s, o.seen, o.counted, l)
           /\ SetAnswer(o, c, j, n, l)
                = Make(c, o.path, j, o.status, n, o.counted, l)
           /\ SetSeen(o, c, n)
                = Make(c, o.path, o.job, o.status, n, o.counted, o.logout)
           /\ SetCounted(o, c, k, s)
                = Make(c, o.path, o.job, s, o.seen, k, o.logout)
<1>0. PICK c0, p0, j0, s0, n0, k0, l0 :
        o = [client |-> c0, path |-> p0, job |-> j0, status |-> s0, seen |-> n0,
             counted |-> k0, logout |-> l0]
  BY DEF HttpRequest
<1>1. ASSUME NEW w, w = [o EXCEPT !.job = j, !.status = s]
      PROVE  w = Make(o.client, o.path, j, s, o.seen, o.counted, o.logout)
  BY <1>0, <1>1 DEF Make
<1>2. ASSUME NEW w, w = [o EXCEPT !.job = j, !.status = s, !.logout = l]
      PROVE  w = Make(o.client, o.path, j, s, o.seen, o.counted, l)
  BY <1>0, <1>2 DEF Make
<1>3. ASSUME NEW w, w = [o EXCEPT !.client = c, !.job = j, !.seen = n, !.logout = l]
      PROVE  w = Make(c, o.path, j, o.status, n, o.counted, l)
  BY <1>0, <1>3 DEF Make
<1>4. ASSUME NEW w, w = [o EXCEPT !.client = c, !.seen = n]
      PROVE  w = Make(c, o.path, o.job, o.status, n, o.counted, o.logout)
  BY <1>0, <1>4 DEF Make
<1>5. ASSUME NEW w, w = [o EXCEPT !.client = c, !.counted = k, !.status = s]
      PROVE  w = Make(c, o.path, o.job, s, o.seen, k, o.logout)
  BY <1>0, <1>5 DEF Make
<1> QED
  BY <1>1, <1>2, <1>3, <1>4, <1>5, Zenon
     DEF SetJob, SetEnd, SetAnswer, SetSeen, SetCounted

\* The same updates, at one request of all.
JobAt(h, r, j, s)  == [h EXCEPT ![r].job = j, ![r].status = s]
SeenAt(h, r, c, n) == [h EXCEPT ![r].client = c, ![r].seen = n]

\* They replace that request.
LEMMA Placed ==
    ASSUME NEW h \in [Request -> HttpRequest], NEW r \in Request,
           NEW c, NEW j, NEW s, NEW n
    PROVE  /\ JobAt(h, r, j, s) = [h EXCEPT ![r] = SetJob(h[r], j, s)]
           /\ SeenAt(h, r, c, n) = [h EXCEPT ![r] = SetSeen(h[r], c, n)]
<1>1. ASSUME NEW w, w = [h EXCEPT ![r].job = j, ![r].status = s]
      PROVE  w = [h EXCEPT ![r] = SetJob(h[r], j, s)]
  BY <1>1 DEF SetJob
<1>2. ASSUME NEW w, w = [h EXCEPT ![r].client = c, ![r].seen = n]
      PROVE  w = [h EXCEPT ![r] = SetSeen(h[r], c, n)]
  BY <1>2 DEF SetSeen
<1> QED
  BY <1>1, <1>2, Zenon DEF JobAt, SeenAt

\* The goroutine of a handler: its work, the pings of the readiness check and what
\* it records of them.
LEMMA HandlerInv ==
    ASSUME IInv, NEW r \in Request,
           \/ Work(r) \/ PingDatabase(r) \/ PingStore(r)
           \/ FailReadiness(r) \/ RecordReady(r)
    PROVE  IInv'
<1> DEFINE o == http[r]
<1>1. PICK job \in {"ping_store", "ready", "unready", "done"}, status \in {o.status, 200, 500, 503} :
         http' = JobAt(http, r, job, status)
  BY UnderWay DEF Work, PingDatabase, PingStore, FailReadiness, RecordReady, Produce, JobAt
<1>2. /\ o.job \in {"work", "ping_db", "ping_store", "unready", "ready"}
      /\ UNCHANGED <<process, up, redis, promised, memory, inFlight>>
      /\ readiness' \in {0, 1}
  BY UnderWay DEF Work, PingDatabase, PingStore, FailReadiness, RecordReady, Produce, outside
<1> DEFINE m == Make(o.client, o.path, job, status, o.seen, o.counted, o.logout)
<1>3. o \in HttpRequest /\ http \in [Request -> HttpRequest]
  BY UnderWay
<1>4. m = Make(o.client, o.path, job, status, o.seen, o.counted, o.logout)
  OBVIOUS
<1> HIDE DEF m
<1>5. http' = [http EXCEPT ![r] = m]
  <2>1. http' = [http EXCEPT ![r] = SetJob(o, job, status)]
    <3>1. JobAt(http, r, job, status) = [http EXCEPT ![r] = SetJob(http[r], job, status)]
      BY <1>3, Placed
    <3> QED
      BY <1>1, <3>1, Zenon
  <2>2. SetJob(o, job, status) = m
    BY <1>3, <1>4, Updates
  <2> QED
    BY <2>1, <2>2
<1>6. m \in HttpRequest /\ m.client = o.client /\ m.path = o.path /\ m.seen = o.seen
      /\ m.counted = o.counted /\ m.logout = o.logout
  <2>1. job \in Jobs /\ status \in Codes
    BY <1>3, Parts DEF Jobs, Codes
  <2> QED
    BY <1>3, <1>4, <2>1, Parts, Made
<1>7. redis' \in BOOLEAN /\ memory' \in BOOLEAN /\ (redis => redis') /\ ~o.logout
  BY <1>2, UnderWay
<1>8. o.job # "none" /\ ~m.logout /\ readiness' \in {0, 1}
      /\ UNCHANGED process /\ UNCHANGED <<up, promised, inFlight>>
  BY <1>2, <1>6, <1>7
<1> QED
  BY <1>3, <1>5, <1>6, <1>7, <1>8, JobStep

\* A logout stores the revocation before its handler ends.
LEMMA LogoutInv ==
    ASSUME IInv, NEW r \in Request, Logout(r)
    PROVE  IInv'
<1> DEFINE o == http[r]
           m == Make(o.client, o.path, "done", 200, o.seen, o.counted, Yes)
<1>1. /\ o.job = "work" /\ redis' = (redis \/ cfg.redis) /\ memory' = (memory \/ ~cfg.redis)
      /\ http' = [http EXCEPT ![r].job = "done", ![r].status = 200, ![r].logout = Yes]
      /\ UNCHANGED <<process, up, promised, inFlight, readiness>>
  BY DEF Logout, Yes
<1>2. o \in HttpRequest /\ http \in [Request -> HttpRequest] /\ readiness' \in {0, 1}
  BY <1>1, UnderWay
<1>3. m = Make(o.client, o.path, "done", 200, o.seen, o.counted, Yes)
  OBVIOUS
<1> HIDE DEF m
<1>4. http' = [http EXCEPT ![r] = m]
  <2>1. http' = [http EXCEPT ![r] = SetEnd(o, "done", 200, Yes)]
    BY <1>1, <1>2 DEF SetEnd
  <2>2. SetEnd(o, "done", 200, Yes) = m
    BY <1>2, <1>3, Updates
  <2> QED
    BY <2>1, <2>2
<1>5. m \in HttpRequest /\ m.client = o.client /\ m.path = o.path /\ m.seen = o.seen
      /\ m.counted = o.counted /\ m.job = "done"
  <2>1. "done" \in Jobs /\ 200 \in Codes
    BY DEF Jobs, Codes
  <2> QED
    BY <1>2, <1>3, <2>1, Parts, Made
<1>6. redis' \in BOOLEAN /\ memory' \in BOOLEAN /\ (redis => redis') /\ (cfg.redis => redis')
  BY <1>1, Zenon
<1>7. /\ o.job # "none" /\ (m.logout /\ cfg.redis => redis') /\ (m.logout => m.job = "done")
      /\ UNCHANGED <<process, up, promised, inFlight>>
  BY <1>1, <1>5, <1>6
<1> QED
  BY <1>2, <1>4, <1>5, <1>6, <1>7, JobStep

\* What the goroutine writes after the timeout is discarded.
LEMMA DiscardInv ==
    ASSUME IInv, NEW r \in Request, Discard(r)
    PROVE  IInv'
<1> DEFINE o == http[r]
           m == Make(o.client, o.path, "none", 0, o.seen, o.counted, No)
<1>1. /\ o.job = "done"
      /\ http' = [http EXCEPT ![r].job = "none", ![r].status = 0, ![r].logout = No]
      /\ UNCHANGED <<process, up, redis, promised, memory, inFlight, readiness>>
  BY DEF Discard, outside, No
<1>2. o \in HttpRequest /\ http \in [Request -> HttpRequest] /\ readiness' \in {0, 1}
  BY <1>1, UnderWay
<1>3. m = Make(o.client, o.path, "none", 0, o.seen, o.counted, No)
  OBVIOUS
<1> HIDE DEF m
<1>4. http' = [http EXCEPT ![r] = m]
  <2>1. http' = [http EXCEPT ![r] = SetEnd(o, "none", 0, No)]
    BY <1>1, <1>2 DEF SetEnd
  <2>2. SetEnd(o, "none", 0, No) = m
    BY <1>2, <1>3, Updates
  <2> QED
    BY <2>1, <2>2
<1>5. m \in HttpRequest /\ m.client = o.client /\ m.path = o.path /\ m.seen = o.seen
      /\ m.counted = o.counted /\ m.logout = No
  <2>1. "none" \in Jobs /\ 0 \in Codes
    BY DEF Jobs, Codes
  <2> QED
    BY <1>2, <1>3, <2>1, Parts, Made
<1>6. ~m.logout
  BY <1>5 DEF No
<1>7. redis' \in BOOLEAN /\ memory' \in BOOLEAN /\ (redis => redis')
  BY <1>1, UnderWay
<1> QED
  BY <1>1, <1>2, <1>4, <1>5, <1>6, <1>7, JobStep

\* A request arrives and is counted in.
LEMMA ArriveInv ==
    ASSUME IInv, NEW r \in Request, NEW path \in Paths, Arrive(r, path)
    PROVE  IInv'
<1> DEFINE job == IF path = "readyz" THEN "ping_db" ELSE "work"
           m == Make("waiting", path, job, 0, 0, <<>>, No)
<1>1. [NoRequest EXCEPT !.client = "waiting", !.path = path, !.job = job] = m
  <2>1. PICK w : w = [NoRequest EXCEPT !.client = "waiting", !.path = path, !.job = job]
    OBVIOUS
  <2> HIDE DEF job
  <2>2. w = m
    BY <2>1 DEF NoRequest, Make, No
  <2> QED
    BY <2>1, <2>2
<1>2. /\ pc = "serve" /\ http[r].client \in {"none", "gone"} /\ http[r].job = "none"
      /\ http' = [http EXCEPT ![r] = m]
      /\ inFlight' = IF path = "metrics" THEN inFlight ELSE inFlight + 1
      /\ UNCHANGED <<process, up, redis, promised, memory, readiness>>
  BY <1>1 DEF Arrive, outside
<1>3. m = Make("waiting", path, job, 0, 0, <<>>, No)
  OBVIOUS
<1>4. job \in Jobs /\ 0 \in Codes /\ <<>> \in Counts /\ "waiting" \in Clients /\ No \in Flags
  BY DEF Jobs, Codes, Counts, Clients, No, Flags
<1> HIDE DEF m, job
<1>5. m \in HttpRequest /\ m.client = "waiting" /\ m.path = path /\ m.counted = <<>>
      /\ m.logout = No
  BY <1>3, <1>4, Made
<1>6. ~m.logout
  BY <1>5 DEF No
<1>7. RequestOK(m)
  BY <1>5 DEF RequestOK
<1>8. inFlight' = Cardinality(InFlight)'
  <2> DEFINE isIn == m.client \in {"waiting", "written"} /\ m.path # "metrics"
  <2>1. r \notin InFlight /\ (isIn <=> path # "metrics")
    BY <1>2, <1>5, UnderWay
  <2>2. inFlight' = IF isIn THEN IF r \in InFlight THEN inFlight ELSE inFlight + 1
                    ELSE IF r \in InFlight THEN inFlight - 1 ELSE inFlight
    BY <1>2, <2>1
  <2> QED
    BY <1>2, <1>5, <2>2, UnderWay, CountStep
<1>9. Validate(cfg) /\ pc \in Serving
  BY <1>2 DEF IInv, ProcessOK, Serving
<1>10. /\ redis' \in BOOLEAN /\ memory' \in BOOLEAN /\ promised' \in BOOLEAN
       /\ readiness' \in {0, 1} /\ (redis => redis') /\ (promised' => redis')
  BY <1>2, UnderWay
<1> QED
  BY <1>2, <1>5, <1>6, <1>7, <1>8, <1>9, <1>10, RequestStep

\* The client is answered, by the handler or by TimeoutHandler; an answer that
\* confirms a logout in production was stored in Redis.
LEMMA AnswerInv ==
    ASSUME IInv, NEW r \in Request, Answer(r) \/ Timeout(r)
    PROVE  IInv'
<1> DEFINE o == http[r]
           a == Make("written", o.path, "none", o.status, o.status, o.counted, No)
           b == Make("written", o.path, o.job, o.status, 503, o.counted, o.logout)
<1>1. o \in HttpRequest /\ http \in [Request -> HttpRequest] /\ RequestOK(o)
  BY UnderWay
<1>2. /\ a = Make("written", o.path, "none", o.status, o.status, o.counted, No)
      /\ b = Make("written", o.path, o.job, o.status, 503, o.counted, o.logout)
      /\ "written" \in Clients /\ "none" \in Jobs /\ 503 \in Codes
  BY DEF Clients, Jobs, Codes
<1> HIDE DEF a, b
<1>3. /\ a \in HttpRequest /\ a.client = "written" /\ a.job = "none" /\ a.logout = No
      /\ a.path = o.path /\ a.counted = o.counted
  BY <1>1, <1>2, Parts, Made
<1>4. /\ b \in HttpRequest /\ b.client = "written" /\ b.job = o.job
      /\ b.path = o.path /\ b.counted = o.counted /\ b.logout = o.logout
  BY <1>1, <1>2, Parts, Made
<1>5. PICK m \in {a, b} : http' = [http EXCEPT ![r] = m]
  <2>1. CASE Answer(r)
    <3>1. http' = [http EXCEPT ![r] = SetAnswer(o, "written", "none", o.status, No)]
      BY <1>1, <2>1 DEF Answer, SetAnswer, No
    <3>2. SetAnswer(o, "written", "none", o.status, No) = a
      BY <1>1, <1>2, Updates
    <3> QED
      BY <3>1, <3>2
  <2>2. CASE Timeout(r)
    <3>1. http' = SeenAt(http, r, "written", 503)
      BY <2>2 DEF Timeout, SeenAt
    <3>2. http' = [http EXCEPT ![r] = SetSeen(o, "written", 503)]
      BY <1>1, <3>1, Placed
    <3>3. SetSeen(o, "written", 503) = b
      BY <1>1, <1>2, Updates
    <3> QED
      BY <3>2, <3>3
  <2> QED
    BY <2>1, <2>2
<1>6. /\ o.client = "waiting" /\ UNCHANGED <<process, up, redis, memory, inFlight, readiness>>
      /\ \/ promised' = promised
         \/ o.job = "done" /\ promised' = (promised \/ (o.logout /\ cfg.environment = "production"))
  BY DEF Answer, Timeout, outside
<1>7. /\ m \in HttpRequest /\ m.client = "written" /\ m.path = o.path
      /\ m.counted = o.counted
      /\ m.job # "none" => Validate(cfg)
      /\ (m.logout /\ cfg.redis => redis) /\ (m.logout => m.job = "done")
  <2>1. CASE m = a
    BY <1>3, <2>1 DEF No
  <2>2. CASE m = b
    BY <1>4, <2>2, UnderWay
  <2> QED
    BY <2>1, <2>2
<1>8. RequestOK(m)
  BY <1>1, <1>6, <1>7 DEF RequestOK
<1>9. inFlight' = Cardinality(InFlight)'
  <2> DEFINE isIn == m.client \in {"waiting", "written"} /\ m.path # "metrics"
  <2>1. isIn <=> r \in InFlight
    BY <1>6, <1>7, UnderWay
  <2>2. inFlight' = IF isIn THEN IF r \in InFlight THEN inFlight ELSE inFlight + 1
                    ELSE IF r \in InFlight THEN inFlight - 1 ELSE inFlight
    BY <1>6, <2>1
  <2> QED
    BY <1>5, <1>7, <2>2, UnderWay, CountStep
<1>10. promised' \in BOOLEAN /\ (promised' => redis')
  <2>1. CASE promised' = promised
    BY <1>6, <2>1, UnderWay
  <2>2. CASE o.job = "done" /\ promised' = (promised \/ (o.logout /\ cfg.environment = "production"))
    <3>1. cfg.environment = "production" => cfg.redis
      BY <2>2, UnderWay DEF Validate
    <3>2. (promised => redis) /\ (o.logout /\ cfg.redis => redis)
      BY UnderWay
    <3> QED
      BY <1>6, <2>2, <3>1, <3>2, Zenon
  <2> QED
    BY <1>6, <2>1, <2>2
<1>11. /\ redis' \in BOOLEAN /\ memory' \in BOOLEAN /\ readiness' \in {0, 1}
       /\ redis' = redis /\ pc \in Serving
  BY <1>6, UnderWay
<1>12. (redis => redis') /\ (m.logout /\ cfg.redis => redis')
  BY <1>7, <1>11
<1> QED
  BY <1>5, <1>6, <1>7, <1>8, <1>9, <1>10, <1>11, <1>12, RequestStep

\* A request is over: it is counted, with what its client saw.
LEMMA CountInv ==
    ASSUME IInv, NEW r \in Request, Count(r)
    PROVE  IInv'
<1> DEFINE o == http[r]
           counted == IF o.path = "metrics" THEN o.counted ELSE Append(o.counted, o.seen)
           status == IF o.job = "none" THEN 0 ELSE o.status
           m == Make("gone", o.path, o.job, status, o.seen, counted, o.logout)
<1>1. o \in HttpRequest /\ http \in [Request -> HttpRequest] /\ RequestOK(o)
  BY UnderWay
<1>2. /\ o.client = "written"
      /\ http' = [http EXCEPT ![r] = [o EXCEPT !.client = "gone", !.counted = counted,
                                               !.status = status]]
      /\ inFlight' = IF o.path = "metrics" THEN inFlight ELSE inFlight - 1
      /\ UNCHANGED <<process, up, redis, promised, memory, readiness>>
  BY <1>1 DEF Count, outside
<1>3. /\ counted \in Counts /\ status \in Codes /\ "gone" \in Clients
      /\ o.path # "metrics" => counted = <<o.seen>>
  <2>1. o.counted = <<>> /\ o.seen \in Nat /\ o.status \in Codes
    BY <1>1, <1>2, Parts DEF RequestOK, Codes
  <2>2. Append(<<>>, o.seen) = <<o.seen>> /\ <<o.seen>> \in Seq(Nat) /\ <<>> \in Seq(Nat)
    BY <2>1
  <2> QED
    BY <2>1, <2>2 DEF Codes, Counts, Clients
<1>4. m = Make("gone", o.path, o.job, status, o.seen, counted, o.logout)
  OBVIOUS
<1> HIDE DEF counted, status, m
<1>5. http' = [http EXCEPT ![r] = m]
  <2>1. http' = [http EXCEPT ![r] = SetCounted(o, "gone", counted, status)]
    BY <1>2 DEF SetCounted
  <2>2. SetCounted(o, "gone", counted, status) = m
    BY <1>1, <1>4, Updates
  <2> QED
    BY <2>1, <2>2
<1>6. /\ m \in HttpRequest /\ m.client = "gone" /\ m.path = o.path /\ m.job = o.job
      /\ m.seen = o.seen /\ m.counted = counted /\ m.logout = o.logout
  BY <1>1, <1>3, <1>4, Parts, Made
<1>7. RequestOK(m)
  BY <1>3, <1>6 DEF RequestOK
<1>8. inFlight' = Cardinality(InFlight)'
  <2> DEFINE isIn == m.client \in {"waiting", "written"} /\ m.path # "metrics"
  <2>1. ~isIn /\ (r \in InFlight <=> o.path # "metrics")
    BY <1>2, <1>6, UnderWay
  <2>2. inFlight' = IF isIn THEN IF r \in InFlight THEN inFlight ELSE inFlight + 1
                    ELSE IF r \in InFlight THEN inFlight - 1 ELSE inFlight
    BY <1>2, <2>1
  <2> QED
    BY <1>5, <1>6, <2>2, UnderWay, CountStep
<1>9. /\ redis' \in BOOLEAN /\ memory' \in BOOLEAN /\ promised' \in BOOLEAN
      /\ readiness' \in {0, 1} /\ (redis => redis') /\ (promised' => redis')
      /\ (m.logout /\ cfg.redis => redis') /\ (m.logout => m.job = "done")
      /\ (m.job # "none" => Validate(cfg)) /\ pc \in Serving
  BY <1>2, <1>6, UnderWay
<1> QED
  BY <1>2, <1>5, <1>6, <1>7, <1>8, <1>9, RequestStep

-----------------------------------------------------------------------------
(* The invariant, and what follows from it. *)

\* The first process has not begun.
LEMMA InitInv == Init => IInv
<1> SUFFICES ASSUME Init PROVE IInv
  OBVIOUS
<1>1. http = [r \in Request |-> NoRequest]
  BY DEF Init
<1>2. ProcessOK /\ DeferOK
  BY DEF Init, ProcessOK, DeferOK, Serving, Stages, BeforeDB
<1>3. TrafficOK
  BY <1>1, NoTraffic DEF Init, TrafficOK, Serving
<1>4. LogoutOK
  <2>1. up \in [Resource -> BOOLEAN]
    BY DEF Init
  <2>2. redis \in BOOLEAN /\ memory \in BOOLEAN /\ promised \in BOOLEAN /\ ~promised
    BY DEF Init
  <2> QED
    BY <1>1, <2>1, <2>2, NoTraffic DEF LogoutOK
<1> QED
  BY <1>2, <1>3, <1>4 DEF IInv

\* A step that changes nothing.
LEMMA StutterInv ==
    ASSUME IInv, UNCHANGED vars
    PROVE  IInv'
<1>1. UNCHANGED process
      /\ UNCHANGED <<pc, result, cfg, up, redis, promised, memory, http, inFlight, readiness>>
  BY DEF vars, process, outside, traffic
<1>2. Active' = Active /\ InFlight' = InFlight
  BY <1>1 DEF Active, InFlight
<1>3. TrafficOK'
  BY <1>1, <1>2 DEF IInv, TrafficOK, RequestOK
<1>4. LogoutOK'
  BY <1>1 DEF IInv, LogoutOK
<1> QED
  BY <1>1, <1>3, <1>4, ProcessQuiet DEF IInv

\* Every step preserves the invariant.
LEMMA Inductive == IInv /\ [Next]_vars => IInv'
<1> SUFFICES ASSUME IInv, [Next]_vars PROVE IInv'
  OBVIOUS
<1>1. CASE StartUp \/ Ending \/ Listen \/ ListenFails \/ Signal \/ Kill \/ Restart
  BY <1>1, StartUpInv, EndingInv, WaitInv, KillInv
<1>2. ASSUME NEW d \in Resource, DependencyChanges(d) PROVE IInv'
  BY <1>2, DependencyInv
<1>3. ASSUME NEW r \in Api, NEW path \in {"api", "metrics"}, Arrive(r, path)
      PROVE  IInv'
  BY <1>3, ArriveInv DEF Request, Paths
<1>4. ASSUME NEW r \in Api, Work(r) \/ Logout(r) PROVE IInv'
  BY <1>4, HandlerInv, LogoutInv DEF Request
<1>5. ASSUME NEW r \in Request, Probing(r) PROVE IInv'
  <2>1. "readyz" \in Paths
    BY DEF Paths
  <2> QED
    BY <1>5, <2>1, ArriveInv, HandlerInv DEF Probing
<1>6. ASSUME NEW r \in Request, Responding(r) PROVE IInv'
  BY <1>6, AnswerInv, DiscardInv, CountInv DEF Responding
<1>7. CASE UNCHANGED vars
  BY <1>7, StutterInv
<1> QED
  BY <1>1, <1>2, <1>3, <1>4, <1>5, <1>6, <1>7 DEF Next

\* The invariant holds in every reachable state.
THEOREM Invariance == Spec => []IInv
BY InitInv, Inductive, PTL DEF Spec

\* Type correctness; in particular no resource is ever deferred twice, and a
\* configuration made of any file and environment is a configuration.
THEOREM TypeCorrect == Spec => []TypeOK
<1>1. IInv => TypeOK
  <2> SUFFICES ASSUME IInv PROVE TypeOK
    OBVIOUS
  <2>1. deferred \in Seq(Resource) /\ Len(deferred) <= 2
    <3>1. deferred \in {<<>>, <<"db">>, <<"db", "store">>}
      BY DEF IInv, DeferOK
    <3>2. /\ <<>> \in Seq(Resource) /\ <<"db">> \in Seq(Resource)
          /\ <<"db", "store">> \in Seq(Resource)
          /\ Len(<<>>) = 0 /\ Len(<<"db">>) = 1 /\ Len(<<"db", "store">>) = 2
      BY DEF Resource
    <3>3. CASE deferred = <<>>
      BY <3>2, <3>3
    <3>4. CASE deferred = <<"db">>
      BY <3>2, <3>4
    <3>5. CASE deferred = <<"db", "store">>
      BY <3>2, <3>5
    <3> QED
      BY <3>1, <3>3, <3>4, <3>5
  <2>2. inFlight \in Nat
    BY FS_Subset, FS_CardinalityType, ServerAssumption
       DEF IInv, TrafficOK, InFlight, Active
  <2>3. pc \in {"main", "load_env", "bootstrap_env", "load_config", "init_db",
                "token", "store", "serve", "shutdown", "migration_db", "command",
                "return", "exited"}
    BY DEF IInv, ProcessOK, Stages, BeforeDB, Serving
  <2> QED
    BY <2>1, <2>2, <2>3, Zenon DEF TypeOK, IInv, ProcessOK, DeferOK, TrafficOK, LogoutOK
<1> QED
  BY Invariance, <1>1, PTL

\* Whatever the file and the environment hold, and although products of its
\* numbers wrap around, a server that serves has positive lifetimes and limits.
THEOREM ServingCorrect == Spec => []ServingIsConfigured
<1>1. IInv => ServingIsConfigured
  <2> SUFFICES ASSUME IInv, pc = "serve"
               PROVE  /\ accessTTL(cfg) > 0 /\ refreshTTL(cfg) > 0
                      /\ \A f \in {"accountLimit", "ipLimit", "window", "timeout"} :
                            cfg.num[f] > 0
                      /\ cfg.num["maxIdleConns"] <= cfg.num["maxOpenConns"]
    BY DEF ServingIsConfigured
  <2>1. Validate(cfg) /\ NewTokenManagerWithTTL(cfg)
    BY DEF IInv, ProcessOK
  <2>2. accessTTL(cfg) > 0 /\ refreshTTL(cfg) > 0
    BY <2>1 DEF NewTokenManagerWithTTL
  <2>3. {"accountLimit", "ipLimit", "window", "timeout"} \subseteq Positive
    BY DEF Positive, Default, RedisTimeout
  <2>4. cfg.num["maxIdleConns"] \in 0..cfg.num["maxOpenConns"]
        /\ \A f \in Positive : cfg.num[f] > 0
    BY <2>1 DEF Validate
  <2> QED
    BY <2>2, <2>3, <2>4
<1> QED
  BY Invariance, <1>1, PTL

\* A logout that a server in production has confirmed is known to every server in
\* production afterwards, whatever restarted or crashed in between.
THEOREM LogoutCorrect == Spec => []LogoutSurvivesRestart
<1>1. IInv => LogoutSurvivesRestart
  <2> SUFFICES ASSUME IInv, pc = "serve", cfg.environment = "production", promised
               PROVE  cfg.redis /\ redis
    BY DEF LogoutSurvivesRestart
  <2>1. Validate(cfg)
    BY DEF IInv, ProcessOK
  <2> QED
    BY <2>1 DEF IInv, LogoutOK, Validate
<1> QED
  BY Invariance, <1>1, PTL

\* Whatever step fails, the process returns with everything closed.
THEOREM ReleaseCorrect == Spec => []ResourcesReleased
<1>1. IInv => ResourcesReleased
  BY DEF IInv, DeferOK, BeforeDB, ResourcesReleased
<1> QED
  BY Invariance, <1>1, PTL

\* The database is closed under a waiting client only by a process that reports an
\* error.
THEOREM CutCorrect == Spec => []CutIsReported
<1>1. IInv => CutIsReported
  <2> SUFFICES ASSUME IInv, db = "closed", Active # {}
               PROVE  result = "error"
    BY DEF CutIsReported
  <2>1. pc \in {"return", "exited"}
    BY DEF IInv, DeferOK
  <2>2. pc # "exited"
    BY NoRequestOK DEF IInv, TrafficOK, Active, Serving
  <2> QED
    BY <2>1, <2>2 DEF IInv, TrafficOK
<1> QED
  BY Invariance, <1>1, PTL

\* A finished request was counted exactly once, with the status its client got,
\* and the gauge tells how many are under way.
THEOREM CountCorrect == Spec => []CountedOnce
<1>1. IInv => CountedOnce
  BY DEF IInv, TrafficOK, RequestOK, InFlight, CountedOnce
<1> QED
  BY Invariance, <1>1, PTL

=============================================================================
