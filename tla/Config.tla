------------------------------- MODULE Config -------------------------------
(***************************************************************************)
(* config/config.go: the configuration as the file gives it, as the        *)
(* environment overrides it, with its defaults, and validated.             *)
(*                                                                         *)
(* Texts are members of small sets that keep what the code tells apart:    *)
(* empty, blank, in another letter case or padded, too short.  The numbers *)
(* of all sections are one function, num, indexed by field.  Go's int and  *)
(* time.Duration wrap around at Half (2^63 in the build), so that a        *)
(* number of hours that is positive need not be a positive time.           *)
(***************************************************************************)
EXTENDS Integers

CONSTANTS
    Half,    \* integers are in -Half .. Half - 1
    Minute   \* time.Minute as a time.Duration

Hour == 60 * Minute

\* The build's 2^63 and 6 * 10^10 satisfy this: the default lifetime of a refresh
\* token is a time that can be represented.
ASSUME WidthAssumption ==
    /\ Half \in Nat /\ Minute \in Nat \ {0}
    /\ 168 * Hour < Half

Wrap(n) == ((n + Half) % (2 * Half)) - Half

-----------------------------------------------------------------------------
(* The configuration record. *)

\* applyDefaults gives these a value when they are 0.
Default == [refreshTokenExpireHours |-> 168,
            readTimeout |-> 5, writeTimeout |-> 10, idleTimeout |-> 60,
            readHeaderTimeout |-> 2, maxHeaderBytesKib |-> 512,
            dialTimeout |-> 3, redisReadTimeout |-> 2, redisWriteTimeout |-> 2,
            redisPingTimeout |-> 3,
            accountLimit |-> 5, ipLimit |-> 20, window |-> 900]

RedisTimeout == {"dialTimeout", "redisReadTimeout", "redisWriteTimeout",
                 "redisPingTimeout"}

\* Fields that must be positive whatever the rest of the configuration says.
Positive == (DOMAIN Default \ RedisTimeout) \cup
            {"port", "expireHours", "accessTokenExpireMinutes", "timeout",
             "maxOpenConns", "connMaxIdleTime", "connMaxLifetime", "pingTimeout"}

NumField == Positive \cup RedisTimeout \cup {"maxIdleConns", "redisDB"}

\* "Production" stands for any spelling of production with capitals or blanks
\* around it, " " for blanks only.
EnvironmentText == {"", " ", "development", "test", "production", "Production",
                    "staging"}

\* A secret of 32 characters, of which some may be blanks at its ends.
SecretText == {"", "short", "padded", "long"}

\* Addresses and networks, blanks between two commas, anything else.
ProxyText == {"address", "network", " ", "name"}

PlainText == {"", " ", "set"}

Config == [environment : EnvironmentText, algorithm : {"", "HS256", "none"},
           secret : SecretText,
           host : PlainText, user : PlainText, database : PlainText,
           mysqlPort : PlainText \cup {"junk"}, address : {"", "set"},
           redis : BOOLEAN, secure : BOOLEAN,
           registration : {"unset", "true", "false"},
           proxies : SUBSET ProxyText,
           num : [NumField -> Int]]

-----------------------------------------------------------------------------
(* The environment: a variable is "" when unset or empty; integer and      *)
(* boolean variables may hold something that does not parse.               *)

IntVariable == [APP_PORT |-> "port", REDIS_DB |-> "redisDB",
                JWT_EXPIRE_HOURS |-> "expireHours",
                JWT_ACCESS_TOKEN_EXPIRE_MINUTES |-> "accessTokenExpireMinutes",
                JWT_REFRESH_TOKEN_EXPIRE_HOURS |-> "refreshTokenExpireHours"]

BoolText == {"", "true", "false", "junk"}

Environment == [APP_ENV : EnvironmentText, JWT_SECRET : SecretText,
                DB_HOST : PlainText, DB_USER : PlainText, DB_NAME : PlainText,
                DB_PORT : PlainText \cup {"junk"},
                DB_PASSWORD : {"", "set"}, REDIS_ADDR : {"", "set"},
                REDIS_ENABLED : BoolText, COOKIE_SECURE : BoolText,
                REGISTRATION_ENABLED : BoolText,
                TRUSTED_PROXIES : SUBSET ProxyText,
                int : [DOMAIN IntVariable ->
                          [kind : {"", "number", "junk"}, value : Int]]]

\* strings.ToLower(strings.TrimSpace(text))
Normalised(text) ==
    CASE text = " " -> ""
      [] text = "Production" -> "production"
      [] OTHER -> text

\* The first candidate that exists, in the order of the directories searched: up
\* from the working directory, from the source file, from the executable.
findFileUpward(candidates, none) ==
    LET here(i) == candidates[i] # none
    IN  IF \E i \in DOMAIN candidates : here(i)
        THEN candidates[CHOOSE i \in DOMAIN candidates :
                           here(i) /\ \A j \in 1..(i - 1) : ~here(j)]
        ELSE none

splitCommaSeparated(texts) == texts \ {" "}

Override(value, text) == IF text = "" THEN value ELSE text

\* A variable that does not parse makes Load fail.
Parses(env) ==
    /\ \A v \in DOMAIN IntVariable : env.int[v].kind # "junk"
    /\ \A text \in {env.REDIS_ENABLED, env.COOKIE_SECURE,
                    env.REGISTRATION_ENABLED} : text # "junk"

OverrideBool(value, text) == IF text = "" THEN value ELSE text = "true"

\* TRUSTED_PROXIES is unset exactly if it holds no text at all.
applyEnvOverrides(cfg, env) ==
    [cfg EXCEPT
       !.environment = IF env.APP_ENV = "" THEN @ ELSE Normalised(env.APP_ENV),
       !.host = Override(@, env.DB_HOST),
       !.mysqlPort = Override(@, env.DB_PORT),
       !.user = Override(@, env.DB_USER),
       !.database = Override(@, env.DB_NAME),
       !.redis = OverrideBool(@, env.REDIS_ENABLED),
       !.address = Override(@, env.REDIS_ADDR),
       !.secret = Override(@, env.JWT_SECRET),
       !.registration = Override(@, env.REGISTRATION_ENABLED),
       !.secure = OverrideBool(@, env.COOKIE_SECURE),
       !.proxies = IF env.TRUSTED_PROXIES = {} THEN @
                   ELSE splitCommaSeparated(env.TRUSTED_PROXIES),
       !.num = [f \in NumField |->
                  IF \E v \in DOMAIN IntVariable :
                        IntVariable[v] = f /\ env.int[v].kind = "number"
                  THEN env.int[CHOOSE v \in DOMAIN IntVariable :
                                  IntVariable[v] = f].value
                  ELSE cfg.num[f]]]

DefaultNum(num) ==
    [f \in NumField |->
       CASE num[f] # 0 -> num[f]
         [] f \in DOMAIN Default -> Default[f]
         [] f = "accessTokenExpireMinutes" /\ num["expireHours"] > 0 ->
               Wrap(num["expireHours"] * 60)
         [] OTHER -> num[f]]

applyDefaults(cfg) ==
    [cfg EXCEPT
       !.environment = IF Normalised(@) = "" THEN "development" ELSE Normalised(@),
       !.algorithm = Override("HS256", @),
       !.address = Override("set", @),
       !.num = DefaultNum(@)]

ValidateWithoutProduction(cfg) ==
    /\ cfg.environment \in {"development", "test", "production"}
    /\ \A f \in Positive : cfg.num[f] > 0
    /\ cfg.algorithm = "HS256"
    /\ cfg.secret \in {"padded", "long"}
    /\ "" \notin {cfg.host, cfg.database, cfg.user}
    /\ cfg.mysqlPort = "set"
    /\ cfg.num["maxIdleConns"] \in 0..cfg.num["maxOpenConns"]
    /\ cfg.redis => /\ cfg.address # "" /\ cfg.num["redisDB"] >= 0
                    /\ \A f \in RedisTimeout : cfg.num[f] > 0
    /\ cfg.proxies \subseteq {"address", "network"}

Validate(cfg) ==
    /\ cfg.environment \in {"development", "test", "production"}
    /\ \A f \in Positive : cfg.num[f] > 0
    /\ cfg.algorithm = "HS256"
    /\ cfg.secret \in {"padded", "long"}
    /\ "" \notin {cfg.host, cfg.database, cfg.user}
    /\ cfg.mysqlPort = "set"
    /\ cfg.num["maxIdleConns"] \in 0..cfg.num["maxOpenConns"]
    /\ cfg.redis => /\ cfg.address # "" /\ cfg.num["redisDB"] >= 0
                    /\ \A f \in RedisTimeout : cfg.num[f] > 0
    /\ cfg.proxies \subseteq {"address", "network"}
    /\ cfg.environment = "production" => cfg.redis /\ cfg.secure

\* What Load makes of a file's contents, and whether it returns it.
Loaded(file, env) == applyDefaults(applyEnvOverrides(file, env))

Loads(file, env) == Parses(env) /\ Validate(Loaded(file, env))

-----------------------------------------------------------------------------
(* What start-up makes of a configuration. *)

\* time.Duration(AccessTokenExpireMinutes) * time.Minute, and the refresh token's
accessTTL(cfg)  == Wrap(cfg.num["accessTokenExpireMinutes"] * Minute)
refreshTTL(cfg) == Wrap(cfg.num["refreshTokenExpireHours"] * Hour)

NewTokenManagerUnchecked(cfg) == cfg.secret = "long"

\* auth.NewTokenManagerWithTTL, which trims the secret before it measures it.
NewTokenManagerWithTTL(cfg) ==
    cfg.secret = "long" /\ accessTTL(cfg) > 0 /\ refreshTTL(cfg) > 0

\* database.buildDSN, called by InitDB
buildDSN(cfg, env) ==
    "" \notin {cfg.user, env.DB_PASSWORD, cfg.host, cfg.mysqlPort, cfg.database}

\* database.MigrationConfigFromEnv, which trims all but the password
MigrationConfigFromEnv(env) ==
    /\ {env.DB_HOST, env.DB_PORT, env.DB_USER, env.DB_NAME} \cap {"", " "} = {}
    /\ env.DB_PASSWORD # ""

=============================================================================
