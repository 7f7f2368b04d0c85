------------------------- MODULE MCServerLifecycle --------------------------
(* TLC instance of ServerLifecycle: the config.yml of the repository and the   *)
(* environment of its example, with the deviations that matter.               *)
EXTENDS ServerLifecycle, TLC

Shipped ==
    [environment |-> "development", algorithm |-> "", secret |-> "",
     host |-> "set", user |-> "set", database |-> "set", mysqlPort |-> "set",
     address |-> "set", redis |-> FALSE, secure |-> FALSE,
     registration |-> "true", proxies |-> {},
     num |-> [f \in NumField |-> IF f \in DOMAIN Default THEN Default[f]
                                 ELSE CASE f = "accessTokenExpireMinutes" -> 15
                                        [] f = "expireHours" -> 24
                                        [] f = "redisDB" -> 0
                                        [] OTHER -> 5]]

MCFiles ==
    {Shipped,
     [Shipped EXCEPT !.environment = "production"],
     [Shipped EXCEPT !.environment = "Production", !.redis = TRUE,
                     !.secure = TRUE, !.num["redisDB"] = -1],
     [Shipped EXCEPT !.environment = "staging"],
     [Shipped EXCEPT !.host = ""],
     [Shipped EXCEPT !.proxies = {" "}],
     [Shipped EXCEPT !.num["accessTokenExpireMinutes"] = 0,
                     !.num["expireHours"] = 4000],
     [Shipped EXCEPT !.num["maxIdleConns"] = 6],
     [Shipped EXCEPT !.num["window"] = 0, !.num["accountLimit"] = 0],
     [Shipped EXCEPT !.num["window"] = -1]}

Example ==
    [APP_ENV |-> "", JWT_SECRET |-> "long", DB_HOST |-> "set", DB_USER |-> "set",
     DB_NAME |-> "set", DB_PORT |-> "set", DB_PASSWORD |-> "set",
     REDIS_ADDR |-> "", REDIS_ENABLED |-> "", COOKIE_SECURE |-> "",
     REGISTRATION_ENABLED |-> "", TRUSTED_PROXIES |-> {},
     int |-> [v \in DOMAIN IntVariable |-> [kind |-> "", value |-> 0]]]

Number(n) == [kind |-> "number", value |-> n]

MCEnvs ==
    {Example,
     [Example EXCEPT !.APP_ENV = " "],
     [Example EXCEPT !.APP_ENV = "Production", !.REDIS_ENABLED = "true",
                     !.COOKIE_SECURE = "true",
                     !.TRUSTED_PROXIES = {"network", " "}],
     [Example EXCEPT !.APP_ENV = "production", !.COOKIE_SECURE = "true"],
     [Example EXCEPT !.APP_ENV = "production", !.REDIS_ENABLED = "true"],
     [Example EXCEPT !.REDIS_ENABLED = "junk"],
     [Example EXCEPT !.JWT_SECRET = "padded"],
     [Example EXCEPT !.JWT_SECRET = "short"],
     [Example EXCEPT !.DB_PASSWORD = ""],
     [Example EXCEPT !.int["JWT_ACCESS_TOKEN_EXPIRE_MINUTES"] = Number(40000)],
     [Example EXCEPT !.int["JWT_REFRESH_TOKEN_EXPIRE_HOURS"] = Number(800)],
     [Example EXCEPT !.int["APP_PORT"] = [kind |-> "junk", value |-> 0]]}

=============================================================================
