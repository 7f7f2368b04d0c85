----------------------------- MODULE RedisStore -----------------------------
(***************************************************************************)
(* authstate.RedisStore: keys with a time to live on a Redis server shared *)
(* by every replica.  The commands of a TxPipelined run as one MULTI/EXEC. *)
(* The server may be out of reach before a command reaches it or after it  *)
(* took effect; the caller sees an error either way.                       *)
(***************************************************************************)
EXTENDS StoreKeys, Functions

CONSTANT MaxFailures   \* bound on a counter

VARIABLES
    now,     \* the server's clock
    keys,    \* the key space: [value, expireAt], expireAt = 0 for no expiry
    reply    \* what the last operation returned

vars == <<now, keys, reply>>

AccessKey(j) == <<"access", j>>

Put(db, k, v) == [x \in DOMAIN db \cup {k} |-> IF x = k THEN v ELSE db[x]]

-----------------------------------------------------------------------------
(* Redis commands. *)

Get(db, k) == IF k \in DOMAIN db THEN db[k].value ELSE 0

Incr(db, k) ==
    IF k \in DOMAIN db THEN [db EXCEPT ![k].value = @ + 1]
    ELSE Put(db, k, [value |-> 1, expireAt |-> 0])

\* EXPIRE key window NX: only if the key has no expiry yet.
ExpireNX(db, k, ttl) ==
    [db EXCEPT ![k].expireAt = IF @ = 0 THEN now + ttl ELSE @]

Del(db, k) == Restrict(db, DOMAIN db \ {k})

\* PTTL: negative for a missing key or one without expiry (0 stands for it).  It
\* reads the clock again, so in the last instant of a key it may find 0 left.
PTTL(db, k) ==
    IF k \notin DOMAIN db \/ db[k].expireAt = 0 THEN {0}
    ELSE IF db[k].expireAt = now + 1 THEN {0, 1}
    ELSE {db[k].expireAt - now}

-----------------------------------------------------------------------------
(* RedisStore. *)

rawTTL(ttl) == ttl

positiveTTL(ttl) == IF ttl > 0 THEN ttl ELSE 1

\* The retry times that the counters in db may yield.
retryAfter(db, k) ==
    IF Get(db, k) >= Limit(k) THEN {positiveTTL(ttl) : ttl \in PTTL(db, k)} ELSE {0}

\* The call fails before or after the server has changed its keys to db.
Unavailable(db) == reply' = Error /\ keys' \in {keys, db}

RevokeAccessToken(j, ttl) ==
    LET db == IF ttl <= 0 THEN keys
              ELSE Put(keys, AccessKey(j), [value |-> 1, expireAt |-> now + ttl])
    IN
    /\ \/ reply' = Ok /\ keys' = db
       \/ Unavailable(db)
    /\ UNCHANGED now

IsAccessTokenRevoked(j) ==
    /\ \/ /\ reply' = IF AccessKey(j) \in DOMAIN keys THEN Reply("revoked", 0) ELSE Reply("valid", 0)
          /\ UNCHANGED keys
       \/ Unavailable(keys)
    /\ UNCHANGED now

CheckLoginLimit(a, i) ==
    /\ \/ /\ \E account \in retryAfter(keys, AccountKey(a)),
                ip \in retryAfter(keys, IPKey(i)) :
                  reply' = Reply("ok", Larger(account, ip))
          /\ UNCHANGED keys
       \/ Unavailable(keys)
    /\ UNCHANGED now

CountForever(db, k) == Incr(db, k)

\* INCR, EXPIRE NX, INCR, EXPIRE NX, PTTL, PTTL in one transaction.
CountFailure(db, k) == ExpireNX(Incr(db, k), k, Window)

RecordLoginFailure(a, i) ==
    LET db == CountFailure(CountFailure(keys, AccountKey(a)), IPKey(i))
    IN
    /\ \/ /\ keys' = db
          /\ \E account \in retryAfter(db, AccountKey(a)),
                ip \in retryAfter(db, IPKey(i)) :
                  reply' = Reply("ok", Larger(account, ip))
       \/ Unavailable(db)
    /\ UNCHANGED now

ResetLoginAccount(a) ==
    LET db == Del(keys, AccountKey(a)) IN
    /\ \/ reply' = Ok /\ keys' = db
       \/ Unavailable(db)
    /\ UNCHANGED now

\* Time passes on the server, which forgets the keys that have run out.
Tick ==
    /\ now < MaxTime
    /\ now' = now + 1
    /\ keys' = Restrict(keys, {k \in DOMAIN keys :
                                 keys[k].expireAt = 0 \/ keys[k].expireAt > now'})
    /\ UNCHANGED reply

Init ==
    /\ now = 0
    /\ keys = [k \in {} |-> 0]
    /\ reply = Ok

Next ==
    \/ \E j \in Jti : \/ \E ttl \in 0..MaxTTL : RevokeAccessToken(j, ttl)
                      \/ IsAccessTokenRevoked(j)
    \/ \E a \in Account, i \in IP :
          \/ CheckLoginLimit(a, i)
          \/ /\ \A k \in DOMAIN keys : keys[k].value < MaxFailures
             /\ RecordLoginFailure(a, i)
    \/ \E a \in Account : ResetLoginAccount(a)
    \/ Tick

Spec == Init /\ [][Next]_vars

-----------------------------------------------------------------------------

Revoked == [j \in Jti |-> IF AccessKey(j) \in DOMAIN keys
                          THEN keys[AccessKey(j)].expireAt ELSE 0]
Failures == [k \in Key |-> IF k \in DOMAIN keys
                           THEN [count |-> keys[k].value,
                                 until |-> keys[k].expireAt]
                           ELSE [count |-> 0, until |-> 0]]

A == INSTANCE AuthState WITH revoked <- Revoked, failures <- Failures

\* RedisStore keeps the promises of the Store interface: counting and setting the
\* expiry are one transaction, a counter at its limit never answers a time to
\* wait of 0, and a lost reply is an error, never a permission.
ImplementsAuthState == A!StoreSpec

\* No key is left without an expiry: a counter that lost it would limit its
\* account for good.
EveryKeyExpires == \A k \in DOMAIN keys : keys[k].expireAt > now

=============================================================================
