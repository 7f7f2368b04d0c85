--------------------------- MODULE RedisStore_proofs ---------------------------
(* Proofs that every key of the Redis store has an expiry, and that the store   *)
(* keeps the promises of the Store interface, for every set of tokens, accounts *)
(* and addresses, and every limit, window and lifetime.                         *)
EXTENDS RedisStore, TLAPS

\* What a key holds between two calls: a counter that was incremented, or the
\* mark of a revocation, with an expiry.
Entry == [value : Nat \ {0}, expireAt : Nat \ {0}]

\* A key space whose keys hold that, and none of which has run out.
IsMap(db) == db = [k \in DOMAIN db |-> db[k]]
Live(db)  == IsMap(db) /\ \A k \in DOMAIN db : db[k] \in Entry /\ db[k].expireAt > now

\* The inductive invariant.
IInv == now \in Nat /\ Live(keys)

\* The abstract state that a key space stands for.
RevokedIn(db)  == [j \in Jti |-> IF AccessKey(j) \in DOMAIN db
                                 THEN db[AccessKey(j)].expireAt ELSE 0]
FailuresIn(db) == [k \in Key |-> IF k \in DOMAIN db
                                 THEN [count |-> db[k].value, until |-> db[k].expireAt]
                                 ELSE [count |-> 0, until |-> 0]]

-----------------------------------------------------------------------------
(* Operations on the key space. *)

\* The keys of accounts, of addresses and of tokens are three disjoint families.
LEMMA KeysDistinct ==
    /\ \A j : AccessKey(j) \notin Key
    /\ \A a, i : AccountKey(a) # IPKey(i)
    /\ \A j, l : AccessKey(j) = AccessKey(l) => j = l
    /\ \A a \in Account : AccountKey(a) \in Key
    /\ \A i \in IP : IPKey(i) \in Key
BY DEF AccessKey, AccountKey, IPKey, Key

\* Limits are positive: a missing counter never reaches its limit.
LEMMA LimitType == ASSUME NEW k PROVE Limit(k) \in Nat \ {0}
BY AuthStateAssumption DEF Limit

\* SET of a revocation changes the revocation of its token, and no counter.
LEMMA RevokeLive ==
    ASSUME now \in Nat, NEW db, Live(db), NEW j \in Jti, NEW ttl \in Nat, ttl > 0,
           NEW d, d = Put(db, AccessKey(j), [value |-> 1, expireAt |-> now + ttl])
    PROVE  /\ Live(d)
           /\ RevokedIn(d) = [RevokedIn(db) EXCEPT ![j] = now + ttl]
           /\ FailuresIn(d) = FailuresIn(db)
<1> DEFINE e == [value |-> 1, expireAt |-> now + ttl]
<1>1. e \in Entry /\ e.expireAt > now /\ e.expireAt = now + ttl
  BY DEF Entry
<1> HIDE DEF e
<1>2. d = Put(db, AccessKey(j), e)
  BY DEF e
<1>3. Live(d) /\ DOMAIN d = DOMAIN db \cup {AccessKey(j)}
      /\ \A x \in DOMAIN d : d[x] = IF x = AccessKey(j) THEN e ELSE db[x]
  BY <1>1, <1>2 DEF Put, Live, IsMap
<1>4. RevokedIn(d) = [RevokedIn(db) EXCEPT ![j] = now + ttl]
  BY <1>1, <1>3, KeysDistinct DEF RevokedIn
<1>5. FailuresIn(d) = FailuresIn(db)
  BY <1>3, KeysDistinct DEF FailuresIn
<1> QED
  BY <1>3, <1>4, <1>5

\* INCR and EXPIRE NX of one counter: it is the abstract increment, which opens a
\* window with the first failure only, and no revocation changes.
LEMMA CountLive ==
    ASSUME now \in Nat, NEW db, Live(db), NEW k \in Key, NEW d, d = CountFailure(db, k)
    PROVE  /\ Live(d)
           /\ RevokedIn(d) = RevokedIn(db)
           /\ FailuresIn(d) = [FailuresIn(db) EXCEPT ![k] = A!Incremented(@)]
<1> DEFINE e == IF k \in DOMAIN db
                THEN [value |-> db[k].value + 1, expireAt |-> db[k].expireAt]
                ELSE [value |-> 1, expireAt |-> now + Window]
<1>1. e \in Entry /\ e.expireAt > now
  BY AuthStateAssumption DEF Entry, Live
<1>2. d = Put(db, k, e)
  <2>1. CASE k \in DOMAIN db
    <3>1. db[k] \in Entry
      BY <2>1 DEF Live
    <3>2. [db[k] EXCEPT !.value = @ + 1] = e
      BY <2>1, <3>1 DEF Entry
    <3>3. Incr(db, k) = [db EXCEPT ![k] = e]
      BY <2>1, <3>2 DEF Incr
    <3>4. [e EXCEPT !.expireAt = IF @ = 0 THEN now + Window ELSE @] = e
      BY <2>1, <3>1 DEF Entry
    <3> HIDE DEF e
    <3>5. d = [Incr(db, k) EXCEPT ![k] = [e EXCEPT !.expireAt = IF @ = 0 THEN now + Window ELSE @]]
      BY <2>1, <3>3 DEF CountFailure, ExpireNX, Live, IsMap
    <3>6. d = [db EXCEPT ![k] = e]
      BY <2>1, <3>3, <3>4, <3>5 DEF Live, IsMap
    <3>7. DOMAIN db \cup {k} = DOMAIN db
      BY <2>1
    <3> QED
      BY <2>1, <3>6, <3>7 DEF Put, Live, IsMap
  <2>2. CASE k \notin DOMAIN db
    <3> DEFINE z == [value |-> 1, expireAt |-> 0]
    <3>1. [z EXCEPT !.expireAt = IF @ = 0 THEN now + Window ELSE @] = e
      BY <2>2
    <3>2. Incr(db, k) = Put(db, k, z)
      BY <2>2 DEF Incr
    <3> HIDE DEF e, z
    <3>3. Put(db, k, z)[k] = z /\ k \in DOMAIN Put(db, k, z)
      BY DEF Put
    <3>4. d = [Put(db, k, z) EXCEPT ![k] = e]
      BY <3>1, <3>2, <3>3 DEF CountFailure, ExpireNX
    <3> QED
      BY <3>4 DEF Put
  <2> QED
    BY <2>1, <2>2
<1>3. k \in DOMAIN db => db[k] \in Entry
  BY DEF Live
<1>4. A!Incremented(FailuresIn(db)[k]) = [count |-> e.value, until |-> e.expireAt]
  BY <1>3, AuthStateAssumption DEF A!Incremented, A!Closed, FailuresIn, Entry
<1> HIDE DEF e
<1>5. Live(d) /\ DOMAIN d = DOMAIN db \cup {k}
      /\ \A x \in DOMAIN d : d[x] = IF x = k THEN e ELSE db[x]
  BY <1>1, <1>2 DEF Put, Live, IsMap
<1>6. RevokedIn(d) = RevokedIn(db)
  BY <1>5, KeysDistinct DEF RevokedIn
<1>7. FailuresIn(d) = [FailuresIn(db) EXCEPT ![k] = [count |-> e.value, until |-> e.expireAt]]
  BY <1>5 DEF FailuresIn
<1> QED
  BY <1>4, <1>5, <1>6, <1>7

\* DEL of one counter.
LEMMA DelLive ==
    ASSUME now \in Nat, NEW db, Live(db), NEW k \in Key, NEW d, d = Del(db, k)
    PROVE  /\ Live(d)
           /\ RevokedIn(d) = RevokedIn(db)
           /\ FailuresIn(d) = [FailuresIn(db) EXCEPT ![k] = A!Closed]
<1>1. Live(d) /\ DOMAIN d = DOMAIN db \ {k} /\ \A x \in DOMAIN d : d[x] = db[x]
  BY DEF Del, Restrict, Live, IsMap
<1>2. RevokedIn(d) = RevokedIn(db)
  BY <1>1, KeysDistinct DEF RevokedIn
<1>3. FailuresIn(d) = [FailuresIn(db) EXCEPT ![k] = A!Closed]
  BY <1>1 DEF FailuresIn, A!Closed
<1> QED
  BY <1>1, <1>2, <1>3

\* The time to wait that PTTL and positiveTTL yield is the abstract one, in the
\* last instant of a key too.
LEMMA RetryExact ==
    ASSUME now \in Nat, NEW db, Live(db), NEW k \in Key, NEW w \in retryAfter(db, k)
    PROVE  w = A!RetryAfter(k, FailuresIn(db)[k])
<1>1. Limit(k) \in Nat \ {0}
  BY LimitType
<1>2. CASE k \in DOMAIN db
  <2>1. db[k] \in Entry /\ db[k].expireAt > now
    BY <1>2 DEF Live
  <2>2. FailuresIn(db)[k] = [count |-> db[k].value, until |-> db[k].expireAt]
    BY <1>2 DEF FailuresIn
  <2>3. A!RetryAfter(k, FailuresIn(db)[k]) =
           IF db[k].value >= Limit(k) THEN db[k].expireAt - now ELSE 0
    BY <2>2 DEF A!RetryAfter, A!Limit, Limit
  <2>4. Get(db, k) = db[k].value
    BY <1>2 DEF Get
  <2>5. \A t \in PTTL(db, k) : positiveTTL(t) = db[k].expireAt - now
    BY <1>2, <2>1 DEF PTTL, positiveTTL, Entry
  <2> QED
    BY <2>3, <2>4, <2>5 DEF retryAfter
<1>3. CASE k \notin DOMAIN db
  <2>1. FailuresIn(db)[k] = [count |-> 0, until |-> 0]
    BY <1>3 DEF FailuresIn
  <2>2. A!RetryAfter(k, FailuresIn(db)[k]) = 0
    BY <1>1, <2>1 DEF A!RetryAfter, A!Limit, Limit
  <2>3. Get(db, k) = 0
    BY <1>3 DEF Get
  <2> QED
    BY <1>1, <2>2, <2>3 DEF retryAfter
<1> QED
  BY <1>2, <1>3

\* The answer about an account and an address.
LEMMA AnswerExact ==
    ASSUME now \in Nat, NEW db, Live(db), NEW a \in Account, NEW i \in IP,
           NEW x \in retryAfter(db, AccountKey(a)), NEW y \in retryAfter(db, IPKey(i))
    PROVE  Reply("ok", Larger(x, y)) = A!Limited(a, i, FailuresIn(db))
<1>1. AccountKey(a) \in Key /\ IPKey(i) \in Key
  BY KeysDistinct
<1>2. /\ x = A!RetryAfter(AccountKey(a), FailuresIn(db)[AccountKey(a)])
      /\ y = A!RetryAfter(IPKey(i), FailuresIn(db)[IPKey(i)])
  BY <1>1, RetryExact
<1> QED
  BY <1>2 DEF A!Limited, A!Reply, A!Larger, A!AccountKey, A!IPKey, Reply, Larger,
              AccountKey, IPKey

-----------------------------------------------------------------------------
(* The invariant, and the step simulation. *)

\* The abstract variables are those of the key space.
LEMMA Mapping ==
    /\ Revoked = RevokedIn(keys) /\ Failures = FailuresIn(keys)
    /\ Revoked' = RevokedIn(keys') /\ Failures' = FailuresIn(keys')
BY DEF Revoked, Failures, RevokedIn, FailuresIn

\* What each operation does to the abstract state; every action but Tick.
LEMMA CallStep ==
    ASSUME IInv, [Next]_vars, ~Tick
    PROVE  IInv' /\ [A!StoreNext]_(A!storeVars)
<1> USE DEF IInv
<1>0. /\ Revoked = RevokedIn(keys) /\ Failures = FailuresIn(keys)
      /\ Revoked' = RevokedIn(keys') /\ Failures' = FailuresIn(keys')
  BY Mapping
<1>a. ASSUME now' = now, Live(keys') PROVE IInv'
  BY <1>a DEF Live, IsMap
<1>b. Reply("ok", 0) = Ok /\ A!Ok = Ok /\ A!Error = Error
      /\ A!Reply("revoked", 0) = Reply("revoked", 0)
      /\ A!Reply("valid", 0) = Reply("valid", 0)
  BY DEF A!Ok, A!Error, A!Reply, Ok, Error, Reply
<1>1. CASE UNCHANGED vars
  <2>1. UNCHANGED <<now, keys, reply, Revoked, Failures>>
    BY <1>0, <1>1 DEF vars
  <2> QED
    BY <2>1, <1>a DEF A!storeVars
<1>2. ASSUME NEW j \in Jti, NEW ttl \in 0..MaxTTL, RevokeAccessToken(j, ttl)
      PROVE  IInv' /\ A!RevokeAccessToken(j, ttl)
  <2> DEFINE d == IF ttl <= 0 THEN keys
                  ELSE Put(keys, AccessKey(j), [value |-> 1, expireAt |-> now + ttl])
  <2>1. /\ Live(d) /\ FailuresIn(d) = FailuresIn(keys)
        /\ RevokedIn(d) = [RevokedIn(keys) EXCEPT ![j] = IF ttl > 0 THEN now + ttl ELSE @]
    <3>1. CASE ttl > 0
      BY <3>1, AuthStateAssumption, RevokeLive
    <3>2. CASE ~(ttl > 0)
      BY <3>2, AuthStateAssumption DEF RevokedIn
    <3> QED
      BY <3>1, <3>2
  <2> HIDE DEF d
  <2>2. now' = now /\ (\/ reply' = Ok /\ keys' = d
                       \/ reply' = Error /\ keys' \in {keys, d})
    BY <1>2 DEF RevokeAccessToken, Unavailable, d
  <2>3. Live(keys') /\ Failures' = Failures
    BY <1>0, <2>1, <2>2
  <2>4. \/ /\ reply' = Ok \/ reply' = Error
           /\ Revoked' = [Revoked EXCEPT ![j] = IF ttl > 0 THEN now + ttl ELSE @]
        \/ reply' = Error /\ Revoked' = Revoked
    BY <1>0, <2>1, <2>2
  <2> QED
    BY <1>a, <1>b, <2>2, <2>3, <2>4 DEF A!RevokeAccessToken
<1>3. ASSUME NEW j \in Jti, IsAccessTokenRevoked(j)
      PROVE  IInv' /\ A!IsAccessTokenRevoked(j)
  <2>1. keys' = keys /\ now' = now
    BY <1>3 DEF IsAccessTokenRevoked, Unavailable
  <2>2. AccessKey(j) \in DOMAIN keys <=> Revoked[j] > now
    BY DEF Revoked, Live, Entry
  <2>3. \/ reply' = Error
        \/ reply' = IF Revoked[j] > now THEN Reply("revoked", 0) ELSE Reply("valid", 0)
    BY <1>3, <2>2 DEF IsAccessTokenRevoked, Unavailable
  <2> QED
    BY <1>0, <1>a, <1>b, <2>1, <2>3 DEF A!IsAccessTokenRevoked
<1>4. ASSUME NEW a \in Account, NEW i \in IP, CheckLoginLimit(a, i)
      PROVE  IInv' /\ A!CheckLoginLimit(a, i)
  <2>1. keys' = keys /\ now' = now
    BY <1>4 DEF CheckLoginLimit, Unavailable
  <2>2. reply' = A!Limited(a, i, FailuresIn(keys)) \/ reply' = Error
    BY <1>4, AnswerExact DEF CheckLoginLimit, Unavailable
  <2> QED
    BY <1>0, <1>a, <1>b, <2>1, <2>2 DEF A!CheckLoginLimit
<1>5. ASSUME NEW a \in Account, NEW i \in IP, RecordLoginFailure(a, i)
      PROVE  IInv' /\ A!RecordLoginFailure(a, i)
  <2> DEFINE c == CountFailure(keys, AccountKey(a))
             d == CountFailure(c, IPKey(i))
  <2>0. AccountKey(a) \in Key /\ IPKey(i) \in Key
        /\ A!AccountKey(a) = AccountKey(a) /\ A!IPKey(i) = IPKey(i)
    BY KeysDistinct DEF A!AccountKey, A!IPKey, AccountKey, IPKey
  <2>1. /\ Live(c) /\ RevokedIn(c) = RevokedIn(keys)
        /\ FailuresIn(c) = [FailuresIn(keys) EXCEPT ![AccountKey(a)] = A!Incremented(@)]
    BY <2>0, CountLive
  <2>2. /\ Live(d) /\ RevokedIn(d) = RevokedIn(c)
        /\ FailuresIn(d) = [FailuresIn(c) EXCEPT ![IPKey(i)] = A!Incremented(@)]
    <3> HIDE DEF c
    <3> QED
      BY <2>0, <2>1, CountLive
  <2>3. /\ now' = now
        /\ \/ /\ keys' = d
              /\ \E x \in retryAfter(d, AccountKey(a)), y \in retryAfter(d, IPKey(i)) :
                    reply' = Reply("ok", Larger(x, y))
           \/ reply' = Error /\ keys' \in {keys, d}
    BY <1>5 DEF RecordLoginFailure, Unavailable
  <2> HIDE DEF c, d
  <2>4. /\ now' = now
        /\ \/ keys' = d /\ reply' = A!Limited(a, i, FailuresIn(d))
           \/ reply' = Error /\ keys' \in {keys, d}
    BY <2>2, <2>3, AnswerExact
  <2>5. Live(keys') /\ Revoked' = Revoked
    BY <1>0, <2>1, <2>2, <2>4
  <2>6. \/ /\ Failures' = [Failures EXCEPT ![AccountKey(a)] = A!Incremented(@),
                                           ![IPKey(i)] = A!Incremented(@)]
           /\ reply' = A!Limited(a, i, Failures') \/ reply' = Error
        \/ reply' = Error /\ Failures' = Failures
    <3>1. FailuresIn(c)[IPKey(i)] = FailuresIn(keys)[IPKey(i)]
      BY <2>0, <2>1, KeysDistinct DEF FailuresIn
    <3>2. FailuresIn(d) = [FailuresIn(keys) EXCEPT ![AccountKey(a)] = A!Incremented(@),
                                                   ![IPKey(i)] = A!Incremented(@)]
      BY <2>1, <2>2, <3>1
    <3> QED
      BY <1>0, <2>4, <3>2
  <2> QED
    BY <1>a, <1>b, <2>0, <2>4, <2>5, <2>6 DEF A!RecordLoginFailure
<1>6. ASSUME NEW a \in Account, ResetLoginAccount(a)
      PROVE  IInv' /\ A!ResetLoginAccount(a)
  <2> DEFINE d == Del(keys, AccountKey(a))
  <2>0. AccountKey(a) \in Key /\ A!AccountKey(a) = AccountKey(a)
    BY KeysDistinct DEF A!AccountKey, AccountKey
  <2>1. /\ Live(d) /\ RevokedIn(d) = RevokedIn(keys)
        /\ FailuresIn(d) = [FailuresIn(keys) EXCEPT ![AccountKey(a)] = A!Closed]
    BY <2>0, DelLive
  <2> HIDE DEF d
  <2>2. now' = now /\ (\/ reply' = Ok /\ keys' = d
                       \/ reply' = Error /\ keys' \in {keys, d})
    BY <1>6 DEF ResetLoginAccount, Unavailable, d
  <2>3. Live(keys') /\ Revoked' = Revoked
    BY <1>0, <2>1, <2>2
  <2>4. /\ reply' \in {Ok, Error}
        /\ \/ Failures' = [Failures EXCEPT ![AccountKey(a)] = A!Closed]
           \/ reply' = Error /\ Failures' = Failures
    BY <1>0, <2>1, <2>2
  <2> QED
    BY <1>a, <1>b, <2>0, <2>2, <2>3, <2>4 DEF A!ResetLoginAccount
<1> QED
  BY <1>1, <1>2, <1>3, <1>4, <1>5, <1>6 DEF Next, A!StoreNext

\* Time passes: a key is gone exactly when its time is over.
LEMMA TickStep ==
    ASSUME IInv, Tick
    PROVE  IInv' /\ A!Tick
<1>1. /\ now \in Nat /\ now' \in Nat /\ now' = now + 1 /\ now < MaxTime
      /\ UNCHANGED reply
      /\ keys' = [k \in {x \in DOMAIN keys : keys[x].expireAt = 0 \/ keys[x].expireAt > now'}
                    |-> keys[k]]
      /\ \A k \in DOMAIN keys : keys[k] \in Entry /\ keys[k].expireAt > now
  BY DEF IInv, Live, Tick, Restrict
<1>2. /\ DOMAIN keys' = {k \in DOMAIN keys : keys[k].expireAt > now'}
      /\ \A k \in DOMAIN keys' : keys'[k] = keys[k]
  BY <1>1 DEF Entry
<1>3. IInv'
  BY <1>1, <1>2 DEF IInv, Live, IsMap
<1>4. Revoked' = [j \in Jti |-> IF Revoked[j] > now' THEN Revoked[j] ELSE 0]
  BY <1>1, <1>2, Mapping DEF RevokedIn, Entry
<1>5. Failures' = [k \in Key |-> IF Failures[k].until > now' THEN Failures[k]
                                 ELSE A!Closed]
  BY <1>1, <1>2, Mapping DEF FailuresIn, Entry, A!Closed
<1>6. A!Key = Key
  BY DEF A!Key, Key, A!AccountKey, A!IPKey, AccountKey, IPKey
<1> QED
  BY <1>1, <1>3, <1>4, <1>5, <1>6 DEF A!Tick

\* Every step of the Redis store preserves the invariant and is a step of the
\* abstract store, or leaves its state and its answer alone.
LEMMA StoreStep ==
    ASSUME IInv, [Next]_vars
    PROVE  IInv' /\ [A!StoreNext]_(A!storeVars)
<1>1. CASE Tick
  BY <1>1, TickStep DEF A!StoreNext
<1>2. CASE ~Tick
  BY <1>2, CallStep
<1> QED
  BY <1>1, <1>2

\* The empty key space is the initial abstract state.
LEMMA StoreBegins ==
    ASSUME Init
    PROVE  IInv /\ A!StoreInit
<1>1. now = 0 /\ DOMAIN keys = {} /\ IsMap(keys) /\ reply = Ok
  BY DEF Init, IsMap
<1>2. IInv
  BY <1>1 DEF IInv, Live
<1>3. Revoked = [j \in Jti |-> 0] /\ Failures = [k \in Key |-> A!Closed]
  BY <1>1 DEF Revoked, Failures, A!Closed
<1>4. A!Key = Key /\ A!Ok = Ok
  BY DEF A!Key, Key, A!AccountKey, A!IPKey, AccountKey, IPKey, A!Ok, Ok, A!Reply, Reply
<1> QED
  BY <1>1, <1>2, <1>3, <1>4 DEF A!StoreInit

-----------------------------------------------------------------------------

\* No key of the Redis store is ever without an expiry or past it: INCR and
\* EXPIRE NX are one transaction, and DEL, SET and the clock keep to it.
THEOREM ExpiryCorrect == Spec => []EveryKeyExpires
<1>1. Init => IInv
  BY StoreBegins
<1>2. IInv /\ [Next]_vars => IInv'
  BY StoreStep
<1>3. IInv => EveryKeyExpires
  BY DEF IInv, Live, EveryKeyExpires
<1> QED
  BY <1>1, <1>2, <1>3, PTL DEF Spec

\* authstate.RedisStore implements the Store interface: whatever the number of
\* callers and however often a reply is lost, each call behaves as one atomic
\* operation on revocations and failure counters, and the waiting times it
\* answers are the exact ones.
THEOREM RedisRefinesStore == Spec => ImplementsAuthState
<1>1. Init => IInv /\ A!StoreInit
  BY StoreBegins
<1>2. IInv /\ [Next]_vars => IInv' /\ [A!StoreNext]_(A!storeVars)
  BY StoreStep
<1> QED
  BY <1>1, <1>2, PTL DEF Spec, ImplementsAuthState, A!StoreSpec

=============================================================================
