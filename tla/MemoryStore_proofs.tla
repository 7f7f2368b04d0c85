-------------------------- MODULE MemoryStore_proofs --------------------------
(* Proof that the memory store keeps the promises of the Store interface, for  *)
(* every set of tokens, accounts and addresses, and every limit, window and    *)
(* lifetime, although its maps still hold what has run out.                    *)
EXTENDS MemoryStore, TLAPS

\* A memoryCounter in the map: it has counted a failure.
Counter == [count : Nat \ {0}, expiresAt : Nat]

IsMap(m)      == m = [k \in DOMAIN m |-> m[k]]
CountersOK(m) == IsMap(m) /\ \A k \in DOMAIN m : m[k] \in Counter

\* The inductive invariant.
IInv ==
    /\ now \in Nat
    /\ IsMap(entries) /\ \A j \in DOMAIN entries : entries[j] \in Nat
    /\ CountersOK(counters)

\* The abstract counters that a map stands for now.
FailuresIn(m) == [k \in Key |-> IF k \in DOMAIN m /\ m[k].expiresAt > now
                                THEN [count |-> m[k].count, until |-> m[k].expiresAt]
                                ELSE [count |-> 0, until |-> 0]]

-----------------------------------------------------------------------------
(* The operations on the maps. *)

\* The keys of accounts and of addresses are disjoint families, with their limits.
LEMMA KeysDistinct ==
    /\ \A a, i : AccountKey(a) # IPKey(i)
    /\ \A a \in Account : AccountKey(a) \in Key /\ Limit(AccountKey(a)) = AccountLimit
    /\ \A i \in IP : IPKey(i) \in Key /\ Limit(IPKey(i)) = IPLimit
BY DEF AccountKey, IPKey, Key, Limit

\* incrementCounter is the abstract increment: a counter that has run out is
\* replaced by one whose window opens now, a live one keeps the end of its window.
LEMMA IncrementLive ==
    ASSUME now \in Nat, NEW m, CountersOK(m), NEW k \in Key,
           NEW d, d = incrementCounter(m, k)
    PROVE  /\ CountersOK(d)
           /\ FailuresIn(d) = [FailuresIn(m) EXCEPT ![k] = A!Incremented(@)]
<1> DEFINE old == IF k \in DOMAIN m /\ m[k].expiresAt > now THEN m[k]
                  ELSE [count |-> 0, expiresAt |-> now + Window]
           e == [old EXCEPT !.count = @ + 1]
<1>1. k \in DOMAIN m => m[k] \in Counter
  BY DEF CountersOK
<1>2. old \in [count : Nat, expiresAt : Nat] /\ old.expiresAt > now
  BY <1>1, AuthStateAssumption DEF Counter
<1>3. A!Incremented(FailuresIn(m)[k]) = [count |-> old.count + 1, until |-> old.expiresAt]
  BY <1>1, AuthStateAssumption DEF A!Incremented, A!Closed, FailuresIn, Counter
<1>4. d = Put(m, k, e)
  BY DEF incrementCounter
<1> HIDE DEF old
<1>5. e \in Counter /\ e.expiresAt > now
      /\ e.count = old.count + 1 /\ e.expiresAt = old.expiresAt
  BY <1>2 DEF Counter
<1> HIDE DEF e
<1>6. CountersOK(d) /\ DOMAIN d = DOMAIN m \cup {k}
      /\ \A x \in DOMAIN d : d[x] = IF x = k THEN e ELSE m[x]
  BY <1>4, <1>5 DEF Put, CountersOK, IsMap
<1>7. FailuresIn(d) = [FailuresIn(m) EXCEPT ![k] = [count |-> e.count, until |-> e.expiresAt]]
  BY <1>5, <1>6 DEF FailuresIn
<1> QED
  BY <1>3, <1>5, <1>6, <1>7

\* Removing counters closes those among them that were live, and no other.
LEMMA RemoveLive ==
    ASSUME now \in Nat, NEW m, CountersOK(m), NEW K, NEW d, d = Without(m, K)
    PROVE  /\ CountersOK(d)
           /\ FailuresIn(d) = [k \in Key |-> IF k \in K THEN A!Closed ELSE FailuresIn(m)[k]]
<1>1. CountersOK(d) /\ DOMAIN d = DOMAIN m \ K /\ \A x \in DOMAIN d : d[x] = m[x]
  BY DEF Without, Restrict, CountersOK, IsMap
<1> QED
  BY <1>1 DEF FailuresIn, A!Closed

\* The time to wait is the abstract one.
LEMMA RetryExact ==
    ASSUME now \in Nat, NEW m, CountersOK(m), NEW k \in Key, Limit(k) \in Nat \ {0}
    PROVE  retryAfter(m, k, Limit(k)) = A!RetryAfter(k, FailuresIn(m)[k])
<1>1. CASE k \in DOMAIN m /\ m[k].expiresAt > now
  <2>1. m[k] \in Counter
    BY <1>1 DEF CountersOK
  <2>2. FailuresIn(m)[k] = [count |-> m[k].count, until |-> m[k].expiresAt]
    BY <1>1 DEF FailuresIn
  <2> QED
    BY <1>1, <2>1, <2>2 DEF retryAfter, A!RetryAfter, A!Limit, Limit
<1>2. CASE ~(k \in DOMAIN m /\ m[k].expiresAt > now)
  <2>1. FailuresIn(m)[k] = [count |-> 0, until |-> 0]
    BY <1>2 DEF FailuresIn
  <2>2. A!RetryAfter(k, FailuresIn(m)[k]) = 0
    BY <2>1 DEF A!RetryAfter, A!Limit, Limit
  <2>3. retryAfter(m, k, Limit(k)) = 0
    BY <1>2 DEF retryAfter
  <2> QED
    BY <2>2, <2>3
<1> QED
  BY <1>1, <1>2

\* The answer about an account and an address.
LEMMA AnswerExact ==
    ASSUME now \in Nat, NEW m, CountersOK(m), NEW a \in Account, NEW i \in IP
    PROVE  Reply("ok", Larger(retryAfter(m, AccountKey(a), AccountLimit),
                              retryAfter(m, IPKey(i), IPLimit)))
             = A!Limited(a, i, FailuresIn(m))
<1>1. /\ AccountKey(a) \in Key /\ Limit(AccountKey(a)) = AccountLimit
      /\ IPKey(i) \in Key /\ Limit(IPKey(i)) = IPLimit
  BY KeysDistinct
<1>2. /\ retryAfter(m, AccountKey(a), AccountLimit)
           = A!RetryAfter(AccountKey(a), FailuresIn(m)[AccountKey(a)])
      /\ retryAfter(m, IPKey(i), IPLimit)
           = A!RetryAfter(IPKey(i), FailuresIn(m)[IPKey(i)])
  BY <1>1, RetryExact, AuthStateAssumption
<1> QED
  BY <1>2 DEF A!Limited, A!Reply, A!Larger, A!AccountKey, A!IPKey, Reply, Larger,
              AccountKey, IPKey

-----------------------------------------------------------------------------
(* The invariant, and the step simulation. *)

\* What each operation does to the abstract state.
LEMMA StoreStep ==
    ASSUME IInv, [Next]_vars
    PROVE  IInv' /\ [A!StoreNext]_(A!storeVars)
<1> USE DEF IInv
<1>0. Failures = FailuresIn(counters) /\ (now' = now => Failures' = FailuresIn(counters'))
  BY DEF Failures, FailuresIn
<1>a. now' = now /\ entries' = entries => Revoked' = Revoked
  BY DEF Revoked
<1>b. A!Ok = Ok /\ A!Error = Error /\ A!Key = Key
      /\ A!Reply("revoked", 0) = Reply("revoked", 0)
      /\ A!Reply("valid", 0) = Reply("valid", 0)
      /\ \A a : A!AccountKey(a) = AccountKey(a)
      /\ \A i : A!IPKey(i) = IPKey(i)
  BY DEF A!Ok, A!Error, A!Reply, Ok, Error, Reply, A!Key, Key, A!AccountKey, A!IPKey,
         AccountKey, IPKey
<1>1. CASE UNCHANGED vars
  <2>1. UNCHANGED <<now, entries, counters, reply, Revoked, Failures>>
    BY <1>0, <1>1, <1>a DEF vars
  <2> QED
    BY <2>1 DEF A!storeVars, IsMap, CountersOK
<1>2. ASSUME NEW j \in Jti, NEW ttl \in 0..MaxTTL, RevokeAccessToken(j, ttl)
      PROVE  IInv' /\ A!RevokeAccessToken(j, ttl)
  <2>1. now' = now /\ counters' = counters /\ reply' = Ok /\ ttl \in Nat
        /\ entries' = IF ttl <= 0 THEN entries ELSE Put(entries, j, now + ttl)
    BY <1>2, AuthStateAssumption DEF RevokeAccessToken
  <2>2. IInv' /\ Revoked' = [Revoked EXCEPT ![j] = IF ttl > 0 THEN now + ttl ELSE @]
    <3>1. CASE ttl > 0
      <4>1. entries' = [x \in DOMAIN entries \cup {j} |->
                          IF x = j THEN now + ttl ELSE entries[x]]
        BY <2>1, <3>1 DEF Put
      <4>2. IsMap(entries') /\ \A x \in DOMAIN entries' : entries'[x] \in Nat
        BY <2>1, <3>1, <4>1 DEF IsMap
      <4>3. IInv'
        BY <2>1, <4>2 DEF CountersOK, IsMap
      <4>4. Revoked' = [Revoked EXCEPT ![j] = now + ttl]
        <5>1. \A x \in Jti : Revoked'[x] = IF x = j THEN now + ttl ELSE Revoked[x]
          BY <2>1, <3>1, <4>1 DEF Revoked
        <5>2. Revoked' = [x \in Jti |-> Revoked'[x]] /\ Revoked = [x \in Jti |-> Revoked[x]]
          BY DEF Revoked
        <5> HIDE DEF IInv
        <5> QED
          BY <5>1, <5>2
      <4> QED
        BY <3>1, <4>3, <4>4
    <3>2. CASE ~(ttl > 0)
      BY <2>1, <3>2 DEF Revoked, CountersOK, IsMap
    <3> QED
      BY <3>1, <3>2
  <2> QED
    BY <1>0, <1>b, <2>1, <2>2 DEF A!RevokeAccessToken
<1>3. ASSUME NEW j \in Jti, IsAccessTokenRevoked(j)
      PROVE  IInv' /\ A!IsAccessTokenRevoked(j)
  <2>1. /\ now' = now /\ counters' = counters
        /\ entries' = IF j \in DOMAIN entries /\ entries[j] <= now
                      THEN [x \in DOMAIN entries \ {j}
                              |-> entries[x]] ELSE entries
        /\ reply' = IF j \in DOMAIN entries' THEN Reply("revoked", 0) ELSE Reply("valid", 0)
    BY <1>3 DEF IsAccessTokenRevoked, Without, Restrict
  <2>2. /\ IsMap(entries') /\ \A x \in DOMAIN entries' : entries'[x] \in Nat
        /\ DOMAIN entries' = {x \in DOMAIN entries : x # j \/ entries[x] > now}
        /\ \A x \in DOMAIN entries' : entries'[x] = entries[x]
    BY <2>1 DEF IsMap
  <2>3. Revoked' = Revoked /\ (j \in DOMAIN entries' <=> Revoked[j] > now)
    BY <2>1, <2>2 DEF Revoked
  <2>4. reply' = IF Revoked[j] > now THEN Reply("revoked", 0) ELSE Reply("valid", 0)
    BY <2>1, <2>3
  <2> QED
    BY <1>0, <1>b, <2>1, <2>2, <2>3, <2>4 DEF A!IsAccessTokenRevoked, CountersOK, IsMap
<1>4. ASSUME NEW a \in Account, NEW i \in IP, CheckLoginLimit(a, i)
      PROVE  IInv' /\ A!CheckLoginLimit(a, i)
  <2> DEFINE K == {k \in {AccountKey(a), IPKey(i)} : Expired(k)}
  <2>1. now' = now /\ entries' = entries /\ counters' = Without(counters, K)
        /\ reply' = A!Limited(a, i, FailuresIn(counters))
    BY <1>4, AnswerExact DEF CheckLoginLimit
  <2>2. \A k \in Key : k \in K => FailuresIn(counters)[k] = A!Closed
    BY DEF FailuresIn, Expired, A!Closed, CountersOK, Counter
  <2> HIDE DEF K
  <2>3. CountersOK(counters') /\ FailuresIn(counters') =
          [k \in Key |-> IF k \in K THEN A!Closed ELSE FailuresIn(counters)[k]]
    BY <2>1, RemoveLive
  <2>4. FailuresIn(counters') = FailuresIn(counters)
    BY <2>2, <2>3 DEF FailuresIn
  <2> QED
    BY <1>0, <1>a, <2>1, <2>3, <2>4 DEF A!CheckLoginLimit, IsMap, CountersOK
<1>5. ASSUME NEW a \in Account, NEW i \in IP, RecordLoginFailure(a, i)
      PROVE  IInv' /\ A!RecordLoginFailure(a, i)
  <2> DEFINE c == incrementCounter(counters, AccountKey(a))
             d == incrementCounter(c, IPKey(i))
  <2>0. AccountKey(a) \in Key /\ IPKey(i) \in Key
    BY KeysDistinct
  <2>1. /\ CountersOK(c)
        /\ FailuresIn(c) = [FailuresIn(counters) EXCEPT ![AccountKey(a)] = A!Incremented(@)]
    BY <2>0, IncrementLive
  <2>2. /\ CountersOK(d)
        /\ FailuresIn(d) = [FailuresIn(c) EXCEPT ![IPKey(i)] = A!Incremented(@)]
    <3> HIDE DEF c
    <3> QED
      BY <2>0, <2>1, IncrementLive
  <2>3. /\ now' = now /\ entries' = entries /\ counters' = d
        /\ reply' = Reply("ok", Larger(retryAfter(counters', AccountKey(a), AccountLimit),
                                       retryAfter(counters', IPKey(i), IPLimit)))
    BY <1>5 DEF RecordLoginFailure
  <2> HIDE DEF c, d
  <2>4. reply' = A!Limited(a, i, FailuresIn(d))
    BY <2>2, <2>3, AnswerExact
  <2>5. FailuresIn(c)[IPKey(i)] = FailuresIn(counters)[IPKey(i)]
    <3>1. AccountKey(a) # IPKey(i)
      BY KeysDistinct
    <3>2. FailuresIn(counters) = [k \in Key |-> FailuresIn(counters)[k]]
      BY DEF FailuresIn
    <3> QED
      BY <2>0, <2>1, <3>1, <3>2
  <2>6. FailuresIn(d) = [FailuresIn(counters) EXCEPT ![AccountKey(a)] = A!Incremented(@),
                                                     ![IPKey(i)] = A!Incremented(@)]
    BY <2>1, <2>2, <2>5
  <2>7. IInv'
    BY <2>2, <2>3 DEF IsMap, CountersOK
  <2> QED
    BY <1>0, <1>a, <1>b, <2>3, <2>4, <2>6, <2>7 DEF A!RecordLoginFailure
<1>6. ASSUME NEW a \in Account, ResetLoginAccount(a)
      PROVE  IInv' /\ A!ResetLoginAccount(a)
  <2>0. AccountKey(a) \in Key
    BY KeysDistinct
  <2>1. now' = now /\ entries' = entries /\ reply' = Ok
        /\ counters' = Without(counters, {AccountKey(a)})
    BY <1>6 DEF ResetLoginAccount
  <2>2. CountersOK(counters') /\ FailuresIn(counters') =
          [k \in Key |-> IF k \in {AccountKey(a)} THEN A!Closed ELSE FailuresIn(counters)[k]]
    BY <2>1, RemoveLive
  <2>3. FailuresIn(counters') = [FailuresIn(counters) EXCEPT ![AccountKey(a)] = A!Closed]
    BY <2>0, <2>2 DEF FailuresIn
  <2> QED
    BY <1>0, <1>a, <1>b, <2>1, <2>2, <2>3 DEF A!ResetLoginAccount, IsMap, CountersOK
<1>7. ASSUME Tick
      PROVE  IInv' /\ A!Tick
  <2>1. now' = now + 1 /\ now < MaxTime /\ UNCHANGED <<entries, counters, reply>>
    BY <1>7 DEF Tick
  <2>2. Revoked' = [j \in Jti |-> IF Revoked[j] > now' THEN Revoked[j] ELSE 0]
    BY <2>1 DEF Revoked
  <2>3. Failures' = [k \in Key |-> IF Failures[k].until > now' THEN Failures[k]
                                   ELSE A!Closed]
    BY <2>1 DEF Failures, A!Closed, CountersOK, Counter
  <2> QED
    BY <1>b, <2>1, <2>2, <2>3 DEF A!Tick, IsMap, CountersOK
<1> QED
  BY <1>1, <1>2, <1>3, <1>4, <1>5, <1>6, <1>7 DEF Next, A!StoreNext

-----------------------------------------------------------------------------

\* authstate.MemoryStore implements the Store interface: an entry that has run out
\* never counts, whether an operation has dropped it from its map yet or not, and
\* the waiting times it answers are the exact ones.
THEOREM MemoryRefinesStore == Spec => ImplementsAuthState
<1>1. Init => IInv /\ A!StoreInit
  <2> SUFFICES ASSUME Init PROVE IInv /\ A!StoreInit
    OBVIOUS
  <2>1. now = 0 /\ DOMAIN entries = {} /\ DOMAIN counters = {} /\ reply = Ok
        /\ IsMap(entries) /\ IsMap(counters)
    BY DEF Init, IsMap
  <2>2. Revoked = [j \in Jti |-> 0] /\ Failures = [k \in Key |-> A!Closed]
    BY <2>1 DEF Revoked, Failures, A!Closed
  <2>3. A!Key = Key /\ A!Ok = Ok
    BY DEF A!Key, Key, A!AccountKey, A!IPKey, AccountKey, IPKey, A!Ok, Ok, A!Reply, Reply
  <2> QED
    BY <2>1, <2>2, <2>3 DEF A!StoreInit, IInv, CountersOK
<1>2. IInv /\ [Next]_vars => IInv' /\ [A!StoreNext]_(A!storeVars)
  BY StoreStep
<1> QED
  BY <1>1, <1>2, PTL DEF Spec, ImplementsAuthState, A!StoreSpec

=============================================================================
