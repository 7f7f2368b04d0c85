---------------------------- MODULE MemoryStore ----------------------------
(***************************************************************************)
(* authstate.MemoryStore: two maps behind one mutex.  Entries that have    *)
(* run out stay in the maps until an operation on the same key drops or    *)
(* replaces them.                                                          *)
(***************************************************************************)
EXTENDS StoreKeys, Functions

CONSTANT MaxFailures   \* bound on a counter

VARIABLES
    now,        \* time.Now
    entries,    \* the revoked map: jti to expiry
    counters,   \* the counters map: key to memoryCounter
    reply       \* what the last operation returned

vars == <<now, entries, counters, reply>>

Put(m, k, v) == [x \in DOMAIN m \cup {k} |-> IF x = k THEN v ELSE m[x]]
Without(m, K) == Restrict(m, DOMAIN m \ K)

Expired(k) == k \in DOMAIN counters /\ counters[k].expiresAt <= now

incrementCounterKeeping(m, k) ==
    LET counter == IF k \in DOMAIN m THEN m[k]
                   ELSE [count |-> 0, expiresAt |-> now + Window]
    IN  Put(m, k, [counter EXCEPT !.count = @ + 1])

\* A counter that has run out is replaced by a new one.
incrementCounter(m, k) ==
    LET counter == IF k \in DOMAIN m /\ m[k].expiresAt > now THEN m[k]
                   ELSE [count |-> 0, expiresAt |-> now + Window]
    IN  Put(m, k, [counter EXCEPT !.count = @ + 1])

\* counterRetryAfter, and the same computation in RecordLoginFailure
retryAfter(m, k, limit) ==
    IF k \in DOMAIN m /\ m[k].expiresAt > now /\ m[k].count >= limit
    THEN m[k].expiresAt - now ELSE 0

RevokeAccessToken(j, ttl) ==
    /\ entries' = IF ttl <= 0 THEN entries ELSE Put(entries, j, now + ttl)
    /\ reply' = Ok
    /\ UNCHANGED <<now, counters>>

IsAccessTokenRevoked(j) ==
    /\ entries' = IF j \in DOMAIN entries /\ entries[j] <= now
                  THEN Without(entries, {j}) ELSE entries
    /\ reply' = IF j \in DOMAIN entries' THEN Reply("revoked", 0) ELSE Reply("valid", 0)
    /\ UNCHANGED <<now, counters>>

CheckLoginLimit(a, i) ==
    LET ka == AccountKey(a)
        ki == IPKey(i)
    IN
    /\ counters' = Without(counters, {k \in {ka, ki} : Expired(k)})
    /\ reply' = Reply("ok", Larger(retryAfter(counters, ka, AccountLimit),
                                   retryAfter(counters, ki, IPLimit)))
    /\ UNCHANGED <<now, entries>>

RecordLoginFailure(a, i) ==
    LET ka == AccountKey(a)
        ki == IPKey(i)
    IN
    /\ counters' = incrementCounter(incrementCounter(counters, ka), ki)
    /\ reply' = Reply("ok", Larger(retryAfter(counters', ka, AccountLimit),
                                   retryAfter(counters', ki, IPLimit)))
    /\ UNCHANGED <<now, entries>>

ResetLoginAccount(a) ==
    /\ counters' = Without(counters, {AccountKey(a)})
    /\ reply' = Ok
    /\ UNCHANGED <<now, entries>>

Tick ==
    /\ now < MaxTime
    /\ now' = now + 1
    /\ UNCHANGED <<entries, counters, reply>>

Init ==
    /\ now = 0
    /\ entries = [j \in {} |-> 0]
    /\ counters = [k \in {} |-> 0]
    /\ reply = Ok

Next ==
    \/ \E j \in Jti : \/ \E ttl \in 0..MaxTTL : RevokeAccessToken(j, ttl)
                      \/ IsAccessTokenRevoked(j)
    \/ \E a \in Account, i \in IP :
          \/ CheckLoginLimit(a, i)
          \/ /\ \A k \in DOMAIN counters : counters[k].count < MaxFailures
             /\ RecordLoginFailure(a, i)
    \/ \E a \in Account : ResetLoginAccount(a)
    \/ Tick

Spec == Init /\ [][Next]_vars

-----------------------------------------------------------------------------

\* The live part of the maps, which is what the Store interface speaks of.
Revoked == [j \in Jti |-> IF j \in DOMAIN entries /\ entries[j] > now
                          THEN entries[j] ELSE 0]
Failures == [k \in Key |-> IF k \in DOMAIN counters /\ counters[k].expiresAt > now
                           THEN [count |-> counters[k].count,
                                 until |-> counters[k].expiresAt]
                           ELSE [count |-> 0, until |-> 0]]

A == INSTANCE AuthState WITH revoked <- Revoked, failures <- Failures

\* MemoryStore keeps the promises of the Store interface: entries that have run
\* out but are still in a map never count, and dropping them is not observable.
ImplementsAuthState == A!StoreSpec

=============================================================================
