----------------------------- MODULE AuthState -----------------------------
(***************************************************************************)
(* What the authentication state store (authstate.Store) promises, whether *)
(* it is kept in memory or in Redis: revocations of access tokens that     *)
(* last a given time, and counters of failed logins per account and per IP *)
(* address over a fixed window.  Every operation is atomic.  A remote      *)
(* store may be unavailable: the caller then gets an error, and cannot     *)
(* tell whether a write took place.                                        *)
(***************************************************************************)
EXTENDS StoreKeys

VARIABLES
    now,        \* the clock
    revoked,    \* until when each access token is revoked; 0 if it is not
    failures,   \* the failure counters
    reply       \* what the last operation returned

storeVars == <<now, revoked, failures, reply>>

\* No failure in the current window.
Closed == [count |-> 0, until |-> 0]

\* The time to wait because of counter c of key k: 0 below the limit.
RetryAfter(k, c) == IF c.count >= Limit(k) THEN c.until - now ELSE 0

\* The answer about account a and address i: the longer of the two waits.
Limited(a, i, counts) ==
    Reply("ok", Larger(RetryAfter(AccountKey(a), counts[AccountKey(a)]),
                       RetryAfter(IPKey(i), counts[IPKey(i)])))

IncrementedSliding(c) == [count |-> c.count + 1, until |-> now + Window]

\* One failure more: the first one opens a window, the others leave its end.
Incremented(c) ==
    IF c = Closed THEN [count |-> 1, until |-> now + Window]
    ELSE [c EXCEPT !.count = @ + 1]

-----------------------------------------------------------------------------
(* The operations; "error" is the answer of an unavailable store. *)

RevokeAccessToken(j, ttl) ==
    /\ \/ reply' = Ok
       \/ reply' = Error
    /\ \/ revoked' = [revoked EXCEPT ![j] = IF ttl > 0 THEN now + ttl ELSE @]
       \/ reply' = Error /\ revoked' = revoked
    /\ UNCHANGED <<now, failures>>

IsAccessTokenRevoked(j) ==
    /\ \/ reply' = IF revoked[j] > now THEN Reply("revoked", 0) ELSE Reply("valid", 0)
       \/ reply' = Error
    /\ UNCHANGED <<now, revoked, failures>>

CheckLoginLimit(a, i) ==
    /\ \/ reply' = Limited(a, i, failures)
       \/ reply' = Error
    /\ UNCHANGED <<now, revoked, failures>>

RecordLoginFailure(a, i) ==
    /\ \/ failures' = [failures EXCEPT ![AccountKey(a)] = Incremented(@),
                                       ![IPKey(i)] = Incremented(@)]
       \/ reply' = Error /\ failures' = failures
    /\ \/ reply' = Limited(a, i, failures')
       \/ reply' = Error
    /\ UNCHANGED <<now, revoked>>

ResetLoginAccount(a) ==
    /\ reply' \in {Ok, Error}
    /\ \/ failures' = [failures EXCEPT ![AccountKey(a)] = Closed]
       \/ reply' = Error /\ failures' = failures
    /\ UNCHANGED <<now, revoked>>

\* Time passes; what has run out is forgotten.
Tick ==
    /\ now < MaxTime
    /\ now' = now + 1
    /\ revoked' = [j \in Jti |-> IF revoked[j] > now' THEN revoked[j] ELSE 0]
    /\ failures' = [k \in Key |-> IF failures[k].until > now'
                                  THEN failures[k] ELSE Closed]
    /\ UNCHANGED reply

-----------------------------------------------------------------------------

StoreInit ==
    /\ now = 0
    /\ revoked = [j \in Jti |-> 0]
    /\ failures = [k \in Key |-> Closed]
    /\ reply = Ok

StoreNext ==
    \/ \E j \in Jti : \/ \E ttl \in 0..MaxTTL : RevokeAccessToken(j, ttl)
                      \/ IsAccessTokenRevoked(j)
    \/ \E a \in Account, i \in IP : CheckLoginLimit(a, i) \/ RecordLoginFailure(a, i)
    \/ \E a \in Account : ResetLoginAccount(a)
    \/ Tick

StoreSpec == StoreInit /\ [][StoreNext]_storeVars

=============================================================================
