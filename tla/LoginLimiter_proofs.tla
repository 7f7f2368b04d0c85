------------------------ MODULE LoginLimiter_proofs -------------------------
(* Machine-checked proofs about the login rate limit: the limits are overrun *)
(* by a bounded number of failures only, and no failure prolongs a lockout,  *)
(* for any limits, windows and numbers of attempts.                          *)
EXTENDS LoginLimiter, FiniteSetTheorems, TLAPS

\* Limits are positive, whichever kind of key they are for.
LEMMA LimitType == \A k \in Key : Limit(k) \in Nat \ {0}
BY AuthStateAssumption DEF Limit

\* The number of pending attempts is a natural number, at most that of attempts.
LEMMA PendingFinite ==
    \A k : /\ IsFiniteSet(Pending(k)) /\ Cardinality(Pending(k)) \in Nat
           /\ Cardinality(Pending(k)) <= Cardinality(Req)
           /\ Cardinality(Req) \in Nat
<1> TAKE k
<1>1. Pending(k) \in SUBSET Req
  BY DEF Pending
<1>2. IsFiniteSet(Pending(k)) /\ Cardinality(Pending(k)) <= Cardinality(Req)
  BY <1>1, FS_Subset, ReqAssumption
<1> QED
  BY <1>2, FS_CardinalityType, ReqAssumption

\* The invariant bounds every counter.
LEMMA OverrunBound == IInv => BoundedOverrun
<1> SUFFICES ASSUME IInv, NEW k \in Key
             PROVE  failures[k].count < Limit(k) + Cardinality(Req)
  BY DEF BoundedOverrun
<1>1. failures[k].count \in Nat
  BY DEF IInv, TypeOK
<1> QED
  BY <1>1, LimitType, PendingFinite DEF IInv, OverrunIsPending

\* All counters start closed.
LEMMA InitInv == Init => IInv
<1> SUFFICES ASSUME Init PROVE IInv
  OBVIOUS
<1> USE DEF Init, StoreInit
<1>1. Closed \in [count : Nat, until : 0..(MaxTime + Window)]
  BY AuthStateAssumption DEF Closed
<1>2. TypeOK
  BY <1>1, AuthStateAssumption DEF TypeOK
<1>3. WindowsOK
  BY DEF WindowsOK
<1>4. OverrunIsPending
  BY LimitType DEF OverrunIsPending, Closed
<1> QED
  BY <1>2, <1>3, <1>4 DEF IInv

\* A step after which no counter is higher, and no counter at its limit has more
\* attempts pending, preserves the bound.
LEMMA NoMorePending ==
    ASSUME IInv,
           \A k \in Key : failures'[k] = failures[k] \/ failures'[k] = Closed,
           \A k \in Key : failures[k].count >= Limit(k) =>
                             Pending(k)' \subseteq Pending(k)
    PROVE  OverrunIsPending'
<1> SUFFICES ASSUME NEW k \in Key, failures'[k].count >= Limit(k)
             PROVE  failures'[k].count + Cardinality(Pending(k)')
                      < Limit(k) + Cardinality(Req)
  BY DEF OverrunIsPending, Limit
<1>1. failures'[k] = failures[k]
  BY LimitType DEF Closed
<1>2. Cardinality(Pending(k)') <= Cardinality(Pending(k))
      /\ Cardinality(Pending(k)') \in Nat
  <2>1. Pending(k)' \in SUBSET Pending(k)
    BY <1>1
  <2>2. IsFiniteSet(Pending(k))
    BY PendingFinite
  <2> QED
    BY <2>1, <2>2, FS_Subset, FS_CardinalityType
<1>3. failures[k].count + Cardinality(Pending(k)) < Limit(k) + Cardinality(Req)
  BY <1>1 DEF IInv, OverrunIsPending
<1>4. failures[k].count \in Nat
  BY DEF IInv, TypeOK
<1> QED
  BY <1>1, <1>2, <1>3, <1>4, LimitType, PendingFinite

\* CheckLoginAllowed lets an attempt pass only for keys below their limits.
LEMMA CheckInv ==
    ASSUME IInv, NEW r \in Req, NEW a \in Account, NEW i \in IP, Check(r, a, i)
    PROVE  IInv'
<1> DEFINE m == [pc |-> "checked", account |-> a, ip |-> i]
<1>1. UNCHANGED <<now, revoked, failures>>
  BY DEF Check, CheckLoginLimit
<1>2. attempt' = [attempt EXCEPT ![r] = IF reply' = Ok THEN m ELSE Idle]
  BY DEF Check
<1>3. attempt \in [Req -> {Idle} \cup [pc : {"checked", "rejected", "authenticated"},
                                       account : Account, ip : IP]]
  BY DEF IInv, TypeOK
<1>4. TypeOK'
  BY <1>1, <1>2, <1>3 DEF IInv, TypeOK
<1>5. WindowsOK'
  BY <1>1 DEF IInv, WindowsOK
<1>6. CASE attempt'[r] = Idle
  <2>1. \A k \in Key : Pending(k)' \subseteq Pending(k)
    BY <1>2, <1>3, <1>6 DEF Pending, Idle
  <2> QED
    BY <1>1, <1>4, <1>5, <2>1, NoMorePending DEF IInv
<1>7. CASE attempt'[r] # Idle
  <2>1. reply' = Ok /\ attempt'[r] = m
    BY <1>2, <1>3, <1>7
  <2>2. \A k \in {AccountKey(a), IPKey(i)} : k \in Key
    BY DEF Key
  \* An answer of no waiting time: no window is both open and at its limit.
  <2>3. \A k \in {AccountKey(a), IPKey(i)} : failures[k].count < Limit(k)
    <3>1. Larger(RetryAfter(AccountKey(a), failures[AccountKey(a)]),
                 RetryAfter(IPKey(i), failures[IPKey(i)])) = 0
      BY <2>1 DEF Check, CheckLoginLimit, Limited, Reply, Ok, Error
    <3>2. ASSUME NEW k \in {AccountKey(a), IPKey(i)}
          PROVE  /\ RetryAfter(k, failures[k]) \in Nat
                 /\ RetryAfter(k, failures[k]) = 0 => failures[k].count < Limit(k)
      <4>1. k \in Key /\ failures[k].count \in Nat /\ failures[k].until \in Nat
            /\ now \in Nat
        BY <2>2, AuthStateAssumption DEF IInv, TypeOK
      <4>2. failures[k] = Closed \/ failures[k].until > now
        BY <2>2 DEF IInv, WindowsOK
      <4>3. Limit(k) \in Nat \ {0}
        BY <4>1, LimitType
      <4>4. failures[k] = Closed => failures[k].count = 0
        BY DEF Closed
      <4> QED
        BY <4>1, <4>2, <4>3, <4>4 DEF RetryAfter
    <3> QED
      BY <3>1, <3>2 DEF Larger
  <2>4. \A k \in Key : failures[k].count >= Limit(k) =>
           k \notin {AccountKey(a), IPKey(i)}
    <3>1. \A k \in Key : failures[k].count \in Nat /\ Limit(k) \in Nat
      BY LimitType DEF IInv, TypeOK
    <3> QED
      BY <2>2, <2>3, <3>1
  <2>5. \A k \in Key : failures[k].count >= Limit(k) =>
           Pending(k)' \subseteq Pending(k)
    BY <1>2, <1>3, <2>1, <2>4 DEF Pending
  <2> QED
    BY <1>1, <1>4, <1>5, <2>5, NoMorePending DEF IInv
<1> QED
  BY <1>6, <1>7

\* UserService.Login moves an attempt on, or ends it.
LEMMA CredentialsInv ==
    ASSUME IInv, NEW r \in Req,
           NEW result \in {"rejected", "authenticated", "db_error"},
           Credentials(r, result)
    PROVE  IInv'
<1>1. UNCHANGED <<now, revoked, failures, reply>>
  BY DEF Credentials, storeVars
<1>2. attempt \in [Req -> {Idle} \cup [pc : {"checked", "rejected", "authenticated"},
                                       account : Account, ip : IP]]
  BY DEF IInv, TypeOK
<1>3. attempt[r] \in [pc : {"checked", "rejected", "authenticated"},
                      account : Account, ip : IP]
  BY <1>2 DEF Credentials, Idle
<1>4. attempt' = [attempt EXCEPT ![r] = IF result = "db_error" THEN Idle
                                        ELSE [attempt[r] EXCEPT !.pc = result]]
  BY <1>2 DEF Credentials
<1>5. TypeOK'
  BY <1>1, <1>2, <1>3, <1>4 DEF IInv, TypeOK
<1>6. WindowsOK'
  BY <1>1 DEF IInv, WindowsOK
<1>7. \A k \in Key : Pending(k)' \subseteq Pending(k)
  BY <1>2, <1>3, <1>4 DEF Pending, Idle
<1> QED
  BY <1>1, <1>5, <1>6, <1>7, NoMorePending DEF IInv

\* An attempt that ends is pending no more; the others are as before.
LEMMA EndPending ==
    ASSUME IInv, NEW r \in Req, attempt[r].pc # "idle",
           attempt' = [attempt EXCEPT ![r] = Idle]
    PROVE  /\ attempt' \in [Req -> {Idle} \cup
                               [pc : {"checked", "rejected", "authenticated"},
                                account : Account, ip : IP]]
           /\ \A k : Pending(k)' = Pending(k) \ {r}
           /\ attempt[r].account \in Account /\ attempt[r].ip \in IP
           /\ \A k \in {AccountKey(attempt[r].account), IPKey(attempt[r].ip)} :
                 k \in Key /\ r \in Pending(k)
<1>1. attempt \in [Req -> {Idle} \cup [pc : {"checked", "rejected", "authenticated"},
                                       account : Account, ip : IP]]
  BY DEF IInv, TypeOK
<1>2. attempt[r] \in [pc : {"checked", "rejected", "authenticated"},
                      account : Account, ip : IP]
  BY <1>1 DEF Idle
<1>3. \A k : Pending(k)' = Pending(k) \ {r}
  BY <1>1 DEF Pending, Idle
<1>4. \A k \in {AccountKey(attempt[r].account), IPKey(attempt[r].ip)} :
         k \in Key /\ r \in Pending(k)
  BY <1>2 DEF Pending, Key
<1> QED
  BY <1>1, <1>2, <1>3, <1>4

\* RecordLoginFailure counts an attempt that was pending: what the counter gains,
\* the pending attempts lose; and at most all other attempts are pending when the
\* limit is reached.
LEMMA RecordFailureInv ==
    ASSUME IInv, NEW r \in Req, RecordFailure(r)
    PROVE  IInv'
<1> DEFINE ka == AccountKey(attempt[r].account)
           ki == IPKey(attempt[r].ip)
<1>1. UNCHANGED <<now, revoked>>
  BY DEF RecordFailure, RecordLoginFailure
<1>2. /\ attempt' \in [Req -> {Idle} \cup
                           [pc : {"checked", "rejected", "authenticated"},
                            account : Account, ip : IP]]
      /\ \A k : Pending(k)' = Pending(k) \ {r}
      /\ ka \in Key /\ ki \in Key /\ r \in Pending(ka) /\ r \in Pending(ki)
  BY EndPending DEF RecordFailure
<1>3. failures \in [Key -> [count : Nat, until : 0..(MaxTime + Window)]]
      /\ now \in 0..MaxTime
  BY DEF IInv, TypeOK
<1>4. CASE failures' = failures
  <2>1. TypeOK' /\ WindowsOK'
    BY <1>1, <1>2, <1>3, <1>4 DEF IInv, TypeOK, WindowsOK
  <2>2. \A k \in Key : Pending(k)' \subseteq Pending(k)
    BY <1>2
  <2> QED
    BY <1>4, <2>1, <2>2, NoMorePending DEF IInv
<1>5. CASE failures' = [failures EXCEPT ![ka] = Incremented(@), ![ki] = Incremented(@)]
  <2>1. ka # ki
    BY DEF AccountKey, IPKey
  <2>2. \A k \in Key : failures'[k] = IF k \in {ka, ki} THEN Incremented(failures[k])
                                       ELSE failures[k]
    BY <1>2, <1>3, <1>5, <2>1
  <2>3. ASSUME NEW c \in [count : Nat, until : 0..(MaxTime + Window)],
               c = Closed \/ c.until > now
        PROVE  /\ Incremented(c) \in [count : Nat, until : 0..(MaxTime + Window)]
               /\ Incremented(c).count = c.count + 1
               /\ Incremented(c).until > now
    BY <1>3, <2>3, AuthStateAssumption DEF Incremented, Closed
  <2>4. \A k \in Key : failures[k] = Closed \/ failures[k].until > now
    BY DEF IInv, WindowsOK
  <2>5. failures' \in [Key -> [count : Nat, until : 0..(MaxTime + Window)]]
    <3>1. \A k \in Key : failures'[k] \in [count : Nat, until : 0..(MaxTime + Window)]
      BY <1>3, <2>2, <2>3, <2>4
    <3> QED
      BY <1>3, <1>5, <3>1
  <2>6. TypeOK'
    BY <1>1, <1>2, <1>3, <2>5 DEF TypeOK
  <2>7. WindowsOK'
    BY <1>1, <1>3, <2>2, <2>3, <2>4 DEF WindowsOK
  <2>8. ASSUME NEW k \in Key, failures'[k].count >= Limit(k)
        PROVE  failures'[k].count + Cardinality(Pending(k)')
                 < Limit(k) + Cardinality(Req)
    <3> DEFINE c == failures[k].count
               d == Cardinality(Pending(k))
               e == Cardinality(Pending(k)')
               n == Cardinality(Req)
    <3>1. c \in Nat /\ d \in Nat /\ n \in Nat /\ d <= n /\ Limit(k) \in Nat \ {0}
      BY <1>3, PendingFinite, LimitType
    <3>2. /\ c >= Limit(k) => c + d < Limit(k) + n
      BY DEF IInv, OverrunIsPending
    <3>3. IsFiniteSet(Pending(k)) /\ Pending(k)' = Pending(k) \ {r}
      BY <1>2, PendingFinite
    <3>4. e = IF r \in Pending(k) THEN d - 1 ELSE d
      BY <3>3, FS_RemoveElement
    <3>5. CASE k \in {ka, ki}
      <4>1. failures'[k].count = c + 1
        BY <1>3, <2>2, <2>3, <2>4, <3>5
      <4>2. e = d - 1
        BY <1>2, <3>4, <3>5
      <4> HIDE DEF c, d, e, n
      <4>3. c >= Limit(k) \/ c + 1 = Limit(k)
        BY <2>8, <3>1, <4>1
      <4> QED
        BY <3>1, <3>2, <4>1, <4>2, <4>3 DEF e, n
    <3>6. CASE k \notin {ka, ki}
      <4>1. failures'[k].count = c
        BY <2>2, <3>6
      <4> HIDE DEF c, d, e, n
      <4> QED
        BY <2>8, <3>1, <3>2, <3>4, <4>1 DEF e, n
    <3> QED
      BY <3>5, <3>6
  <2>9. OverrunIsPending'
    BY <2>8 DEF OverrunIsPending, Limit
  <2> QED
    BY <2>6, <2>7, <2>9 DEF IInv
<1> QED
  BY <1>4, <1>5 DEF RecordFailure, RecordLoginFailure

\* ResetLoginFailures closes the account's window.
LEMMA ResetFailuresInv ==
    ASSUME IInv, NEW r \in Req, ResetFailures(r)
    PROVE  IInv'
<1>1. UNCHANGED <<now, revoked>>
  BY DEF ResetFailures, ResetLoginAccount
<1>2. /\ attempt' \in [Req -> {Idle} \cup
                           [pc : {"checked", "rejected", "authenticated"},
                            account : Account, ip : IP]]
      /\ \A k : Pending(k)' = Pending(k) \ {r}
  BY EndPending DEF ResetFailures
<1>3. failures \in [Key -> [count : Nat, until : 0..(MaxTime + Window)]]
  BY DEF IInv, TypeOK
<1>4. Closed \in [count : Nat, until : 0..(MaxTime + Window)]
  BY AuthStateAssumption DEF Closed
<1>5. /\ failures' \in [Key -> [count : Nat, until : 0..(MaxTime + Window)]]
      /\ \A k \in Key : failures'[k] = failures[k] \/ failures'[k] = Closed
  BY <1>3, <1>4 DEF ResetFailures, ResetLoginAccount
<1>6. TypeOK' /\ WindowsOK'
  BY <1>1, <1>2, <1>5 DEF IInv, TypeOK, WindowsOK
<1>7. \A k \in Key : Pending(k)' \subseteq Pending(k)
  BY <1>2
<1> QED
  BY <1>5, <1>6, <1>7, NoMorePending DEF IInv

\* The clock closes the windows that end.
LEMMA TickInv ==
    ASSUME IInv, Tick, UNCHANGED attempt
    PROVE  IInv'
<1>1. failures \in [Key -> [count : Nat, until : 0..(MaxTime + Window)]]
      /\ now \in 0..MaxTime
  BY DEF IInv, TypeOK
<1>2. Closed \in [count : Nat, until : 0..(MaxTime + Window)]
  BY AuthStateAssumption DEF Closed
<1>3. failures' = [k \in Key |-> IF failures[k].until > now'
                                 THEN failures[k] ELSE Closed]
  BY DEF Tick
<1>4. now' \in 0..MaxTime
  BY <1>1, AuthStateAssumption DEF Tick
<1>5. TypeOK'
  BY <1>1, <1>2, <1>3, <1>4 DEF IInv, TypeOK
<1>6. WindowsOK'
  BY <1>3 DEF WindowsOK
<1>7. \A k \in Key : failures'[k] = failures[k] \/ failures'[k] = Closed
  BY <1>3
<1>8. \A k \in Key : Pending(k)' \subseteq Pending(k)
  BY DEF Pending
<1> QED
  BY <1>5, <1>6, <1>7, <1>8, NoMorePending DEF IInv

\* Every step of an attempt and of the clock preserves the invariant.
LEMMA Inductive == IInv /\ [Next]_vars => IInv'
<1> SUFFICES ASSUME IInv, [Next]_vars PROVE IInv'
  OBVIOUS
<1>1. CASE UNCHANGED vars
  BY <1>1 DEF vars, IInv, TypeOK, WindowsOK, OverrunIsPending, Pending
<1>2. ASSUME NEW r \in Req, NEW a \in Account, NEW i \in IP, Check(r, a, i)
      PROVE  IInv'
  BY <1>2, CheckInv
<1>3. ASSUME NEW r \in Req,
             NEW result \in {"rejected", "authenticated", "db_error"},
             Credentials(r, result)
      PROVE  IInv'
  BY <1>3, CredentialsInv
<1>4. ASSUME NEW r \in Req, RecordFailure(r) \/ ResetFailures(r) PROVE IInv'
  BY <1>4, RecordFailureInv, ResetFailuresInv
<1>5. CASE Tick /\ UNCHANGED attempt
  BY <1>5, TickInv
<1> QED
  BY <1>1, <1>2, <1>3, <1>4, <1>5 DEF Next

\* The check of LoginHandler and its record of a failure are two calls of the
\* store; still no counter ever exceeds its limit by as many failures as there
\* are concurrent attempts.
THEOREM OverrunCorrect == Spec => []BoundedOverrun
BY InitInv, Inductive, OverrunBound, PTL DEF Spec

-----------------------------------------------------------------------------

\* Whatever happens, a counter stays, is closed, or counts one failure more: the
\* two counters of an attempt are different ones, so none is incremented twice.
LEMMA CounterStep ==
    ASSUME IInv, [Next]_vars, NEW k \in Key
    PROVE  failures'[k] \in {failures[k], Closed, Incremented(failures[k])}
<1>1. failures \in [Key -> [count : Nat, until : 0..(MaxTime + Window)]]
  BY DEF IInv, TypeOK
<1>2. CASE failures' = failures
  BY <1>2
<1>3. ASSUME NEW r \in Req, RecordFailure(r)
      PROVE  failures'[k] \in {failures[k], Closed, Incremented(failures[k])}
  <2> DEFINE ka == AccountKey(attempt[r].account)
             ki == IPKey(attempt[r].ip)
  <2>1. ka # ki
    BY DEF AccountKey, IPKey
  <2>2. \/ failures' = failures
        \/ failures' = [failures EXCEPT ![ka] = Incremented(@), ![ki] = Incremented(@)]
    BY <1>3 DEF RecordFailure, RecordLoginFailure
  <2> QED
    BY <1>1, <2>1, <2>2
<1>4. ASSUME NEW r \in Req, ResetFailures(r)
      PROVE  failures'[k] \in {failures[k], Closed, Incremented(failures[k])}
  BY <1>1, <1>4 DEF ResetFailures, ResetLoginAccount
<1>5. CASE Tick
  BY <1>5 DEF Tick
<1> QED
  BY <1>2, <1>3, <1>4, <1>5
     DEF Next, vars, Check, CheckLoginLimit, Credentials, storeVars

\* RecordLoginFailure opens a window of the configured length and no later failure,
\* however far past the limit, moves its end: a lockout is never prolonged.
THEOREM WindowCorrect == Spec => FixedWindow
<1> DEFINE Fixed ==
       \A k \in Key :
          /\ failures[k] = Closed /\ failures'[k] # Closed =>
                failures'[k].until = now + Window
          /\ failures[k] # Closed /\ failures'[k] # Closed =>
                failures'[k].until = failures[k].until
<1>1. IInv /\ [Next]_vars => [Fixed]_vars
  <2> SUFFICES ASSUME IInv, [Next]_vars PROVE Fixed
    OBVIOUS
  <2>1. failures \in [Key -> [count : Nat, until : 0..(MaxTime + Window)]]
    BY DEF IInv, TypeOK
  <2> QED
    BY <2>1, CounterStep DEF Incremented
<1> QED
  BY InitInv, Inductive, <1>1, PTL DEF Spec, FixedWindow

=============================================================================
