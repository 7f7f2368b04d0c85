----------------------- MODULE AccessRevocation_proofs ----------------------
(* Machine-checked proofs that the logout of an access token holds until the *)
(* token expires, for any lifetimes, leeway, tokens and concurrent requests. *)
EXTENDS AccessRevocation, TLAPS

\* What a request keeps while it is under way.
Local ==
    {Idle} \cup [pc : {"revoke"}, jti : Jti]
           \cup [pc : {"store"}, jti : Jti, ttl : Nat \ {0}]
           \cup [pc : {"lookup"}, jti : Jti, late : BOOLEAN]
           \cup [pc : {"accepted"}, jti : Jti, late : BOOLEAN, at : Nat]

\* Type correctness.
TypeOK ==
    /\ now \in Nat
    /\ revoked \in [Jti -> Nat]
    /\ expiry \in [Jti -> Nat]
    /\ loggedOut \subseteq Jti
    /\ req \in [Req -> Local]

\* The tokens of logouts and of requests were issued, so their expiry is fixed.
IssuedOK ==
    /\ \A j \in loggedOut : expiry[j] > 0
    /\ \A r \in Req : req[r] # Idle => expiry[req[r].jti] > 0

\* The time left that a logout has computed reaches to the expiry, also if it is
\* stored later.
TimeLeftOK ==
    \A r \in Req : req[r].pc = "store" => now + req[r].ttl >= expiry[req[r].jti]

\* What a request knows about an earlier logout stays true.
LateOK ==
    \A r \in Req : req[r].pc \in {"lookup", "accepted"} /\ req[r].late =>
        req[r].jti \in loggedOut

IInv ==
    /\ TypeOK /\ IssuedOK /\ TimeLeftOK /\ LateOK
    /\ LoggedOutIsStored /\ RevokedUntilExpiry

-----------------------------------------------------------------------------

\* A request is idle exactly if its pc says so.
LEMMA IdleLocal ==
    \A m \in Local : /\ (m.pc = "idle") = (m = Idle)
                     /\ m # Idle => m.jti \in Jti
                     /\ m.pc = "store" => m.ttl \in Nat \ {0}
                     /\ m.pc \in {"lookup", "accepted"} => m.late \in BOOLEAN
                     /\ m.pc = "accepted" => m.at \in Nat
BY DEF Local, Idle

\* Nothing is issued, revoked or under way at the start.
LEMMA InitInv == Init => IInv
<1> SUFFICES ASSUME Init PROVE IInv
  OBVIOUS
<1>1. TypeOK
  BY DEF Init, StoreInit, TypeOK, Local
<1>2. \A r \in Req : req[r] = Idle /\ req[r].pc = "idle"
  BY DEF Init, Idle
<1> QED
  BY <1>1, <1>2 DEF Init, StoreInit, IInv, IssuedOK, TimeLeftOK, LateOK,
                    LoggedOutIsStored, RevokedUntilExpiry

\* A step of one request that keeps the clock, the expiries and the entries that
\* matter, and is right about its own token, preserves the invariant.
LEMMA RequestStep ==
    ASSUME IInv, NEW r \in Req, NEW m \in Local,
           req' = [req EXCEPT ![r] = m],
           UNCHANGED <<now, expiry>>,
           revoked' \in [Jti -> Nat],
           loggedOut \subseteq loggedOut', loggedOut' \subseteq Jti,
           \A j \in loggedOut' : /\ expiry[j] > 0
                                 /\ now < expiry[j] => revoked'[j] >= expiry[j],
           m # Idle => expiry[m.jti] > 0,
           m.pc = "store" => now + m.ttl >= expiry[m.jti],
           m.pc \in {"lookup", "accepted"} /\ m.late => m.jti \in loggedOut,
           m.pc = "accepted" /\ m.late => m.at >= expiry[m.jti]
    PROVE  IInv'
<1>1. /\ req \in [Req -> Local] /\ req' \in [Req -> Local]
      /\ \A q \in Req : req'[q] = IF q = r THEN m ELSE req[q]
  BY DEF IInv, TypeOK
<1>2. TypeOK'
  BY <1>1 DEF IInv, TypeOK
<1>3. IssuedOK'
  BY <1>1 DEF IInv, IssuedOK
<1>4. TimeLeftOK'
  BY <1>1 DEF IInv, TimeLeftOK
<1>5. LateOK'
  BY <1>1 DEF IInv, LateOK
<1>6. LoggedOutIsStored'
  BY DEF LoggedOutIsStored
<1>7. RevokedUntilExpiry'
  BY <1>1 DEF IInv, RevokedUntilExpiry
<1> QED
  BY <1>2, <1>3, <1>4, <1>5, <1>6, <1>7 DEF IInv

\* generateToken gives a token its expiry; nobody has used the token before.
LEMMA IssueInv ==
    ASSUME IInv, NEW j \in Jti, Issue(j)
    PROVE  IInv'
<1>1. /\ UNCHANGED <<now, revoked, loggedOut, req>>
      /\ expiry[j] = 0 /\ expiry' = [expiry EXCEPT ![j] = now + AccessTTL]
  BY DEF Issue, storeVars
<1>2. expiry \in [Jti -> Nat] /\ now \in Nat /\ now + AccessTTL \in Nat \ {0}
  BY LifetimeAssumption DEF IInv, TypeOK
<1>3. TypeOK'
  BY <1>1, <1>2 DEF IInv, TypeOK
<1>4. /\ \A k \in loggedOut : k # j
      /\ \A r \in Req : req[r] # Idle => req[r].jti # j /\ req[r].jti \in Jti
  BY <1>1, IdleLocal DEF IInv, IssuedOK, TypeOK
<1>5. /\ \A k \in loggedOut : expiry'[k] = expiry[k]
      /\ \A r \in Req : req[r] # Idle => expiry'[req[r].jti] = expiry[req[r].jti]
  BY <1>1, <1>2, <1>4 DEF IInv, TypeOK
<1>6. \A r \in Req : req[r].pc # "idle" => req[r] # Idle
  BY DEF Idle
<1> QED
  BY <1>1, <1>3, <1>5, <1>6 DEF IInv, IssuedOK, TimeLeftOK, LateOK,
                                LoggedOutIsStored, RevokedUntilExpiry

\* optionalAccessToken and the middleware's parsing let only issued tokens pass.
LEMMA BeginInv ==
    ASSUME IInv, NEW r \in Req, NEW j \in Jti, LogoutBegin(r, j) \/ Parse(r, j)
    PROVE  IInv'
<1> DEFINE out  == [pc |-> "revoke", jti |-> j]
           late == j \in loggedOut
           look == [pc |-> "lookup", jti |-> j, late |-> late]
<1>1. UNCHANGED <<now, revoked, expiry, loggedOut>>
  BY DEF LogoutBegin, Parse, storeVars
<1>2. revoked' \in [Jti -> Nat] /\ loggedOut' \subseteq Jti
  BY <1>1 DEF IInv, TypeOK
<1>3. \A k \in loggedOut' : /\ expiry[k] > 0
                            /\ now < expiry[k] => revoked'[k] >= expiry[k]
  BY <1>1 DEF IInv, IssuedOK, LoggedOutIsStored
<1>4. late \in BOOLEAN
  OBVIOUS
<1>5. \/ req' = [req EXCEPT ![r] = Idle]
      \/ req' = [req EXCEPT ![r] = out] /\ Parses(j)
      \/ req' = [req EXCEPT ![r] = look] /\ Parses(j)
  BY Zenon DEF LogoutBegin, Parse
<1>6. Parses(j) => expiry[j] > 0
  BY DEF Parses
<1>7. CASE req' = [req EXCEPT ![r] = Idle]
  <2>1. Idle \in Local /\ Idle.pc = "idle"
    BY DEF Local, Idle
  <2> QED
    BY <1>1, <1>2, <1>3, <1>7, <2>1, RequestStep
<1>8. CASE req' = [req EXCEPT ![r] = out] /\ Parses(j)
  <2>1. out \in Local /\ out.pc = "revoke" /\ out.jti = j
    BY DEF Local
  <2> QED
    BY <1>1, <1>2, <1>3, <1>6, <1>8, <2>1, RequestStep
<1>9. CASE req' = [req EXCEPT ![r] = look] /\ Parses(j)
  <2>1. late => j \in loggedOut
    BY Zenon
  <2> HIDE DEF late
  <2>2. look \in Local /\ look.pc = "lookup" /\ look.jti = j /\ look.late = late
    BY <1>4 DEF Local
  <2> QED
    BY <1>1, <1>2, <1>3, <1>6, <1>9, <2>1, <2>2, RequestStep
<1> QED
  BY <1>5, <1>7, <1>8, <1>9

\* RevokeAccessToken computes the time left: none is needed for a token past its
\* expiry, otherwise it reaches exactly to the expiry.
LEMMA TimeLeftInv ==
    ASSUME IInv, NEW r \in Req, TimeLeft(r)
    PROVE  IInv'
<1> DEFINE j == req[r].jti
<1>1. req[r].pc = "revoke" /\ UNCHANGED <<now, revoked, expiry>>
  BY DEF TimeLeft, storeVars
<1>2. j \in Jti /\ expiry[j] > 0 /\ expiry[j] \in Nat /\ now \in Nat
  BY <1>1, IdleLocal DEF IInv, TypeOK, IssuedOK, Idle
<1>3. revoked' \in [Jti -> Nat]
  BY <1>1 DEF IInv, TypeOK
<1>4. \A k \in loggedOut : /\ expiry[k] > 0
                           /\ now < expiry[k] => revoked'[k] >= expiry[k]
  BY <1>1 DEF IInv, IssuedOK, LoggedOutIsStored
<1>5. CASE expiry[j] <= now
  <2>1. req' = [req EXCEPT ![r] = Idle] /\ loggedOut' = loggedOut \cup {j}
    BY <1>5 DEF TimeLeft
  <2>2. Idle \in Local /\ Idle.pc = "idle"
    BY DEF Local, Idle
  <2>3. loggedOut' \subseteq Jti
    BY <1>2, <2>1 DEF IInv, TypeOK
  <2>4. \A k \in loggedOut' : /\ expiry[k] > 0
                              /\ now < expiry[k] => revoked'[k] >= expiry[k]
    BY <1>2, <1>4, <1>5, <2>1
  <2> QED
    BY <1>1, <1>3, <2>1, <2>2, <2>3, <2>4, RequestStep
<1>6. CASE ~(expiry[j] <= now)
  <2> DEFINE m == [pc |-> "store", jti |-> j, ttl |-> expiry[j] - now]
  <2>1. req' = [req EXCEPT ![r] = m] /\ loggedOut' = loggedOut
    BY <1>6 DEF TimeLeft
  <2>2. m \in Local /\ m # Idle /\ now + m.ttl >= expiry[m.jti]
    BY <1>2, <1>6 DEF Local, Idle
  <2>3. loggedOut' \subseteq Jti
    BY <2>1 DEF IInv, TypeOK
  <2> QED
    BY <1>1, <1>2, <1>3, <1>4, <2>1, <2>2, <2>3, RequestStep
<1> QED
  BY <1>5, <1>6

\* The store keeps the entry at least to the expiry, or answers an error, after
\* which the entry may be there or not; an earlier entry is never shortened below
\* the expiry.
LEMMA StoreRevocationInv ==
    ASSUME IInv, NEW r \in Req, StoreRevocation(r)
    PROVE  IInv'
<1> DEFINE j == req[r].jti
<1>1. req[r].pc = "store" /\ UNCHANGED <<now, expiry>>
  BY DEF StoreRevocation, RevokeAccessToken
<1>2. /\ j \in Jti /\ expiry[j] > 0 /\ expiry[j] \in Nat /\ now \in Nat
      /\ req[r].ttl \in Nat \ {0} /\ now + req[r].ttl >= expiry[j]
  BY <1>1, IdleLocal DEF IInv, TypeOK, IssuedOK, TimeLeftOK, Idle
<1>3. revoked \in [Jti -> Nat] /\ loggedOut \subseteq Jti
  BY DEF IInv, TypeOK
<1>4. \/ revoked' = [revoked EXCEPT ![j] = now + req[r].ttl]
      \/ reply' = Error /\ revoked' = revoked
  BY <1>2 DEF StoreRevocation, RevokeAccessToken
<1>5. revoked' \in [Jti -> Nat]
  BY <1>2, <1>3, <1>4
<1>6. /\ loggedOut' = loggedOut \/ loggedOut' = loggedOut \cup {j}
      /\ loggedOut' # loggedOut => reply' = Ok
  BY DEF StoreRevocation
<1>7. Ok # Error
  BY DEF Ok, Error, Reply
<1>8. \A k \in loggedOut' : /\ expiry[k] > 0
                            /\ now < expiry[k] => revoked'[k] >= expiry[k]
  <2>1. \A k \in loggedOut : /\ expiry[k] > 0
                             /\ now < expiry[k] => revoked[k] >= expiry[k]
    BY DEF IInv, IssuedOK, LoggedOutIsStored
  <2> QED
    BY <1>2, <1>3, <1>4, <1>6, <1>7, <2>1
<1>9. Idle \in Local /\ Idle.pc = "idle" /\ req' = [req EXCEPT ![r] = Idle]
  BY DEF Local, Idle, StoreRevocation
<1> QED
  BY <1>1, <1>2, <1>3, <1>5, <1>6, <1>8, <1>9, RequestStep

\* ValidateAccessToken asks the store: before the expiry it holds an entry for
\* every token whose logout was reported, so the request is refused.
LEMMA LookupInv ==
    ASSUME IInv, NEW r \in Req, Lookup(r)
    PROVE  IInv'
<1> DEFINE j == req[r].jti
           m == [pc |-> "accepted", jti |-> j, late |-> req[r].late, at |-> now]
<1>1. req[r].pc = "lookup" /\ UNCHANGED <<now, revoked, expiry, loggedOut>>
  BY DEF Lookup, IsAccessTokenRevoked
<1>2. /\ j \in Jti /\ expiry[j] > 0 /\ expiry[j] \in Nat /\ now \in Nat
      /\ req[r].late \in BOOLEAN /\ revoked[j] \in Nat
      /\ req[r].late => j \in loggedOut
  BY <1>1, IdleLocal DEF IInv, TypeOK, IssuedOK, LateOK, Idle
<1>3. revoked' \in [Jti -> Nat] /\ loggedOut' \subseteq Jti
  BY <1>1 DEF IInv, TypeOK
<1>4. \A k \in loggedOut' : /\ expiry[k] > 0
                            /\ now < expiry[k] => revoked'[k] >= expiry[k]
  BY <1>1 DEF IInv, IssuedOK, LoggedOutIsStored
<1>5. Idle \in Local /\ Idle.pc = "idle"
  BY DEF Local, Idle
<1>6. CASE reply'.status = "valid"
  <2>1. req' = [req EXCEPT ![r] = m]
    BY <1>6 DEF Lookup
  <2>2. m \in Local /\ m # Idle
    BY <1>2 DEF Local, Idle
  <2>3. revoked[j] <= now
    BY <1>2, <1>6 DEF Lookup, IsAccessTokenRevoked, Reply, Error
  <2>4. m.late => m.at >= expiry[m.jti]
    BY <1>1, <1>2, <1>4, <2>3
  <2> QED
    BY <1>1, <1>2, <1>3, <1>4, <2>1, <2>2, <2>4, RequestStep
<1>7. CASE reply'.status # "valid"
  <2>1. req' = [req EXCEPT ![r] = Idle]
    BY <1>7 DEF Lookup
  <2> QED
    BY <1>1, <1>3, <1>4, <1>5, <2>1, RequestStep
<1> QED
  BY <1>6, <1>7

\* The end of an accepted request.
LEMMA ReturnInv ==
    ASSUME IInv, NEW r \in Req, Return(r)
    PROVE  IInv'
<1>1. UNCHANGED <<now, revoked, expiry, loggedOut>> /\ req' = [req EXCEPT ![r] = Idle]
  BY DEF Return, storeVars
<1>2. revoked' \in [Jti -> Nat] /\ loggedOut' \subseteq Jti
  BY <1>1 DEF IInv, TypeOK
<1>3. \A k \in loggedOut' : /\ expiry[k] > 0
                            /\ now < expiry[k] => revoked'[k] >= expiry[k]
  BY <1>1 DEF IInv, IssuedOK, LoggedOutIsStored
<1>4. Idle \in Local /\ Idle.pc = "idle"
  BY DEF Local, Idle
<1> QED
  BY <1>1, <1>2, <1>3, <1>4, RequestStep

\* The clock: an entry is forgotten only when the token it is for has expired.
LEMMA TickInv ==
    ASSUME IInv, Tick, UNCHANGED <<expiry, loggedOut, req>>
    PROVE  IInv'
<1>1. /\ now \in Nat /\ now' = now + 1 /\ revoked \in [Jti -> Nat]
      /\ expiry \in [Jti -> Nat] /\ loggedOut \subseteq Jti
      /\ revoked' = [j \in Jti |-> IF revoked[j] > now' THEN revoked[j] ELSE 0]
  BY DEF IInv, TypeOK, Tick
<1>2. TypeOK'
  BY <1>1 DEF IInv, TypeOK
<1>3. TimeLeftOK'
  <2>1. ASSUME NEW r \in Req, req[r].pc = "store"
        PROVE  now' + req[r].ttl >= expiry[req[r].jti]
    <3>1. req[r].ttl \in Nat /\ expiry[req[r].jti] \in Nat
      BY <1>1, <2>1, IdleLocal DEF IInv, TypeOK, Idle
    <3> QED
      BY <1>1, <2>1, <3>1 DEF IInv, TimeLeftOK
  <2> QED
    BY <2>1 DEF TimeLeftOK
<1>4. LoggedOutIsStored'
  <2>1. ASSUME NEW j \in loggedOut, now' < expiry[j]
        PROVE  revoked'[j] >= expiry[j]
    <3>1. j \in Jti /\ revoked[j] \in Nat /\ expiry[j] \in Nat
      BY <1>1
    <3>2. revoked[j] >= expiry[j]
      BY <1>1, <2>1, <3>1 DEF IInv, LoggedOutIsStored
    <3> QED
      BY <1>1, <2>1, <3>1, <3>2
  <2> QED
    BY <2>1 DEF LoggedOutIsStored
<1> QED
  BY <1>2, <1>3, <1>4 DEF IInv, IssuedOK, LateOK, RevokedUntilExpiry

\* Every step preserves the invariant.
LEMMA Inductive == IInv /\ [Next]_vars => IInv'
<1> SUFFICES ASSUME IInv, [Next]_vars PROVE IInv'
  OBVIOUS
<1>1. CASE UNCHANGED vars
  BY <1>1 DEF vars, IInv, TypeOK, IssuedOK, TimeLeftOK, LateOK, LoggedOutIsStored,
              RevokedUntilExpiry
<1>2. ASSUME NEW j \in Jti, Issue(j) PROVE IInv'
  BY <1>2, IssueInv
<1>3. ASSUME NEW r \in Req, NEW j \in Jti, LogoutBegin(r, j) \/ Parse(r, j)
      PROVE  IInv'
  BY <1>3, BeginInv
<1>4. ASSUME NEW r \in Req,
             TimeLeft(r) \/ StoreRevocation(r) \/ Lookup(r) \/ Return(r)
      PROVE  IInv'
  BY <1>4, TimeLeftInv, StoreRevocationInv, LookupInv, ReturnInv
<1>5. CASE Tick /\ UNCHANGED <<expiry, loggedOut, req>>
  BY <1>5, TickInv
<1> QED
  BY <1>1, <1>2, <1>3, <1>4, <1>5 DEF Next

\* A reported logout is in the store for the rest of the token's life, whatever
\* the clock does between computing the time left and storing it, and in whatever
\* order logouts of the same token reach the store.
THEOREM StoredCorrect == Spec => []LoggedOutIsStored
<1>1. IInv => LoggedOutIsStored
  BY DEF IInv
<1> QED
  BY InitInv, Inductive, <1>1, PTL DEF Spec

\* A request that arrives after the logout of its token was reported is accepted
\* only once the token has expired: within the leeway of parseToken, never before.
THEOREM RevokedCorrect == Spec => []RevokedUntilExpiry
<1>1. IInv => RevokedUntilExpiry
  BY DEF IInv
<1> QED
  BY InitInv, Inductive, <1>1, PTL DEF Spec

=============================================================================
