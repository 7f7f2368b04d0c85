-------------------------- MODULE AccessRevocation --------------------------
(***************************************************************************)
(* The life of an access token against the clock: it expires by itself,    *)
(* logout enters it in the state store for the rest of its life, and the   *)
(* middleware accepts it if it parses and is not in the store.  Parsing    *)
(* and the store are consulted at different moments, and parsing allows a  *)
(* leeway after the expiry that the entry in the store does not.           *)
(***************************************************************************)
EXTENDS AuthState

CONSTANTS
    Req,        \* concurrent requests
    AccessTTL,  \* lifetime of an access token
    Leeway      \* clock skew granted by parseToken

ASSUME LifetimeAssumption == AccessTTL \in Nat \ {0} /\ Leeway \in Nat

VARIABLES
    expiry,     \* exp claim of each access token; 0 before it is issued
    loggedOut,  \* tokens whose revocation has been reported as done
    req         \* the requests

vars == <<now, revoked, failures, reply, expiry, loggedOut, req>>

Idle == [pc |-> "idle"]

\* jwt.WithLeeway: valid strictly before exp + leeway.
Parses(j) == expiry[j] > 0 /\ now < expiry[j] + Leeway

\* generateToken
Issue(j) ==
    /\ expiry[j] = 0
    /\ expiry' = [expiry EXCEPT ![j] = now + AccessTTL]
    /\ UNCHANGED <<storeVars, loggedOut, req>>

-----------------------------------------------------------------------------
(* Logout of an access token: LogoutHandler, AuthService.RevokeAccessToken. *)

\* optionalAccessToken: a token that does not parse is ignored.
LogoutBegin(r, j) ==
    /\ req[r].pc = "idle"
    /\ req' = [req EXCEPT ![r] = IF Parses(j) THEN [pc |-> "revoke", jti |-> j]
                                 ELSE Idle]
    /\ UNCHANGED <<storeVars, expiry, loggedOut>>

TimeLeftTruncated(r) ==
    LET j == req[r].jti IN
    /\ req[r].pc = "revoke"
    /\ IF expiry[j] - 1 <= now
       THEN /\ req' = [req EXCEPT ![r] = Idle]
            /\ loggedOut' = loggedOut \cup {j}
       ELSE /\ req' = [req EXCEPT ![r] = [pc |-> "store", jti |-> j,
                                          ttl |-> expiry[j] - 1 - now]]
            /\ UNCHANGED loggedOut
    /\ UNCHANGED <<storeVars, expiry>>

\* The remaining lifetime is computed; a token past its expiry needs no entry.
TimeLeft(r) ==
    LET j == req[r].jti IN
    /\ req[r].pc = "revoke"
    /\ IF expiry[j] <= now
       THEN /\ req' = [req EXCEPT ![r] = Idle]
            /\ loggedOut' = loggedOut \cup {j}
       ELSE /\ req' = [req EXCEPT ![r] = [pc |-> "store", jti |-> j,
                                          ttl |-> expiry[j] - now]]
            /\ UNCHANGED loggedOut
    /\ UNCHANGED <<storeVars, expiry>>

StoreRevocationUnchecked(r) ==
    LET j == req[r].jti IN
    /\ req[r].pc = "store"
    /\ RevokeAccessToken(j, req[r].ttl)
    /\ loggedOut' = loggedOut \cup {j}
    /\ req' = [req EXCEPT ![r] = Idle]
    /\ UNCHANGED expiry

\* The store is asked, perhaps later, to keep the entry that long.
StoreRevocation(r) ==
    LET j == req[r].jti IN
    /\ req[r].pc = "store"
    /\ RevokeAccessToken(j, req[r].ttl)
    /\ loggedOut' = IF reply' = Ok THEN loggedOut \cup {j} ELSE loggedOut
    /\ req' = [req EXCEPT ![r] = Idle]
    /\ UNCHANGED expiry

-----------------------------------------------------------------------------
(* AuthMiddleware: parse, then ValidateAccessToken. *)

\* late records whether the token's logout had been reported before.
Parse(r, j) ==
    /\ req[r].pc = "idle"
    /\ req' = [req EXCEPT ![r] =
                 IF Parses(j) THEN [pc |-> "lookup", jti |-> j,
                                    late |-> j \in loggedOut]
                 ELSE Idle]
    /\ UNCHANGED <<storeVars, expiry, loggedOut>>

\* The lookup; a store that does not answer refuses the request.
Lookup(r) ==
    LET j == req[r].jti IN
    /\ req[r].pc = "lookup"
    /\ IsAccessTokenRevoked(j)
    /\ req' = [req EXCEPT ![r] =
                 IF reply'.status = "valid"
                 THEN [pc |-> "accepted", jti |-> j, late |-> req[r].late, at |-> now]
                 ELSE Idle]
    /\ UNCHANGED <<expiry, loggedOut>>

Return(r) ==
    /\ req[r].pc = "accepted"
    /\ req' = [req EXCEPT ![r] = Idle]
    /\ UNCHANGED <<storeVars, expiry, loggedOut>>

-----------------------------------------------------------------------------

Init ==
    /\ StoreInit
    /\ expiry = [j \in Jti |-> 0]
    /\ loggedOut = {}
    /\ req = [r \in Req |-> Idle]

Next ==
    \/ \E j \in Jti : Issue(j)
    \/ \E r \in Req :
          \/ \E j \in Jti : LogoutBegin(r, j) \/ Parse(r, j)
          \/ TimeLeft(r) \/ StoreRevocation(r) \/ Lookup(r) \/ Return(r)
    \/ Tick /\ UNCHANGED <<expiry, loggedOut, req>>

Spec == Init /\ [][Next]_vars

-----------------------------------------------------------------------------

\* A token that was logged out before the request arrived is not accepted while
\* it has not expired, however long the logout took between computing the time
\* left and storing the entry (RevokeAccessToken, ValidateAccessToken).
RevokedUntilExpiry ==
    \A r \in Req : req[r].pc = "accepted" /\ req[r].late =>
        req[r].at >= expiry[req[r].jti]

\* A logout is reported as done only when the store holds an entry for the rest of
\* the token's life; a second logout, or one overtaken by another, never shortens
\* that entry (RevokeAccessToken computes the time left before it calls the store).
LoggedOutIsStored ==
    \A j \in loggedOut : now < expiry[j] => revoked[j] >= expiry[j]

\* After a logout has been reported, the token is refused by AuthMiddleware.
LogoutRejectsAccess ==
    \A r \in Req : req[r].pc = "accepted" => ~req[r].late

=============================================================================
