---------------------------- MODULE AuthSessions ----------------------------
(***************************************************************************)
(* Login sessions of the go-user-system backend: the users and             *)
(* refresh_tokens tables in MySQL, the access-token revocations in the     *)
(* authentication state store, and the HTTP requests that read and write   *)
(* them concurrently (login, refresh, logout, authenticated call and       *)
(* password change).                                                       *)
(*                                                                         *)
(* A request advances one database statement at a time where another       *)
(* request can observe the difference.  The writes of a transaction become *)
(* visible in its commit step, and the row locks of SELECT ... FOR UPDATE  *)
(* and UPDATE are explicit.  Every read inside the transactions modelled   *)
(* here is a locking read, so it sees the latest committed rows.           *)
(*                                                                         *)
(* An access token and the refresh token sent in the same response carry   *)
(* the same user and auth_version claims; one identifier (a jti) stands    *)
(* for the pair.  A token is in a client's hands only if its row was       *)
(* committed, and the client may present it any number of times.           *)
(***************************************************************************)
EXTENDS Naturals, FiniteSets

CONSTANTS
    User,        \* user ids
    Password,    \* acceptable passwords (bcrypt hashes are not distinguished)
    Jti,         \* token identifiers, each generated at most once
    Req,         \* concurrent HTTP requests, over every replica
    None,        \* SQL NULL, a free lock, an absent field
    MaxVersion   \* bound on users.auth_version

ASSUME ConstantsAssumption ==
    /\ None \notin User \cup Password \cup Jti \cup Req
    /\ MaxVersion \in Nat \ {0}

VARIABLES
    users,      \* users table: status, auth_version, password_hash
    rows,       \* refresh_tokens table, indexed by jti
    claims,     \* signed JWT claims of the token pair, indexed by jti
    revoked,    \* access jtis in the authentication state store
    userLock,   \* InnoDB row locks of users: the request holding it
    tokenLock,  \* InnoDB row locks of refresh_tokens
    req         \* the requests: program counter and local variables

db   == <<users, rows, claims, revoked>>
vars == <<users, rows, claims, revoked, userLock, tokenLock, req>>

-----------------------------------------------------------------------------
(* Records. *)

\* model.RefreshTokenRevokedReason*
RevokedReason == {"rotated", "logout", "password_change", "replay_detected"}

\* revoked_at, revoked_reason and expires_at in one field: revoked_at IS NULL is
\* "live", or "lapsed" once expires_at has passed.  Whether a revoked token has
\* expired makes no difference to the code, which tests revoked_at first.
Unrevoked == {"live", "lapsed"}

Row == [user : User \cup {None}, family : Jti \cup {None},
        reason : {"absent"} \cup Unrevoked \cup RevokedReason,
        replaced_by : Jti \cup {None}]

NoRow == [user |-> None, family |-> None, reason |-> "absent",
          replaced_by |-> None]

\* The answers a property speaks of; a request that ends in another way leaves
\* nothing behind and is idle again.
Answered == {"logged_out", "replayed"}

InFlight == {"login_touch", "login_store",
             "validate_user", "validate_store", "accepted", "pw_commit",
             "refresh_user", "refresh_token", "refresh_rotate",
             "refresh_replay",
             "logout_access", "logout_token", "logout_commit"}

\* A request's locals: the user and token of the claims it presented (tok the
\* refresh token, acc the access token), the pair it generated (next), the
\* auth_version a login or a change of password read, the new password.  valid is a
\* history variable: whether the presented token was valid when the request arrived.
Request == [pc : {"idle"} \cup InFlight \cup Answered,
            user : User \cup {None}, tok : Jti \cup {None},
            acc : Jti \cup {None}, next : Jti \cup {None}, ver : Nat,
            new : Password \cup {None}, valid : BOOLEAN]

Idle == [pc |-> "idle", user |-> None, tok |-> None, acc |-> None,
         next |-> None, ver |-> 0, new |-> None, valid |-> FALSE]

\* Type correctness; in particular a user always has a password, whatever changes
\* of it overlap.
TypeOK ==
    /\ users \in [User -> [status : {"active", "disabled"},
                           auth_version : 1..MaxVersion, password : Password]]
    /\ rows \in [Jti -> Row]
    /\ claims \in [Jti -> [user : User \cup {None}, auth_version : Nat]]
    /\ revoked \in SUBSET Jti
    /\ userLock \in [User -> Req \cup {None}]
    /\ tokenLock \in [Jti -> Req \cup {None}]
    /\ req \in [Req -> Request]

-----------------------------------------------------------------------------
(* Queries and helpers. *)

Present(j) == rows[j].reason # "absent"
Live(j)    == rows[j].reason \in Unrevoked

\* generateToken draws a new random jti for each token pair.
Fresh(n) == ~Present(n) /\ \A q \in Req : req[q].next # n

\* The check of ValidateAccessToken and RotateRefreshToken on the users row.
Current(u, version) ==
    users[u].status = "active" /\ users[u].auth_version = version

\* RefreshTokenRepository.Create
CreateRow(n, u, f) ==
    [rows EXCEPT ![n] = [user |-> u, family |-> f, reason |-> "live",
                         replaced_by |-> None]]

\* RefreshTokenRepository.RevokeByJTI: UPDATE ... WHERE jti AND revoked_at IS NULL
RevokeByJTI(table, j, why, by) ==
    [table EXCEPT ![j] = IF @.reason \in Unrevoked
                         THEN [@ EXCEPT !.reason = why, !.replaced_by = by]
                         ELSE @]

\* RefreshTokenRepository.RevokeFamily
RevokeFamily(u, f) ==
    [j \in Jti |-> IF rows[j].user = u /\ rows[j].family = f /\ Live(j)
                   THEN [rows[j] EXCEPT !.reason = "replay_detected"]
                   ELSE rows[j]]

RevokeAllOverwriting(u) ==
    [j \in Jti |-> IF rows[j].user = u /\ Present(j)
                   THEN [rows[j] EXCEPT !.reason = "password_change"]
                   ELSE rows[j]]

\* RefreshTokenRepository.RevokeAllByUserID
RevokeAllByUserID(u) ==
    [j \in Jti |-> IF rows[j].user = u /\ Live(j)
                   THEN [rows[j] EXCEPT !.reason = "password_change"]
                   ELSE rows[j]]

\* COMMIT or ROLLBACK releases every row lock of the transaction.
ReleaseLocks(r) ==
    /\ userLock'  = [u \in User |-> IF userLock[u] = r THEN None ELSE userLock[u]]
    /\ tokenLock' = [j \in Jti |-> IF tokenLock[j] = r THEN None ELSE tokenLock[j]]

Goto(r, label) == req' = [req EXCEPT ![r].pc = label]

\* The request is over: answered, refused or failed.
End(r) == req' = [req EXCEPT ![r] = Idle]

\* The request answers, with the token it was about.
Answer(r, label) ==
    req' = [req EXCEPT ![r] = [Idle EXCEPT !.pc = label, !.tok = req[r].tok,
                                           !.valid = req[r].valid]]

-----------------------------------------------------------------------------
(* Login: UserHandler.LoginHandler, UserService.Login, StoreRefreshToken.  *)
(* Nothing is locked between the read of the user and the insert.          *)

\* Read the user row, compare the password, require an active account; on
\* success the new pair carries the auth_version just read.
Login(r, u, p, n) ==
    /\ req[r].pc = "idle"
    /\ Fresh(n)
    /\ req' = [req EXCEPT ![r] =
                 IF p = users[u].password /\ users[u].status = "active"
                 THEN [Idle EXCEPT !.pc = "login_touch",
                                   !.user = u, !.next = n,
                                   !.ver = users[u].auth_version]
                 ELSE Idle]
    /\ UNCHANGED <<db, userLock, tokenLock>>

\* UPDATE users SET last_login_at: waits for the row lock, which it drops at once.
LoginTouch(r) ==
    /\ req[r].pc = "login_touch"
    /\ userLock[req[r].user] = None
    /\ Goto(r, "login_store")
    /\ UNCHANGED <<db, userLock, tokenLock>>

\* Insert the first token of a new family; refreshTokenModel sets family to jti.
LoginStore(r) ==
    LET n == req[r].next IN
    /\ req[r].pc = "login_store"
    /\ rows' = CreateRow(n, req[r].user, n)
    /\ claims' = [claims EXCEPT ![n] = [user |-> req[r].user,
                                        auth_version |-> req[r].ver]]
    /\ End(r)
    /\ ReleaseLocks(r)
    /\ UNCHANGED <<users, revoked>>

-----------------------------------------------------------------------------
(* Authenticated calls: AuthMiddleware and ValidateAccessToken, then for   *)
(* PUT /users/me/password UserService.UpdateUserPassword.                  *)

AccessValid(a) ==
    Current(claims[a].user, claims[a].auth_version) /\ a \notin revoked

\* A request with access token a arrives.
AccessBegin(r, a) ==
    /\ req[r].pc = "idle"
    /\ Present(a)
    /\ req' = [req EXCEPT ![r] =
                 [Idle EXCEPT !.pc = "validate_user",
                              !.user = claims[a].user, !.acc = a,
                              !.valid = AccessValid(a)]]
    /\ UNCHANGED <<db, userLock, tokenLock>>

ValidateUserStatusOnly(r) ==
    /\ req[r].pc = "validate_user"
    /\ IF users[req[r].user].status = "active"
       THEN Goto(r, "validate_store") ELSE End(r)
    /\ UNCHANGED <<db, userLock, tokenLock>>

\* First half of ValidateAccessToken: a plain read of the user row.
ValidateUser(r) ==
    /\ req[r].pc = "validate_user"
    /\ IF Current(req[r].user, claims[req[r].acc].auth_version)
       THEN Goto(r, "validate_store") ELSE End(r)
    /\ UNCHANGED <<db, userLock, tokenLock>>

\* Second half: the revocation lookup.
ValidateStore(r) ==
    /\ req[r].pc = "validate_store"
    /\ IF req[r].acc \in revoked THEN End(r) ELSE Goto(r, "accepted")
    /\ UNCHANGED <<db, userLock, tokenLock>>

PasswordLockShadowed(r, old, new) ==
    LET u == req[r].user IN
    /\ req[r].pc = "accepted"
    /\ userLock[u] = None
    /\ IF old # new /\ users[u].password = old /\ users[u].auth_version < MaxVersion
       THEN /\ userLock' = [userLock EXCEPT ![u] = r]
            /\ req' = [req EXCEPT ![r].pc = "pw_commit",
                                  ![r].ver = users[u].auth_version]
       ELSE End(r) /\ UNCHANGED userLock
    /\ UNCHANGED <<db, tokenLock>>

\* UpdateUserPassword: the request body's old and new passwords differ, the
\* user row is locked and the old password compared.  MaxVersion bounds the
\* number of changes: past it every change is refused.
PasswordLock(r, old, new) ==
    LET u == req[r].user IN
    /\ req[r].pc = "accepted"
    /\ userLock[u] = None
    /\ IF /\ old # new
          /\ users[u].password = old
          /\ users[u].auth_version < MaxVersion
       THEN /\ userLock' = [userLock EXCEPT ![u] = r]
            /\ req' = [req EXCEPT ![r].pc = "pw_commit", ![r].new = new,
                                  ![r].ver = users[u].auth_version]
       ELSE End(r) /\ UNCHANGED userLock
    /\ UNCHANGED <<db, tokenLock>>

\* UPDATE ... WHERE password_hash = the one that was read: every change draws a new
\* salt, so the hash is the same as long as auth_version is.  If no row is affected
\* the transaction fails.
UpdateUserPasswordByUserID(r) ==
    LET u == req[r].user IN
    /\ users[u].auth_version = req[r].ver
    /\ users' = [users EXCEPT ![u].password = req[r].new,
                              ![u].auth_version = @ + 1]

\* Store the new hash, revoke the user's live refresh tokens (waiting for the row
\* locks of others on them) and commit.
PasswordCommit(r) ==
    LET u == req[r].user IN
    /\ req[r].pc = "pw_commit"
    /\ \A j \in Jti : rows[j].user = u => tokenLock[j] = None
    /\ UpdateUserPasswordByUserID(r)
    /\ rows' = RevokeAllByUserID(u)
    /\ End(r)
    /\ ReleaseLocks(r)
    /\ UNCHANGED <<claims, revoked>>

-----------------------------------------------------------------------------
(* Refresh: RefreshTokenHandler and RotateRefreshToken.                    *)

\* Parse the presented refresh token and generate the next pair.
RefreshBegin(r, t, n) ==
    /\ req[r].pc = "idle"
    /\ Present(t)
    /\ Fresh(n)
    /\ req' = [req EXCEPT ![r] =
                 [Idle EXCEPT !.pc = "refresh_user",
                              !.user = claims[t].user, !.tok = t, !.next = n]]
    /\ UNCHANGED <<db, userLock, tokenLock>>

RefreshReadUser(r) ==
    LET u == req[r].user IN
    /\ req[r].pc = "refresh_user"
    /\ userLock[u] = None
    /\ IF Current(u, claims[req[r].tok].auth_version)
       THEN Goto(r, "refresh_token") ELSE End(r)
    /\ UNCHANGED <<db, userLock, tokenLock>>

RefreshLockUserLeaking(r) ==
    LET u == req[r].user IN
    /\ req[r].pc = "refresh_user"
    /\ userLock[u] = None
    /\ userLock' = [userLock EXCEPT ![u] = r]
    /\ IF Current(u, claims[req[r].tok].auth_version)
       THEN Goto(r, "refresh_token") ELSE End(r)
    /\ UNCHANGED <<db, tokenLock>>

\* GetUserByIDForUpdate; a disabled user or an older auth_version rolls back.
RefreshLockUser(r) ==
    LET u == req[r].user IN
    /\ req[r].pc = "refresh_user"
    /\ userLock[u] = None
    /\ IF Current(u, claims[req[r].tok].auth_version)
       THEN /\ userLock' = [userLock EXCEPT ![u] = r]
            /\ Goto(r, "refresh_token")
       ELSE End(r) /\ UNCHANGED userLock
    /\ UNCHANGED <<db, tokenLock>>

\* What RotateRefreshToken decides from the refresh_tokens row.
RotationDecision(u, t) ==
    IF rows[t].user # u THEN "denied"
    ELSE IF rows[t].reason = "rotated" THEN "refresh_replay"
    ELSE IF rows[t].reason # "live" THEN "denied"
    ELSE "refresh_rotate"

RefreshReadToken(r) ==
    /\ req[r].pc = "refresh_token"
    /\ tokenLock[req[r].tok] = None
    /\ LET decision == RotationDecision(req[r].user, req[r].tok)
       IN  IF decision = "denied" THEN End(r) /\ ReleaseLocks(r)
           ELSE Goto(r, decision) /\ UNCHANGED <<userLock, tokenLock>>
    /\ UNCHANGED db

\* FindByJTIForUpdate; a refused token rolls back.
RefreshLockToken(r) ==
    LET t == req[r].tok
        decision == RotationDecision(req[r].user, t)
    IN
    /\ req[r].pc = "refresh_token"
    /\ tokenLock[t] = None
    /\ IF decision = "denied"
       THEN End(r) /\ ReleaseLocks(r)
       ELSE /\ tokenLock' = [tokenLock EXCEPT ![t] = r]
            /\ Goto(r, decision)
            /\ UNCHANGED userLock
    /\ UNCHANGED db

RefreshRotateKeepingOld(r) ==
    LET t == req[r].tok
        n == req[r].next
    IN
    /\ req[r].pc = "refresh_rotate"
    /\ rows' = CreateRow(n, req[r].user, rows[t].family)
    /\ claims' = [claims EXCEPT ![n] = claims[t]]
    /\ End(r)
    /\ ReleaseLocks(r)
    /\ UNCHANGED <<users, revoked>>

\* Insert the successor in the same family, revoke the old row, commit.
RefreshRotate(r) ==
    LET t == req[r].tok
        n == req[r].next
    IN
    /\ req[r].pc = "refresh_rotate"
    /\ rows' = RevokeByJTI(CreateRow(n, req[r].user, rows[t].family),
                           t, "rotated", n)
    /\ claims' = [claims EXCEPT ![n] = claims[t]]
    /\ End(r)
    /\ ReleaseLocks(r)
    /\ UNCHANGED <<users, revoked>>

RefreshReplayRolledBack(r) ==
    /\ req[r].pc = "refresh_replay"
    /\ Answer(r, "replayed")
    /\ ReleaseLocks(r)
    /\ UNCHANGED db

\* A rotated token came back: revoke its whole family (waiting for the row
\* locks of others on it), commit, and only then report the replay.
RefreshReplay(r) ==
    LET u == req[r].user
        f == rows[req[r].tok].family
    IN
    /\ req[r].pc = "refresh_replay"
    /\ \A j \in Jti : rows[j].family = f => tokenLock[j] \in {None, r}
    /\ rows' = RevokeFamily(u, f)
    /\ Answer(r, "replayed")
    /\ ReleaseLocks(r)
    /\ UNCHANGED <<users, claims, revoked>>

-----------------------------------------------------------------------------
(* Logout: LogoutHandler, RevokeAccessToken, RevokeRefreshToken.           *)

LogoutBegin(r, t) ==
    /\ req[r].pc = "idle"
    /\ Present(t)
    /\ req' = [req EXCEPT ![r] =
                 [Idle EXCEPT !.pc = "logout_access",
                              !.user = claims[t].user, !.tok = t,
                              !.valid = Live(t)]]
    /\ UNCHANGED <<db, userLock, tokenLock>>

\* If the client also sent an access token that parses, it is revoked first, in
\* the state store; one of another user is refused.
LogoutAccess(r, a) ==
    /\ req[r].pc = "logout_access"
    /\ a # None => Present(a)
    /\ IF a # None /\ claims[a].user # req[r].user
       THEN End(r) /\ UNCHANGED revoked
       ELSE /\ revoked' = revoked \cup ({a} \ {None})
            /\ Goto(r, "logout_token")
    /\ UNCHANGED <<users, rows, claims, userLock, tokenLock>>

\* Then the refresh row is locked; the user row is not.  A token that is not
\* live any more counts as logged out.
LogoutLockToken(r) ==
    LET t == req[r].tok IN
    /\ req[r].pc = "logout_token"
    /\ tokenLock[t] = None
    /\ IF Live(t) /\ rows[t].user = req[r].user
       THEN /\ tokenLock' = [tokenLock EXCEPT ![t] = r]
            /\ Goto(r, "logout_commit")
       ELSE /\ IF rows[t].user = req[r].user THEN Answer(r, "logged_out") ELSE End(r)
            /\ UNCHANGED tokenLock
    /\ UNCHANGED <<db, userLock>>

LogoutCommit(r) ==
    /\ req[r].pc = "logout_commit"
    /\ rows' = RevokeByJTI(rows, req[r].tok, "logout", None)
    /\ Answer(r, "logged_out")
    /\ ReleaseLocks(r)
    /\ UNCHANGED <<users, claims, revoked>>

-----------------------------------------------------------------------------
(* Failures and the environment. *)

\* A statement fails, the lock wait times out or the request's context is
\* cancelled: the transaction rolls back and the client sees an error.
Fail(r) ==
    /\ req[r].pc \in InFlight
    /\ End(r)
    /\ ReleaseLocks(r)
    /\ UNCHANGED db

\* The response is written: an answer above, or that of an authenticated
\* handler that leaves the sessions alone.
Return(r) ==
    /\ req[r].pc \in Answered \cup {"accepted"}
    /\ End(r)
    /\ UNCHANGED <<db, userLock, tokenLock>>

\* dao.UserDisabled: one UPDATE, so it waits for the row lock.
UserDisabled(u) ==
    /\ userLock[u] = None
    /\ users[u].status = "active"
    /\ users' = [users EXCEPT ![u].status = "disabled"]
    /\ UNCHANGED <<rows, claims, revoked, userLock, tokenLock, req>>

\* The clock passes expires_at of a refresh token.
Expire(j) ==
    /\ rows[j].reason = "live"
    /\ rows' = [rows EXCEPT ![j].reason = "lapsed"]
    /\ UNCHANGED <<users, claims, revoked, userLock, tokenLock, req>>

-----------------------------------------------------------------------------

Init ==
    /\ users \in [User -> [status : {"active"}, auth_version : {1},
                           password : Password]]
    /\ rows = [j \in Jti |-> NoRow]
    /\ claims = [j \in Jti |-> [user |-> None, auth_version |-> 0]]
    /\ revoked = {}
    /\ userLock = [u \in User |-> None]
    /\ tokenLock = [j \in Jti |-> None]
    /\ req = [r \in Req |-> Idle]

Begin(r) ==
    \/ \E u \in User, p \in Password, n \in Jti : Login(r, u, p, n)
    \/ \E a \in Jti : AccessBegin(r, a)
    \/ \E t, n \in Jti : RefreshBegin(r, t, n)
    \/ \E t \in Jti : LogoutBegin(r, t)

Step(r) ==
    \/ LoginTouch(r) \/ LoginStore(r)
    \/ ValidateUser(r) \/ ValidateStore(r)
    \/ \E old, new \in Password : PasswordLock(r, old, new)
    \/ PasswordCommit(r)
    \/ RefreshLockUser(r) \/ RefreshLockToken(r)
    \/ RefreshRotate(r) \/ RefreshReplay(r)
    \/ \E a \in Jti \cup {None} : LogoutAccess(r, a)
    \/ LogoutLockToken(r) \/ LogoutCommit(r)
    \/ Return(r)

Next ==
    \/ \E r \in Req : Begin(r) \/ Step(r) \/ Fail(r)
    \/ \E u \in User : UserDisabled(u)
    \/ \E j \in Jti : Expire(j)

Spec == Init /\ [][Next]_vars

\* InnoDB queues the waiters of a row lock, so a request that can take its lock
\* again and again finally does; everything else is the Go scheduler.
Fairness == \A r \in Req : SF_vars(Step(r))

FairSpec == Spec /\ Fairness

-----------------------------------------------------------------------------
(* Correctness. *)

SameFamily(j, k) ==
    /\ rows[j].family = rows[k].family
    /\ rows[j].user = rows[k].user
    /\ claims[j] = claims[k]

\* A refresh token is exchanged at most once (RotateRefreshToken): every token
\* that is not the first of its family is the successor of exactly one token,
\* whose row says so and is revoked as rotated; successor and predecessor agree
\* on family, user and claims.  A second exchange of the same token, or one
\* racing its logout, would leave a token with no predecessor.
SingleUse ==
    /\ \A j \in Jti : rows[j].replaced_by # None <=> rows[j].reason = "rotated"
    /\ \A j, k \in Jti :
          rows[j].replaced_by = k =>
              /\ Present(k) /\ rows[k].family # k /\ SameFamily(j, k)
              /\ \A i \in Jti : rows[i].replaced_by = k => i = j
    /\ \A k \in Jti :
          Present(k) /\ rows[k].family # k =>
              \E j \in Jti : rows[j].replaced_by = k

\* Two tokens of one family are never both usable, whatever requests raced.
OneLivePerFamily ==
    \A j, k \in Jti :
        Live(j) /\ Live(k) /\ rows[j].family = rows[k].family => j = k

FamilyOver(f) == \A j \in Jti : rows[j].family = f => ~Live(j)

\* When a client is told that its token was replayed, no token of the family
\* is live: the revocation was committed, not rolled back with the error.
ReplayEndsFamily ==
    \A r \in Req : req[r].pc = "replayed" => FamilyOver(rows[req[r].tok].family)

\* An access token is accepted only if it was valid when the request arrived:
\* issued under the user's auth_version of that moment, the user active, the
\* token not revoked (AuthMiddleware over ValidateAccessToken's two reads).
AcceptedWasValid ==
    \A r \in Req : req[r].pc \in {"accepted", "pw_commit"} => req[r].valid

\* A token is exchanged only in a state in which its user is active and still
\* has the auth_version the token was signed with: no password change or
\* disabling commits between the check in RotateRefreshToken and its commit.
RotationIsCurrent ==
    [][\A j \in Jti : Live(j) /\ rows'[j].reason = "rotated" =>
           Current(rows[j].user, claims[j].auth_version)]_vars

\* A revoked row keeps its reason and its successor for good (revoked_at IS
\* NULL in every UPDATE): the evidence replay detection needs is never lost.
RevocationIsFinal ==
    [][\A j \in Jti : rows[j].reason \in RevokedReason =>
           rows'[j] = rows[j]]_vars

\* The sessions the tables stand for: a family is a session, its live tokens
\* the usable ones.
Account == [u \in User |-> [active |-> users[u].status = "active",
                            version |-> users[u].auth_version]]
Issued == {j \in Jti : Present(j)}
LiveIn(f) == {j \in Jti : Live(j) /\ rows[j].family = f}
Session ==
    [f \in Jti |-> IF rows[f].family = f
                   THEN [user |-> rows[f].user,
                         version |-> claims[f].auth_version,
                         usable |-> LiveIn(f)]
                   ELSE [user |-> None, version |-> 0, usable |-> {}]]

S == INSTANCE Sessions WITH account <- Account, issued <- Issued,
                            session <- Session

\* The transactions, locks and conditional updates of AuthService and
\* UserService implement the session promises of module Sessions.
ImplementsSessions == S!Spec

\* Every request ends: the lock order user row, then token rows never makes
\* requests wait for each other in a cycle, and no lock is left behind.
EveryRequestEnds ==
    \A r \in Req : req[r].pc \in InFlight ~> req[r].pc \notin InFlight

\* Logging out ends the session: when a logout that presented the session's
\* usable refresh token has reported success, no token of the family is live.
LogoutEndsSession ==
    \A r \in Req : req[r].pc = "logged_out" /\ req[r].valid =>
        FamilyOver(rows[req[r].tok].family)

-----------------------------------------------------------------------------
(* The inductive invariant behind the safety properties. *)

\* The table: the first token of a row's family is in the table, opened the
\* family, and agrees with the row on user and claims.
TableOK ==
    \A j \in Jti :
        IF Present(j)
        THEN /\ rows[j].user \in User
             /\ rows[j].user = claims[j].user
             /\ rows[j].family \in Jti
             /\ Present(rows[j].family)
             /\ rows[rows[j].family].family = rows[j].family
             /\ SameFamily(j, rows[j].family)
        ELSE rows[j] = NoRow

LoginPc   == {"login_touch", "login_store"}
AccessPc  == {"validate_user", "validate_store", "accepted", "pw_commit"}
RefreshPc == {"refresh_user", "refresh_token", "refresh_rotate",
              "refresh_replay"}
LogoutPc  == {"logout_access", "logout_token", "logout_commit"}

\* The locals m of a request that it goes on to use are defined, and what its
\* transaction learned from a locked row is still true.
LocalOK(m) ==
    /\ m.pc \in LoginPc \cup AccessPc \cup RefreshPc \cup LogoutPc =>
          m.user \in User
    /\ m.pc \in LoginPc \cup RefreshPc => m.next \in Jti
    /\ m.pc \in AccessPc => m.acc \in Jti
    /\ m.pc \in RefreshPc \cup LogoutPc \cup Answered =>
          m.tok \in Jti /\ Present(m.tok)
    /\ m.pc \in RefreshPc => claims[m.tok].user = m.user
    /\ m.pc = "pw_commit" =>
          m.new \in Password /\ users[m.user].auth_version < MaxVersion
    /\ m.pc \in {"refresh_token", "refresh_rotate"} =>
          Current(m.user, claims[m.tok].auth_version)
    /\ m.pc = "refresh_rotate" => Live(m.tok)
    /\ m.pc = "refresh_replay" => rows[m.tok].reason = "rotated"

LocalsOK == \A r \in Req : LocalOK(req[r])

\* A generated identifier is not in the table and belongs to one request.
NextOK ==
    \A r \in Req : req[r].next # None =>
        /\ ~Present(req[r].next)
        /\ \A q \in Req : req[q].next = req[r].next => q = r

\* A transaction holds the locks it has taken until it ends.
UserLockPc  == {"pw_commit", "refresh_token", "refresh_rotate",
                "refresh_replay"}
TokenLockPc == {"refresh_rotate", "refresh_replay", "logout_commit"}

LocksOK ==
    \A r \in Req :
        /\ req[r].pc \in UserLockPc => userLock[req[r].user] = r
        /\ req[r].pc \in TokenLockPc => tokenLock[req[r].tok] = r

IInv ==
    /\ TypeOK
    /\ TableOK
    /\ LocalsOK
    /\ NextOK
    /\ LocksOK
    /\ SingleUse
    /\ OneLivePerFamily
    /\ ReplayEndsFamily

=============================================================================
