------------------------- MODULE AuthSessions_proofs ------------------------
(* Machine-checked proofs of the safety properties of AuthSessions, and that   *)
(* it implements Sessions.                                                     *)
EXTENDS AuthSessions, TLAPS

\* The initial tables are empty and no request is running.
LEMMA InitInv == Init => IInv
<1> SUFFICES ASSUME Init PROVE IInv
  OBVIOUS
<1> USE ConstantsAssumption DEF Init
<1>1. TypeOK
  BY DEF TypeOK, Row, NoRow, Request, Idle
<1>2. TableOK
  BY DEF TableOK, Present, NoRow
<1>3. LocalsOK
  BY DEF LocalsOK, LocalOK, Idle, LoginPc, AccessPc, RefreshPc, LogoutPc,
         Answered
<1>4. NextOK
  BY DEF NextOK, Idle
<1>5. LocksOK
  BY DEF LocksOK, UserLockPc, TokenLockPc, Idle
<1>6. SingleUse
  BY DEF SingleUse, Present, NoRow
<1>7. OneLivePerFamily
  BY DEF OneLivePerFamily, Live, Unrevoked, NoRow
<1>8. ReplayEndsFamily
  BY DEF ReplayEndsFamily, Idle
<1> QED
  BY <1>1, <1>2, <1>3, <1>4, <1>5, <1>6, <1>7, <1>8 DEF IInv

-----------------------------------------------------------------------------
(* Steps that change one request and its locks, but no row.                 *)

\* Such a step preserves the invariant if the request's new locals m satisfy
\* their part of it and the locks of the other requests stay.
LEMMA QuietStep ==
    ASSUME IInv, NEW r \in Req, NEW m \in Request,
           req' = [req EXCEPT ![r] = m],
           UNCHANGED <<users, rows, claims>>,
           revoked' \in SUBSET Jti,
           userLock' \in [User -> Req \cup {None}],
           tokenLock' \in [Jti -> Req \cup {None}],
           \A q \in Req \ {r}, u \in User : userLock[u] = q => userLock'[u] = q,
           \A q \in Req \ {r}, j \in Jti : tokenLock[j] = q => tokenLock'[j] = q,
           LocalOK(m),
           m.next = None \/ m.next = req[r].next \/ Fresh(m.next),
           m.pc \in UserLockPc => userLock'[m.user] = r,
           m.pc \in TokenLockPc => tokenLock'[m.tok] = r,
           m.pc = "replayed" => FamilyOver(rows[m.tok].family)
    PROVE  IInv'
<1> USE ConstantsAssumption DEF IInv
<1>0. req \in [Req -> Request]
  BY DEF TypeOK
<1>a. \A q \in Req : req'[q] = IF q = r THEN m ELSE req[q]
  BY <1>0
<1>1. TypeOK'
  BY DEF TypeOK
<1>2. TableOK'
  BY DEF TableOK, Present, SameFamily
<1>3. LocalsOK'
  <2>1. \A q \in Req : LocalOK(req'[q])
    BY <1>a DEF LocalsOK
  <2>2. \A q \in Req : LocalOK(req'[q]) => LocalOK(req[q])'
    BY DEF LocalOK, Present, Live, Current
  <2> QED
    BY <2>1, <2>2 DEF LocalsOK
<1>4. NextOK'
  BY <1>a DEF NextOK, Fresh, Present
<1>5. LocksOK'
  BY <1>0, <1>a DEF LocksOK, UserLockPc, TokenLockPc, LocalsOK, LocalOK,
         AccessPc, RefreshPc, LogoutPc
<1>6. SingleUse'
  BY DEF SingleUse, SameFamily, Present
<1>7. OneLivePerFamily'
  BY DEF OneLivePerFamily, Live
<1>8. ReplayEndsFamily'
  BY <1>a DEF ReplayEndsFamily, FamilyOver, Live
<1> QED
  BY <1>1, <1>2, <1>3, <1>4, <1>5, <1>6, <1>7, <1>8

\* The end of a request, with or without a rollback.
LEMMA EndStep ==
    ASSUME IInv, NEW r \in Req, End(r), UNCHANGED <<users, rows, claims>>,
           revoked' \in SUBSET Jti,
           ReleaseLocks(r) \/ UNCHANGED <<userLock, tokenLock>>
    PROVE  IInv'
<1> USE ConstantsAssumption
<1>1. Idle \in Request
  BY DEF Idle, Request
<1>2. /\ LocalOK(Idle)
      /\ Idle.next = None
      /\ Idle.pc \notin UserLockPc \cup TokenLockPc \cup {"replayed"}
  BY DEF Idle, LocalOK, LoginPc, AccessPc, RefreshPc, LogoutPc, Answered,
         UserLockPc, TokenLockPc
<1>3. /\ userLock' \in [User -> Req \cup {None}]
      /\ tokenLock' \in [Jti -> Req \cup {None}]
      /\ \A q \in Req \ {r}, u \in User : userLock[u] = q => userLock'[u] = q
      /\ \A q \in Req \ {r}, j \in Jti : tokenLock[j] = q => tokenLock'[j] = q
  BY DEF IInv, TypeOK, ReleaseLocks
<1> QED
  BY <1>1, <1>2, <1>3, QuietStep DEF End

\* A step that moves request r to its next label and leaves the locks alone.
LEMMA GotoStep ==
    ASSUME IInv, NEW r \in Req, NEW label \in InFlight \cup Answered,
           Goto(r, label), UNCHANGED <<users, rows, claims, userLock, tokenLock>>,
           revoked' \in SUBSET Jti,
           LocalOK([req[r] EXCEPT !.pc = label]),
           label \notin UserLockPc \cup TokenLockPc \cup {"replayed"}
    PROVE  IInv'
<1> DEFINE m == [req[r] EXCEPT !.pc = label]
<1>1. m \in Request /\ m.next = req[r].next /\ m.pc = label
  <2>1. req[r] \in Request
    BY DEF IInv, TypeOK
  <2> QED
    BY <2>1 DEF Request
<1>2. req' = [req EXCEPT ![r] = m]
  BY DEF Goto, IInv, TypeOK
<1>3. userLock' \in [User -> Req \cup {None}] /\ tokenLock' \in [Jti -> Req \cup {None}]
  BY DEF IInv, TypeOK
<1>4. LocalOK(m)
  OBVIOUS
<1> HIDE DEF m
<1> QED
  BY <1>1, <1>2, <1>3, <1>4, QuietStep

\* An answer about the presented token, with or without a commit.
LEMMA AnswerStep ==
    ASSUME IInv, NEW r \in Req, Answer(r, "logged_out"),
           UNCHANGED <<users, rows, claims, revoked, userLock, tokenLock>>,
           req[r].pc \in LogoutPc
    PROVE  IInv'
<1> DEFINE m == [Idle EXCEPT !.pc = "logged_out", !.tok = req[r].tok,
                             !.valid = req[r].valid]
<1>1. /\ m \in Request
      /\ m.next = None
      /\ m.pc \notin UserLockPc \cup TokenLockPc \cup {"replayed"}
  BY ConstantsAssumption
     DEF IInv, TypeOK, Request, Idle, Answered, UserLockPc, TokenLockPc
<1>2. LocalOK(m)
  BY DEF IInv, TypeOK, LocalsOK, LocalOK, Request, Idle, LoginPc, AccessPc, RefreshPc,
         LogoutPc, Answered
<1>3. req' = [req EXCEPT ![r] = m]
  BY DEF Answer
<1>4. /\ revoked' \in SUBSET Jti
      /\ userLock' \in [User -> Req \cup {None}]
      /\ tokenLock' \in [Jti -> Req \cup {None}]
  BY DEF IInv, TypeOK
<1> HIDE DEF m
<1> QED
  BY <1>1, <1>2, <1>3, <1>4, QuietStep

\* UserService.Login only reads: its request starts with a fresh token pair.
LEMMA LoginInv ==
    ASSUME IInv, NEW r \in Req, NEW u \in User, NEW p \in Password,
           NEW n \in Jti, Login(r, u, p, n)
    PROVE  IInv'
<1> USE ConstantsAssumption DEF Login, db
<1> DEFINE m == [Idle EXCEPT !.pc = "login_touch", !.user = u, !.next = n,
                             !.ver = users[u].auth_version]
<1>1. CASE req' = [req EXCEPT ![r] = m]
  <2>1. users[u].auth_version \in Nat
    BY DEF IInv, TypeOK
  <2>2. m \in Request /\ m.next = n /\ m.pc = "login_touch"
    BY <2>1 DEF Request, Idle, InFlight
  <2>3. LocalOK(m)
    BY DEF LocalOK, Idle, LoginPc, AccessPc, RefreshPc, LogoutPc, Answered
  <2>4. /\ revoked' \in SUBSET Jti
        /\ userLock' \in [User -> Req \cup {None}]
        /\ tokenLock' \in [Jti -> Req \cup {None}]
    BY DEF IInv, TypeOK
  <2>5. "login_touch" \notin UserLockPc \cup TokenLockPc \cup {"replayed"}
    BY DEF UserLockPc, TokenLockPc
  <2> HIDE DEF m
  <2> QED
    BY <1>1, <2>2, <2>3, <2>4, <2>5, QuietStep
<1>2. CASE End(r)
  <2>1. revoked' \in SUBSET Jti
    BY DEF IInv, TypeOK
  <2> QED
    BY <1>2, <2>1, EndStep
<1> QED
  BY <1>1, <1>2 DEF End

\* The UPDATE of last_login_at changes nothing the invariant speaks of.
LEMMA LoginTouchInv ==
    ASSUME IInv, NEW r \in Req, LoginTouch(r)
    PROVE  IInv'
<1>1. LocalOK([req[r] EXCEPT !.pc = "login_store"])
  BY DEF IInv, TypeOK, LocalsOK, LocalOK, LoginTouch, Request, LoginPc, AccessPc,
         RefreshPc, LogoutPc, Answered
<1>2. revoked' \in SUBSET Jti
  BY DEF IInv, TypeOK, LoginTouch, db
<1> QED
  BY <1>1, <1>2, GotoStep DEF LoginTouch, db, InFlight, UserLockPc, TokenLockPc

\* AuthMiddleware takes the user of the access token's claims.
LEMMA AccessBeginInv ==
    ASSUME IInv, NEW r \in Req, NEW a \in Jti, AccessBegin(r, a)
    PROVE  IInv'
<1> DEFINE m == [Idle EXCEPT !.pc = "validate_user", !.user = claims[a].user,
                             !.acc = a, !.valid = AccessValid(a)]
<1>1. claims[a].user \in User
  BY DEF IInv, TableOK, AccessBegin
<1>2. m \in Request /\ m.next = None /\ m.pc = "validate_user"
  BY <1>1, ConstantsAssumption DEF Request, Idle, InFlight, AccessValid, Current
<1>3. LocalOK(m)
  BY <1>1 DEF LocalOK, Idle, LoginPc, AccessPc, RefreshPc, LogoutPc, Answered
<1>4. /\ revoked' \in SUBSET Jti
      /\ userLock' \in [User -> Req \cup {None}]
      /\ tokenLock' \in [Jti -> Req \cup {None}]
      /\ UNCHANGED <<users, rows, claims, userLock, tokenLock>>
  BY DEF IInv, TypeOK, AccessBegin, db
<1>5. req' = [req EXCEPT ![r] = m]
  BY DEF AccessBegin
<1>6. "validate_user" \notin UserLockPc \cup TokenLockPc \cup {"replayed"}
  BY DEF UserLockPc, TokenLockPc
<1> HIDE DEF m
<1> QED
  BY <1>2, <1>3, <1>4, <1>5, <1>6, QuietStep

\* The two reads of ValidateAccessToken.
LEMMA ValidateInv ==
    ASSUME IInv, NEW r \in Req, ValidateUser(r) \/ ValidateStore(r)
    PROVE  IInv'
<1>1. \A label \in {"validate_store", "accepted"} :
         LocalOK([req[r] EXCEPT !.pc = label])
  BY DEF IInv, TypeOK, LocalsOK, LocalOK, ValidateUser, ValidateStore, Request,
         LoginPc, AccessPc, RefreshPc, LogoutPc, Answered
<1>2. /\ revoked' \in SUBSET Jti
      /\ UNCHANGED <<users, rows, claims, userLock, tokenLock>>
  BY DEF IInv, TypeOK, ValidateUser, ValidateStore, db
<1>3. \/ End(r)
      \/ \E label \in {"validate_store", "accepted"} : Goto(r, label)
  BY DEF ValidateUser, ValidateStore
<1>4. \A label \in {"validate_store", "accepted"} :
         label \in InFlight /\ label \notin UserLockPc \cup TokenLockPc \cup {"replayed"}
  BY DEF InFlight, UserLockPc, TokenLockPc
<1> QED
  BY <1>1, <1>2, <1>3, <1>4, GotoStep, EndStep

\* UpdateUserPassword takes the lock on its user's row.
LEMMA PasswordLockInv ==
    ASSUME IInv, NEW r \in Req, NEW old \in Password, NEW new \in Password,
           PasswordLock(r, old, new)
    PROVE  IInv'
<1> DEFINE u == req[r].user
           m == [req[r] EXCEPT !.pc = "pw_commit", !.new = new,
                               !.ver = users[u].auth_version]
<1>1. u \in User /\ req[r] \in Request /\ users[u].auth_version \in Nat
  BY DEF IInv, TypeOK, LocalsOK, LocalOK, PasswordLock, AccessPc
<1>2. revoked' \in SUBSET Jti /\ UNCHANGED <<users, rows, claims, tokenLock>>
  BY DEF IInv, TypeOK, PasswordLock, db
<1>3. CASE End(r) /\ UNCHANGED userLock
  BY <1>2, <1>3, EndStep
<1>4. CASE /\ users[u].auth_version < MaxVersion
           /\ userLock' = [userLock EXCEPT ![u] = r]
           /\ req' = [req EXCEPT ![r].pc = "pw_commit", ![r].new = new,
                                 ![r].ver = users[u].auth_version]
  <2>1. m \in Request /\ m.next = req[r].next /\ m.pc = "pw_commit" /\ m.user = u
    BY <1>1 DEF Request, InFlight
  <2>2. LocalOK(m)
    BY <1>1, <1>4 DEF IInv, LocalsOK, LocalOK, PasswordLock, Request, LoginPc, AccessPc,
           RefreshPc, LogoutPc, Answered
  <2>3. req' = [req EXCEPT ![r] = m]
    BY <1>4 DEF IInv, TypeOK
  <2>4. /\ userLock' \in [User -> Req \cup {None}]
        /\ tokenLock' \in [Jti -> Req \cup {None}]
        /\ \A q \in Req \ {r}, v \in User : userLock[v] = q => userLock'[v] = q
        /\ userLock'[u] = r
    BY <1>1, <1>2, <1>4, ConstantsAssumption DEF IInv, TypeOK, PasswordLock
  <2>5. "pw_commit" \notin TokenLockPc
    BY DEF TokenLockPc
  <2> HIDE DEF m
  <2> QED
    BY <1>2, <2>1, <2>2, <2>3, <2>4, <2>5, QuietStep
<1> QED
  BY <1>3, <1>4 DEF PasswordLock

\* RefreshTokenHandler parses the token and generates the next pair.
LEMMA RefreshBeginInv ==
    ASSUME IInv, NEW r \in Req, NEW t \in Jti, NEW n \in Jti, RefreshBegin(r, t, n)
    PROVE  IInv'
<1> DEFINE m == [Idle EXCEPT !.pc = "refresh_user", !.user = claims[t].user,
                             !.tok = t, !.next = n]
<1>1. claims[t].user \in User /\ Present(t)
  BY DEF IInv, TableOK, RefreshBegin
<1>2. m \in Request /\ m.next = n /\ m.pc = "refresh_user"
  BY <1>1, ConstantsAssumption DEF Request, Idle, InFlight
<1>3. LocalOK(m)
  BY <1>1 DEF LocalOK, Idle, LoginPc, AccessPc, RefreshPc, LogoutPc, Answered
<1>4. /\ revoked' \in SUBSET Jti
      /\ userLock' \in [User -> Req \cup {None}]
      /\ tokenLock' \in [Jti -> Req \cup {None}]
      /\ UNCHANGED <<users, rows, claims, userLock, tokenLock>>
  BY DEF IInv, TypeOK, RefreshBegin, db
<1>5. req' = [req EXCEPT ![r] = m] /\ Fresh(n)
  BY DEF RefreshBegin
<1>6. "refresh_user" \notin UserLockPc \cup TokenLockPc \cup {"replayed"}
  BY DEF UserLockPc, TokenLockPc
<1> HIDE DEF m
<1> QED
  BY <1>2, <1>3, <1>4, <1>5, <1>6, QuietStep

\* GetUserByIDForUpdate: from here on the user row stays as it was read.
LEMMA RefreshLockUserInv ==
    ASSUME IInv, NEW r \in Req, RefreshLockUser(r)
    PROVE  IInv'
<1> DEFINE u == req[r].user
           m == [req[r] EXCEPT !.pc = "refresh_token"]
<1>1. u \in User /\ req[r] \in Request
  BY DEF IInv, TypeOK, LocalsOK, LocalOK, RefreshLockUser, RefreshPc
<1>2. revoked' \in SUBSET Jti /\ UNCHANGED <<users, rows, claims, tokenLock>>
  BY DEF IInv, TypeOK, RefreshLockUser, db
<1>3. CASE End(r) /\ UNCHANGED userLock
  BY <1>2, <1>3, EndStep
<1>4. CASE /\ Current(u, claims[req[r].tok].auth_version)
           /\ userLock' = [userLock EXCEPT ![u] = r]
           /\ Goto(r, "refresh_token")
  <2>1. /\ m \in Request
        /\ m.next = req[r].next
        /\ m.pc = "refresh_token"
        /\ m.user = u
    BY <1>1 DEF Request, InFlight
  <2>2. LocalOK(m)
    BY <1>1, <1>4 DEF IInv, LocalsOK, LocalOK, RefreshLockUser, Request, LoginPc,
           AccessPc, RefreshPc, LogoutPc, Answered
  <2>3. req' = [req EXCEPT ![r] = m]
    BY <1>4 DEF IInv, TypeOK, Goto
  <2>4. /\ userLock' \in [User -> Req \cup {None}]
        /\ tokenLock' \in [Jti -> Req \cup {None}]
        /\ \A q \in Req \ {r}, v \in User : userLock[v] = q => userLock'[v] = q
        /\ userLock'[u] = r
    BY <1>1, <1>2, <1>4, ConstantsAssumption DEF IInv, TypeOK, RefreshLockUser
  <2>5. "refresh_token" \notin TokenLockPc
    BY DEF TokenLockPc
  <2> HIDE DEF m
  <2> QED
    BY <1>2, <2>1, <2>2, <2>3, <2>4, <2>5, QuietStep
<1> QED
  BY <1>3, <1>4 DEF RefreshLockUser

\* FindByJTIForUpdate: from here on the token row stays as it was read.
LEMMA RefreshLockTokenInv ==
    ASSUME IInv, NEW r \in Req, RefreshLockToken(r)
    PROVE  IInv'
<1> DEFINE t == req[r].tok
           d == RotationDecision(req[r].user, t)
           m == [req[r] EXCEPT !.pc = d]
<1>1. t \in Jti /\ req[r].user \in User /\ req[r] \in Request
  BY DEF IInv, TypeOK, LocalsOK, LocalOK, RefreshLockToken, RefreshPc
<1>2. revoked' \in SUBSET Jti /\ UNCHANGED <<users, rows, claims>>
  BY DEF IInv, TypeOK, RefreshLockToken, db
<1>3. CASE End(r) /\ ReleaseLocks(r)
  BY <1>2, <1>3, EndStep
<1>4. CASE /\ d # "denied"
           /\ tokenLock' = [tokenLock EXCEPT ![t] = r]
           /\ Goto(r, d)
           /\ UNCHANGED userLock
  <2>0. /\ d \in {"refresh_rotate", "refresh_replay"}
        /\ d = "refresh_rotate" => Live(t)
        /\ d = "refresh_replay" => rows[t].reason = "rotated"
    BY <1>4 DEF RotationDecision, Live, Unrevoked
  <2> HIDE DEF d
  <2>1. /\ m \in Request
        /\ m.next = req[r].next
        /\ m.pc = d
        /\ m.user = req[r].user
        /\ m.tok = t
    BY <1>1, <2>0 DEF Request, InFlight
  <2>2. LocalOK(m)
    BY <1>1, <2>0 DEF IInv, LocalsOK, LocalOK, RefreshLockToken, Request, LoginPc,
           AccessPc, RefreshPc, LogoutPc, Answered
  <2>3. req' = [req EXCEPT ![r] = m]
    BY <1>4 DEF IInv, TypeOK, Goto
  <2>4. /\ userLock' \in [User -> Req \cup {None}]
        /\ tokenLock' \in [Jti -> Req \cup {None}]
        /\ \A q \in Req \ {r}, j \in Jti : tokenLock[j] = q => tokenLock'[j] = q
        /\ tokenLock'[t] = r
    BY <1>1, <1>4, ConstantsAssumption DEF IInv, TypeOK, RefreshLockToken
  <2>4a. userLock'[req[r].user] = r
    BY <1>4 DEF IInv, RefreshLockToken, LocksOK, UserLockPc
  <2>5. d # "replayed"
    BY <2>0
  <2> HIDE DEF m
  <2> QED
    BY <1>2, <1>4, <2>1, <2>2, <2>3, <2>4, <2>4a, <2>5, QuietStep, ZenonT(30)
<1> QED
  BY <1>3, <1>4 DEF RefreshLockToken

\* LogoutHandler parses the refresh token.
LEMMA LogoutBeginInv ==
    ASSUME IInv, NEW r \in Req, NEW t \in Jti, LogoutBegin(r, t)
    PROVE  IInv'
<1> DEFINE m == [Idle EXCEPT !.pc = "logout_access", !.user = claims[t].user,
                             !.tok = t, !.valid = Live(t)]
<1>1. claims[t].user \in User /\ Present(t)
  BY DEF IInv, TableOK, LogoutBegin
<1>1a. Live(t) \in BOOLEAN
  BY DEF Live
<1>2. m \in Request /\ m.next = None /\ m.pc = "logout_access"
  BY <1>1, <1>1a, ConstantsAssumption DEF Request, Idle, InFlight
<1>3. LocalOK(m)
  BY <1>1 DEF LocalOK, Idle, LoginPc, AccessPc, RefreshPc, LogoutPc, Answered
<1>4. /\ revoked' \in SUBSET Jti
      /\ userLock' \in [User -> Req \cup {None}]
      /\ tokenLock' \in [Jti -> Req \cup {None}]
      /\ UNCHANGED <<users, rows, claims, userLock, tokenLock>>
  BY DEF IInv, TypeOK, LogoutBegin, db
<1>5. req' = [req EXCEPT ![r] = m]
  BY DEF LogoutBegin
<1>6. "logout_access" \notin UserLockPc \cup TokenLockPc \cup {"replayed"}
  BY DEF UserLockPc, TokenLockPc
<1> HIDE DEF m
<1> QED
  BY <1>2, <1>3, <1>4, <1>5, <1>6, QuietStep

\* RevokeAccessToken writes to the state store only.
LEMMA LogoutAccessInv ==
    ASSUME IInv, NEW r \in Req, NEW a \in Jti \cup {None}, LogoutAccess(r, a)
    PROVE  IInv'
<1>1. LocalOK([req[r] EXCEPT !.pc = "logout_token"])
  BY DEF IInv, TypeOK, LocalsOK, LocalOK, LogoutAccess, Request, LoginPc, AccessPc,
         RefreshPc, LogoutPc, Answered
<1>2. /\ revoked' \in SUBSET Jti
      /\ UNCHANGED <<users, rows, claims, userLock, tokenLock>>
      /\ End(r) \/ Goto(r, "logout_token")
  BY DEF IInv, TypeOK, LogoutAccess
<1>3. "logout_token" \in InFlight \ (UserLockPc \cup TokenLockPc \cup {"replayed"})
  BY DEF InFlight, UserLockPc, TokenLockPc
<1> QED
  BY <1>1, <1>2, <1>3, GotoStep, EndStep

\* RevokeRefreshToken locks the token row, or finds nothing left to revoke.
LEMMA LogoutLockTokenInv ==
    ASSUME IInv, NEW r \in Req, LogoutLockToken(r)
    PROVE  IInv'
<1> DEFINE t == req[r].tok
           m == [req[r] EXCEPT !.pc = "logout_commit"]
<1>1. t \in Jti /\ req[r] \in Request /\ req[r].pc = "logout_token"
  BY DEF IInv, TypeOK, LocalsOK, LocalOK, LogoutLockToken, LogoutPc
<1>2. /\ revoked' \in SUBSET Jti
      /\ UNCHANGED <<users, rows, claims, revoked, userLock>>
  BY DEF IInv, TypeOK, LogoutLockToken, db
<1>3. CASE End(r) /\ UNCHANGED tokenLock
  BY <1>2, <1>3, EndStep
<1>4. CASE Answer(r, "logged_out") /\ UNCHANGED tokenLock
  BY <1>1, <1>2, <1>4, AnswerStep DEF LogoutPc
<1>5. CASE /\ tokenLock' = [tokenLock EXCEPT ![t] = r]
           /\ Goto(r, "logout_commit")
  <2>1. /\ m \in Request
        /\ m.next = req[r].next
        /\ m.pc = "logout_commit"
        /\ m.tok = t
    BY <1>1 DEF Request, InFlight
  <2>2. LocalOK(m)
    BY <1>1 DEF IInv, LocalsOK, LocalOK, Request, LoginPc, AccessPc, RefreshPc,
           LogoutPc, Answered
  <2>3. req' = [req EXCEPT ![r] = m]
    BY <1>5 DEF IInv, TypeOK, Goto
  <2>4. /\ userLock' \in [User -> Req \cup {None}]
        /\ tokenLock' \in [Jti -> Req \cup {None}]
        /\ \A q \in Req \ {r}, j \in Jti : tokenLock[j] = q => tokenLock'[j] = q
        /\ tokenLock'[t] = r
    BY <1>1, <1>2, <1>5, ConstantsAssumption DEF IInv, TypeOK, LogoutLockToken
  <2>5. "logout_commit" \notin UserLockPc
    BY DEF UserLockPc
  <2> HIDE DEF m
  <2> QED
    BY <1>2, <2>1, <2>2, <2>3, <2>4, <2>5, QuietStep
<1> QED
  BY <1>3, <1>4, <1>5 DEF LogoutLockToken

\* A rollback, or an answered request, leaves the tables as they are.
LEMMA FailOrReturnInv ==
    ASSUME IInv, NEW r \in Req, Fail(r) \/ Return(r)
    PROVE  IInv'
<1>1. /\ revoked' \in SUBSET Jti
      /\ UNCHANGED <<users, rows, claims>>
      /\ End(r)
      /\ ReleaseLocks(r) \/ UNCHANGED <<userLock, tokenLock>>
  BY DEF IInv, TypeOK, Fail, Return, db
<1> QED
  BY <1>1, EndStep

-----------------------------------------------------------------------------
(* Commits: steps that change rows and end the request.                     *)

\* A commit of r releases r's locks and no other request's.
LEMMA CommitLocks ==
    ASSUME IInv, NEW r \in Req, NEW m \in Request, m.pc \in {"idle"} \cup Answered,
           req' = [req EXCEPT ![r] = m], ReleaseLocks(r)
    PROVE  /\ userLock' \in [User -> Req \cup {None}]
           /\ tokenLock' \in [Jti -> Req \cup {None}]
           /\ req' \in [Req -> Request]
           /\ \A q \in Req : req'[q] = IF q = r THEN m ELSE req[q]
           /\ LocksOK'
<1> USE ConstantsAssumption DEF IInv
<1>0. req \in [Req -> Request]
  BY DEF TypeOK
<1>1. \A q \in Req : req'[q] = IF q = r THEN m ELSE req[q]
  BY <1>0
<1>2. /\ userLock' \in [User -> Req \cup {None}]
      /\ tokenLock' \in [Jti -> Req \cup {None}]
      /\ \A q \in Req \ {r}, u \in User : userLock[u] = q => userLock'[u] = q
      /\ \A q \in Req \ {r}, j \in Jti : tokenLock[j] = q => tokenLock'[j] = q
  BY DEF TypeOK, ReleaseLocks
<1>3. LocksOK'
  BY <1>1, <1>2 DEF LocksOK, UserLockPc, TokenLockPc, LocalsOK, LocalOK,
         AccessPc, RefreshPc, LogoutPc, Answered
<1> QED
  BY <1>0, <1>1, <1>2, <1>3

\* The locals of a request that has ended are trivially in order.
LEMMA IdleOK ==
    Idle \in Request /\ Idle.pc = "idle" /\ Idle.next = None
BY ConstantsAssumption DEF Idle, Request

\* StoreRefreshToken inserts the first row of a new family.
LEMMA LoginStoreInv ==
    ASSUME IInv, NEW r \in Req, LoginStore(r)
    PROVE  IInv'
<1> USE ConstantsAssumption DEF IInv
<1> DEFINE n == req[r].next
           u == req[r].user
<1>1. n \in Jti /\ u \in User /\ ~Present(n) /\ req[r].ver \in Nat
  BY DEF TypeOK, Request, LocalsOK, LocalOK, NextOK, LoginStore, LoginPc
<1>2. rows' = [rows EXCEPT ![n] = [user |-> u, family |-> n, reason |-> "live",
                                   replaced_by |-> None]]
  BY DEF LoginStore, CreateRow
<1>3. claims' = [claims EXCEPT ![n] = [user |-> u, auth_version |-> req[r].ver]]
  BY DEF LoginStore
<1>4. UNCHANGED <<users, revoked>>
  BY DEF LoginStore
<1>5. /\ userLock' \in [User -> Req \cup {None}]
      /\ tokenLock' \in [Jti -> Req \cup {None}]
      /\ req' \in [Req -> Request]
      /\ \A q \in Req : req'[q] = IF q = r THEN Idle ELSE req[q]
      /\ LocksOK'
  BY CommitLocks, IdleOK DEF LoginStore, End
<1>6. /\ \A j \in Jti : j # n => rows'[j] = rows[j] /\ claims'[j] = claims[j]
      /\ rows'[n] = [user |-> u, family |-> n, reason |-> "live",
                      replaced_by |-> None]
      /\ claims'[n] = [user |-> u, auth_version |-> req[r].ver]
  BY <1>1, <1>2, <1>3 DEF TypeOK
<1>7. rows[n] = NoRow /\ \A j \in Jti : rows[j].family # n /\ rows[j].replaced_by # n
  BY <1>1 DEF TableOK, SingleUse, Present, NoRow
<1>10. TypeOK'
  BY <1>1, <1>2, <1>3, <1>4, <1>5 DEF TypeOK, Row, Unrevoked
<1>11. TableOK'
  BY <1>1, <1>6, <1>7 DEF TableOK, Present, SameFamily
<1>12. LocalsOK'
  BY <1>1, <1>4, <1>5, <1>6, IdleOK DEF LocalsOK, LocalOK, Present, Live, Current,
         LoginPc, AccessPc, RefreshPc, LogoutPc, Answered
<1>13. NextOK'
  <2>1. \A q \in Req : req[q].next \in Jti \cup {None}
    BY DEF TypeOK, Request
  <2> QED
    BY <2>1, <1>1, <1>5, <1>6, IdleOK DEF NextOK, Present
<1>14. SingleUse'
  BY <1>1, <1>6, <1>7 DEF SingleUse, SameFamily, Present
<1>15. OneLivePerFamily'
  BY <1>1, <1>6, <1>7 DEF OneLivePerFamily, Live
<1>16. ReplayEndsFamily'
  BY <1>1, <1>5, <1>6, <1>7, IdleOK DEF ReplayEndsFamily, FamilyOver, Live, LocalsOK,
         LocalOK, Answered, Present
<1> QED
  BY <1>5, <1>10, <1>11, <1>12, <1>13, <1>14, <1>15, <1>16

\* Revoking a row keeps its user and family.
LEMMA RevokedRow ==
    ASSUME NEW x \in Row, NEW why \in RevokedReason, NEW by \in Jti \cup {None}
    PROVE  [x EXCEPT !.reason = why, !.replaced_by = by]
             = [user |-> x.user, family |-> x.family, reason |-> why,
                replaced_by |-> by]
<1> DEFINE y == [x EXCEPT !.reason = why, !.replaced_by = by]
<1>1. y \in Row /\ y.user = x.user /\ y.family = x.family /\ y.reason = why
        /\ y.replaced_by = by
  BY DEF Row
<1> HIDE DEF y
<1>2. y = [user |-> y.user, family |-> y.family, reason |-> y.reason,
           replaced_by |-> y.replaced_by]
  BY <1>1 DEF Row
<1>3. y = [user |-> x.user, family |-> x.family, reason |-> why, replaced_by |-> by]
  BY <1>1, <1>2
<1> QED
  BY <1>3 DEF y

\* RotateRefreshToken works on a live row of the user it has locked, inserts one
\* new row of the same user and family, and revokes the old one as rotated.
LEMMA RefreshRotateRows ==
    ASSUME IInv, NEW r \in Req, RefreshRotate(r)
    PROVE  LET t == req[r].tok
               n == req[r].next
               u == req[r].user
               f == rows[t].family
           IN  /\ t \in Jti /\ n \in Jti /\ u \in User /\ f \in Jti
               /\ Live(t) /\ Present(t) /\ ~Present(n) /\ t # n
               /\ rows[t].user = u /\ claims[t].user = u
               /\ Current(u, claims[t].auth_version)
               /\ rows' = [rows EXCEPT
                              ![n] = [user |-> u, family |-> f, reason |-> "live",
                                      replaced_by |-> None],
                              ![t] = [user |-> u, family |-> f, reason |-> "rotated",
                                      replaced_by |-> n]]
<1> USE ConstantsAssumption DEF IInv
<1> DEFINE t == req[r].tok
           n == req[r].next
           u == req[r].user
           f == rows[t].family
<1>1. /\ t \in Jti /\ n \in Jti /\ u \in User /\ f \in Jti
      /\ Live(t) /\ Present(t) /\ ~Present(n) /\ t # n
      /\ rows[t].user = u /\ claims[t].user = u
      /\ Current(u, claims[t].auth_version)
  BY DEF TypeOK, Request, LocalsOK, LocalOK, NextOK, TableOK, RefreshRotate, RefreshPc
<1>2. rows' = [rows EXCEPT ![n] = [user |-> u, family |-> f, reason |-> "live",
                                   replaced_by |-> None],
                           ![t] = [user |-> u, family |-> f, reason |-> "rotated",
                                   replaced_by |-> n]]
  <2>1. rows[t] \in Row /\ rows \in [Jti -> Row]
    BY <1>1 DEF TypeOK
  <2>2. [rows[t] EXCEPT !.reason = "rotated", !.replaced_by = n]
          = [user |-> u, family |-> f, reason |-> "rotated", replaced_by |-> n]
    <3> HIDE DEF IInv
    <3>1. "rotated" \in RevokedReason /\ n \in Jti \cup {None}
      BY <1>1 DEF RevokedReason
    <3>2. [rows[t] EXCEPT !.reason = "rotated", !.replaced_by = n]
            = [user |-> rows[t].user, family |-> rows[t].family,
               reason |-> "rotated", replaced_by |-> n]
      BY <2>1, <3>1, RevokedRow, Zenon
    <3> QED
      BY <1>1, <3>2, Zenon
  <2> DEFINE created == CreateRow(n, u, f)
  <2>3. created[t] = rows[t] /\ rows[t].reason \in Unrevoked
    BY <1>1, <2>1 DEF CreateRow, Live
  <2>4. rows' = [created EXCEPT ![t] = [created[t] EXCEPT !.reason = "rotated",
                                                          !.replaced_by = n]]
    BY <2>3 DEF RefreshRotate, RevokeByJTI
  <2> QED
    BY <2>2, <2>3, <2>4 DEF CreateRow
<1> QED
  BY <1>1, <1>2

\* The commit of an exchange.  The lock on the old row keeps every other exchange,
\* replay or logout of it away, so the old row gets one successor only.
LEMMA RefreshRotateInv ==
    ASSUME IInv, NEW r \in Req, RefreshRotate(r)
    PROVE  IInv'
<1> USE ConstantsAssumption DEF IInv
<1> DEFINE t == req[r].tok
           n == req[r].next
           u == req[r].user
           f == rows[t].family
<1>1. /\ t \in Jti /\ n \in Jti /\ u \in User /\ f \in Jti
      /\ Live(t) /\ Present(t) /\ ~Present(n) /\ t # n
      /\ rows[t].user = u /\ claims[t].user = u
  BY RefreshRotateRows
<1>2. rows' = [rows EXCEPT ![n] = [user |-> u, family |-> f, reason |-> "live",
                                   replaced_by |-> None],
                           ![t] = [user |-> u, family |-> f, reason |-> "rotated",
                                   replaced_by |-> n]]
  BY RefreshRotateRows
<1>3. claims' = [claims EXCEPT ![n] = claims[t]]
  BY DEF RefreshRotate
<1>4. UNCHANGED <<users, revoked>>
  BY DEF RefreshRotate
<1>5. /\ userLock' \in [User -> Req \cup {None}]
      /\ tokenLock' \in [Jti -> Req \cup {None}]
      /\ req' \in [Req -> Request]
      /\ \A q \in Req : req'[q] = IF q = r THEN Idle ELSE req[q]
      /\ LocksOK'
  BY CommitLocks, IdleOK DEF RefreshRotate, End
<1>6. /\ \A j \in Jti : j \notin {n, t} => rows'[j] = rows[j]
      /\ \A j \in Jti : j # n => claims'[j] = claims[j]
      /\ rows'[n] = [user |-> u, family |-> f, reason |-> "live",
                      replaced_by |-> None]
      /\ rows'[t] = [user |-> u, family |-> f, reason |-> "rotated",
                      replaced_by |-> n]
      /\ claims'[n] = claims[t]
  BY <1>1, <1>2, <1>3 DEF TypeOK
<1>7. /\ rows[n] = NoRow
      /\ \A j \in Jti : rows[j].family # n /\ rows[j].replaced_by # n
      /\ f # n /\ rows[t].replaced_by = None
  BY <1>1 DEF TableOK, SingleUse, Present, NoRow, Live, Unrevoked
\* No other transaction works on t: its row is locked by r.
<1>8. \A q \in Req : q # r =>
         /\ req[q].pc \in {"refresh_rotate", "refresh_replay"} => req[q].tok # t
         /\ req[q].next # n
  BY <1>1 DEF LocksOK, TokenLockPc, RefreshRotate, NextOK
<1>10. TypeOK'
  <2>1. rows' \in [Jti -> Row]
    BY <1>1, <1>2 DEF TypeOK, Row, Unrevoked, RevokedReason
  <2>2. claims' \in [Jti -> [user : User \cup {None}, auth_version : Nat]]
    BY <1>1, <1>3 DEF TypeOK
  <2> QED
    BY <2>1, <2>2, <1>4, <1>5 DEF TypeOK
<1>11. TableOK'
  BY <1>1, <1>6, <1>7, SMTT(30) DEF TableOK, Present, SameFamily
<1>12. LocalsOK'
  <2>1. \A q \in Req : q # r => LocalOK(req[q])'
    BY <1>1, <1>4, <1>5, <1>6, <1>8 DEF LocalsOK, LocalOK, Present, Live, Current,
         LoginPc, AccessPc, RefreshPc, LogoutPc, Answered
  <2>2. LocalOK(req[r])'
    BY <1>5, IdleOK DEF LocalOK, LoginPc, AccessPc, RefreshPc, LogoutPc, Answered
  <2> QED
    BY <2>1, <2>2 DEF LocalsOK
<1>13. NextOK'
  <2>1. \A q \in Req : req[q].next \in Jti \cup {None}
    BY DEF TypeOK, Request
  <2> QED
    BY <2>1, <1>1, <1>5, <1>6, <1>8, IdleOK DEF NextOK, Present
<1>14. SingleUse'
  <2>1. \A j \in Jti : (rows[j].replaced_by # None <=> rows[j].reason = "rotated")'
    BY <1>1, <1>6 DEF SingleUse
  <2>2. ASSUME NEW j \in Jti, NEW k \in Jti, rows'[j].replaced_by = k
        PROVE  /\ Present(k)' /\ rows'[k].family # k /\ SameFamily(j, k)'
               /\ \A i \in Jti : rows'[i].replaced_by = k => i = j
    BY <1>1, <1>6, <1>7, <2>2 DEF SingleUse, SameFamily, Present
  <2>3. ASSUME NEW k \in Jti, Present(k)', rows'[k].family # k
        PROVE  \E j \in Jti : rows'[j].replaced_by = k
    BY <1>1, <1>6, <1>7, <2>3 DEF SingleUse, Present
  <2> QED
    BY <2>1, <2>2, <2>3 DEF SingleUse
<1>15. OneLivePerFamily'
  BY <1>1, <1>6, <1>7 DEF OneLivePerFamily, Live, Unrevoked
\* The family of t is not over, so no request has just reported its replay.
<1>16. ReplayEndsFamily'
  <2>1. \A q \in Req : req[q].pc = "replayed" => req[q].tok \in Jti /\ Present(req[q].tok)
    BY DEF LocalsOK, LocalOK, Answered
  <2>2. \A q \in Req : req[q].pc = "replayed" =>
           rows[req[q].tok].family # f /\ req[q].tok \notin {n, t}
    BY <1>1, <2>1 DEF ReplayEndsFamily, FamilyOver
  <2> QED
    BY <1>1, <1>5, <1>6, <2>1, <2>2, IdleOK DEF ReplayEndsFamily, FamilyOver, Live
<1> QED
  BY <1>5, <1>10, <1>11, <1>12, <1>13, <1>14, <1>15, <1>16

-----------------------------------------------------------------------------
(* Steps that only revoke (or let lapse) unrevoked rows.                    *)

\* What such a step does to each row.
Revoking ==
    /\ rows' \in [Jti -> Row]
    /\ \A j \in Jti :
          /\ rows'[j].user = rows[j].user
          /\ rows'[j].family = rows[j].family
          /\ rows'[j].replaced_by = rows[j].replaced_by
          /\ ~Live(j) => rows'[j] = rows[j]
          /\ Live(j) => rows'[j].reason \in
                {"live", "lapsed", "logout", "password_change", "replay_detected"}

LEMMA RevokingRows ==
    ASSUME IInv, Revoking, UNCHANGED claims
    PROVE  /\ TableOK' /\ SingleUse' /\ OneLivePerFamily'
           /\ \A j \in Jti : Present(j)' <=> Present(j)
           /\ \A f \in Jti : FamilyOver(f) => FamilyOver(f)'
<1> USE DEF IInv, Revoking
<1>1. \A j \in Jti : /\ Present(j)' <=> Present(j)
                     /\ Live(j)' => Live(j)
                     /\ rows'[j].reason = "rotated" <=> rows[j].reason = "rotated"
  BY DEF Present, Live, Unrevoked
<1>2. TableOK'
  <2>1. \A j \in Jti : ~Present(j) => rows'[j] = rows[j]
    BY DEF Present, Live, Unrevoked
  <2> QED
    BY <1>1, <2>1 DEF TableOK, SameFamily
<1>3. SingleUse'
  BY <1>1 DEF SingleUse, SameFamily
<1>4. OneLivePerFamily'
  BY <1>1 DEF OneLivePerFamily
<1>5. \A f \in Jti : FamilyOver(f) => FamilyOver(f)'
  BY <1>1 DEF FamilyOver
<1> QED
  BY <1>1, <1>2, <1>3, <1>4, <1>5

\* Replacing the reason of some live rows is such a step.
LEMMA RevokingSome ==
    ASSUME IInv, NEW D \in SUBSET Jti, \A j \in D : Live(j),
           NEW why \in {"lapsed", "logout", "password_change", "replay_detected"},
           rows' = [j \in Jti |-> IF j \in D THEN [rows[j] EXCEPT !.reason = why]
                                  ELSE rows[j]]
    PROVE  Revoking /\ \A j \in D : rows'[j].reason = why
<1>1. \A j \in Jti : rows[j] \in Row
  BY DEF IInv, TypeOK
<1>2. \A j \in Jti : rows'[j] = IF j \in D THEN [rows[j] EXCEPT !.reason = why]
                                ELSE rows[j]
  OBVIOUS
<1>3. ASSUME NEW j \in Jti
      PROVE  /\ [rows[j] EXCEPT !.reason = why] \in Row
             /\ [rows[j] EXCEPT !.reason = why].user = rows[j].user
             /\ [rows[j] EXCEPT !.reason = why].family = rows[j].family
             /\ [rows[j] EXCEPT !.reason = why].replaced_by = rows[j].replaced_by
             /\ [rows[j] EXCEPT !.reason = why].reason = why
  BY <1>1 DEF Row, Unrevoked, RevokedReason
<1> QED
  BY <1>1, <1>2, <1>3 DEF Revoking, Live, Unrevoked

\* Requests other than those in E keep their locals in order through such a
\* step, if the rows their transactions have locked do not change under them.
LEMMA RevokingOthers ==
    ASSUME IInv, Revoking, UNCHANGED claims, NEW E \in SUBSET Req,
           \A q \in Req \ E : req'[q] = req[q],
           \A q \in Req \ E : req[q].pc \in UserLockPc =>
                                 users'[req[q].user] = users[req[q].user],
           \A q \in Req \ E : req[q].pc = "refresh_rotate" =>
                                 rows'[req[q].tok] = rows[req[q].tok]
    PROVE  \A q \in Req \ E : LocalOK(req[q])'
<1> SUFFICES ASSUME NEW q \in Req \ E PROVE LocalOK(req[q])'
  OBVIOUS
<1>1. LocalOK(req[q]) /\ req'[q] = req[q]
  BY DEF IInv, LocalsOK
<1>2. \A j \in Jti : Present(j)' <=> Present(j)
  BY RevokingRows
<1>3. req[q].pc = "refresh_replay" => rows'[req[q].tok].reason = "rotated"
  BY <1>1 DEF LocalOK, Revoking, Live, Unrevoked, RefreshPc
<1>4. req[q].pc \in {"refresh_token", "refresh_rotate"} =>
        Current(req[q].user, claims[req[q].tok].auth_version)'
  BY <1>1 DEF LocalOK, Current, UserLockPc
<1>5. req[q].pc = "pw_commit" => users'[req[q].user].auth_version < MaxVersion
  BY <1>1 DEF LocalOK, UserLockPc
<1>6. req[q].pc = "refresh_rotate" => Live(req[q].tok)'
  BY <1>1 DEF LocalOK, Live
<1> QED
  BY <1>1, <1>2, <1>3, <1>4, <1>5, <1>6 DEF LocalOK

\* A commit of r that only revokes rows preserves the invariant if it respects
\* the row locks of the others.
LEMMA RevokingCommit ==
    ASSUME IInv, Revoking, UNCHANGED <<claims, revoked>>,
           NEW r \in Req, NEW m \in Request, m.pc \in {"idle"} \cup Answered,
           m.next = None, req' = [req EXCEPT ![r] = m], ReleaseLocks(r),
           users' \in [User -> [status : {"active", "disabled"},
                               auth_version : 1..MaxVersion, password : Password]],
           \A q \in Req \ {r} : req[q].pc \in UserLockPc =>
                                  users'[req[q].user] = users[req[q].user],
           \A q \in Req \ {r} : req[q].pc = "refresh_rotate" =>
                                  rows'[req[q].tok] = rows[req[q].tok],
           m.pc \in Answered => m.tok \in Jti /\ Present(m.tok),
           m.pc = "replayed" => FamilyOver(rows[m.tok].family)'
    PROVE  IInv'
<1> USE ConstantsAssumption
<1>1. /\ userLock' \in [User -> Req \cup {None}]
      /\ tokenLock' \in [Jti -> Req \cup {None}]
      /\ req' \in [Req -> Request]
      /\ \A q \in Req : req'[q] = IF q = r THEN m ELSE req[q]
      /\ LocksOK'
  BY CommitLocks
<1>2. /\ TableOK' /\ SingleUse' /\ OneLivePerFamily'
      /\ \A j \in Jti : Present(j)' <=> Present(j)
      /\ \A f \in Jti : FamilyOver(f) => FamilyOver(f)'
  BY RevokingRows
<1>3. TypeOK'
  BY <1>1 DEF IInv, TypeOK, Revoking
<1>4. LocalsOK'
  <2>1. \A q \in Req \ {r} : LocalOK(req[q])'
    BY <1>1, RevokingOthers
  <2>2. LocalOK(req[r])'
    BY <1>1, <1>2 DEF LocalOK, LoginPc, AccessPc, RefreshPc, LogoutPc, Answered
  <2> QED
    BY <2>1, <2>2 DEF LocalsOK
<1>5. NextOK'
  <2>1. \A q \in Req : req[q].next \in Jti \cup {None}
    BY DEF IInv, TypeOK, Request
  <2> QED
    BY <2>1, <1>1, <1>2 DEF IInv, NextOK
<1>6. ReplayEndsFamily'
  <2>1. \A q \in Req \ {r} : req'[q].pc = "replayed" =>
           /\ req'[q] = req[q] /\ FamilyOver(rows[req[q].tok].family)
           /\ rows[req[q].tok].family \in Jti
           /\ rows'[req[q].tok].family = rows[req[q].tok].family
    BY <1>1 DEF IInv, ReplayEndsFamily, LocalsOK, LocalOK, Answered, TableOK, Revoking
  <2> QED
    BY <1>1, <1>2, <2>1 DEF ReplayEndsFamily
<1> QED
  BY <1>1, <1>2, <1>3, <1>4, <1>5, <1>6 DEF IInv

\* Another transaction that has locked a user row works on another user.
LEMMA UserLockExcludes ==
    ASSUME IInv, NEW r \in Req, req[r].pc \in UserLockPc
    PROVE  \A q \in Req \ {r} : req[q].pc \in UserLockPc =>
              req[q].user \in User /\ req[q].user # req[r].user
BY DEF IInv, LocksOK, LocalsOK, LocalOK, UserLockPc, AccessPc, RefreshPc

\* UpdateUserPassword revokes exactly the live rows of its user.
LEMMA PasswordCommitRevokes ==
    ASSUME IInv, NEW r \in Req, PasswordCommit(r)
    PROVE  /\ Revoking
           /\ \A j \in Jti : rows[j].user # req[r].user => rows'[j] = rows[j]
<1> DEFINE u == req[r].user
           D == {j \in Jti : rows[j].user = u /\ Live(j)}
<1>1. rows' = [j \in Jti |-> IF j \in D
                             THEN [rows[j] EXCEPT !.reason = "password_change"]
                             ELSE rows[j]]
  BY DEF PasswordCommit, RevokeAllByUserID
<1>2. Revoking
  <2>1. D \in SUBSET Jti /\ \A j \in D : Live(j)
    OBVIOUS
  <2> HIDE DEF D
  <2> QED
    BY <2>1, <1>1, RevokingSome
<1> QED
  BY <1>1, <1>2

\* The commit of a password change: the lock on the user row keeps every exchange
\* of the user's tokens away.
LEMMA PasswordCommitInv ==
    ASSUME IInv, NEW r \in Req, PasswordCommit(r)
    PROVE  IInv'
<1> DEFINE u == req[r].user
<1>1. /\ u \in User /\ req[r].new \in Password
      /\ users[u].auth_version \in 1..MaxVersion
      /\ users[u].auth_version < MaxVersion
  BY DEF IInv, TypeOK, LocalsOK, LocalOK, AccessPc, PasswordCommit
<1>3. Revoking /\ \A j \in Jti : rows[j].user # u => rows'[j] = rows[j]
  BY PasswordCommitRevokes
<1>4. users' = [users EXCEPT ![u].password = req[r].new, ![u].auth_version = @ + 1]
  BY DEF PasswordCommit, UpdateUserPasswordByUserID
<1>5. users' \in [User -> [status : {"active", "disabled"},
                          auth_version : 1..MaxVersion, password : Password]]
  <2>1. users[u].auth_version + 1 \in 1..MaxVersion
    BY <1>1, ConstantsAssumption
  <2> QED
    BY <1>1, <1>4, <2>1 DEF IInv, TypeOK
<1>6. \A v \in User : v # u => users'[v] = users[v]
  BY <1>4 DEF IInv, TypeOK
<1>7. \A q \in Req \ {r} : req[q].pc \in UserLockPc =>
         req[q].user \in User /\ req[q].user # u
  BY UserLockExcludes DEF PasswordCommit, UserLockPc
<1>8. \A q \in Req \ {r} : req[q].pc = "refresh_rotate" =>
         rows'[req[q].tok] = rows[req[q].tok]
  <2>1. ASSUME NEW q \in Req \ {r}, req[q].pc = "refresh_rotate"
        PROVE  /\ req[q].tok \in Jti
               /\ rows[req[q].tok].user = req[q].user /\ req[q].user # u
    BY <1>7, <2>1 DEF IInv, LocalsOK, LocalOK, TableOK, UserLockPc, RefreshPc
  <2> QED
    BY <1>3, <2>1
<1> QED
  BY <1>3, <1>5, <1>6, <1>7, <1>8, IdleOK, RevokingCommit
     DEF PasswordCommit, End, Answered

\* RevokeFamily revokes exactly the user's live rows of the family.
LEMMA RefreshReplayRevokes ==
    ASSUME IInv, NEW r \in Req, RefreshReplay(r)
    PROVE  LET u == req[r].user
               f == rows[req[r].tok].family
               D == {j \in Jti : rows[j].user = u /\ rows[j].family = f /\ Live(j)}
           IN  /\ Revoking
               /\ \A j \in D : rows'[j].reason = "replay_detected"
               /\ \A j \in Jti \ D : rows'[j] = rows[j]
<1> DEFINE u == req[r].user
           f == rows[req[r].tok].family
           D == {j \in Jti : rows[j].user = u /\ rows[j].family = f /\ Live(j)}
<1>1. rows' = [j \in Jti |-> IF j \in D
                             THEN [rows[j] EXCEPT !.reason = "replay_detected"]
                             ELSE rows[j]]
  BY DEF RefreshReplay, RevokeFamily
<1>2. Revoking /\ \A j \in D : rows'[j].reason = "replay_detected"
  <2>1. D \in SUBSET Jti /\ \A j \in D : Live(j)
    OBVIOUS
  <2> HIDE DEF D
  <2> QED
    BY <2>1, <1>1, RevokingSome
<1> QED
  BY <1>1, <1>2

\* The commit of a detected replay: the family is over, and the lock on the user
\* row keeps every exchange of its tokens away.
LEMMA RefreshReplayInv ==
    ASSUME IInv, NEW r \in Req, RefreshReplay(r)
    PROVE  IInv'
<1> DEFINE u == req[r].user
           t == req[r].tok
           f == rows[t].family
           D == {j \in Jti : rows[j].user = u /\ rows[j].family = f /\ Live(j)}
           m == [Idle EXCEPT !.pc = "replayed", !.tok = t, !.valid = req[r].valid]
<1>1. /\ t \in Jti /\ Present(t) /\ f \in Jti /\ u \in User /\ rows[t].user = u
      /\ req[r] \in Request
  BY DEF IInv, TypeOK, LocalsOK, LocalOK, TableOK, RefreshPc, RefreshReplay
<1>3. /\ Revoking
      /\ \A j \in D : rows'[j].reason = "replay_detected"
      /\ \A j \in Jti \ D : rows'[j] = rows[j]
  BY RefreshReplayRevokes
\* Every live token of the family belongs to u, so D is all of them.
<1>4. \A j \in Jti : rows'[j].family = f => ~Live(j)'
  <2>1. \A j \in Jti : rows[j].family = f /\ Live(j) => rows[j].user = u
    BY <1>1 DEF IInv, TableOK, SameFamily, Present, Live, Unrevoked
  <2> QED
    BY <1>3, <2>1 DEF Revoking, Live, Unrevoked
<1>5. \A q \in Req \ {r} : req[q].pc = "refresh_rotate" =>
         rows'[req[q].tok] = rows[req[q].tok]
  <2>1. \A q \in Req \ {r} : req[q].pc \in UserLockPc => req[q].user # u
    BY UserLockExcludes DEF RefreshReplay, UserLockPc
  <2>2. ASSUME NEW q \in Req \ {r}, req[q].pc = "refresh_rotate"
        PROVE  /\ req[q].tok \in Jti
               /\ rows[req[q].tok].user = req[q].user /\ req[q].user # u
    BY <2>1, <2>2 DEF IInv, LocalsOK, LocalOK, TableOK, UserLockPc, RefreshPc
  <2> QED
    BY <1>3, <2>2
<1>6. m \in Request /\ m.pc = "replayed" /\ m.next = None /\ m.tok = t
  BY <1>1, ConstantsAssumption DEF Request, Idle, Answered
<1>7. req' = [req EXCEPT ![r] = m]
  BY DEF RefreshReplay, Answer
<1>8. users' \in [User -> [status : {"active", "disabled"},
                          auth_version : 1..MaxVersion, password : Password]]
  BY DEF IInv, TypeOK, RefreshReplay
<1>9. rows'[t].family = f
  BY <1>1, <1>3 DEF Revoking
<1>10. \A j \in Jti : rows'[j].family = rows'[m.tok].family => ~Live(j)'
  BY <1>4, <1>6, <1>9
<1> HIDE DEF m
<1> QED
  BY <1>1, <1>3, <1>5, <1>6, <1>7, <1>8, <1>10, RevokingCommit
     DEF RefreshReplay, Answered, FamilyOver

\* RevokeRefreshToken revokes its own row, if that is still live.
LEMMA LogoutCommitRevokes ==
    ASSUME IInv, NEW r \in Req, LogoutCommit(r)
    PROVE  Revoking /\ \A j \in Jti : j # req[r].tok => rows'[j] = rows[j]
<1> DEFINE t == req[r].tok
<1>1. t \in Jti /\ Present(t) /\ req[r] \in Request /\ rows[t] \in Row
  BY DEF IInv, TypeOK, LocalsOK, LocalOK, LogoutPc, LogoutCommit
<1>2. \A j \in Jti : j # t => rows'[j] = rows[j]
  BY <1>1 DEF LogoutCommit, RevokeByJTI, IInv, TypeOK
<1>3. Revoking
  <2>1. rows' \in [Jti -> Row]
    BY <1>1 DEF LogoutCommit, RevokeByJTI, IInv, TypeOK, Row, RevokedReason
  <2>2. CASE ~Live(t)
    <3>1. rows'[t] = rows[t]
      BY <1>1, <2>2 DEF LogoutCommit, RevokeByJTI, IInv, TypeOK, Live
    <3> QED
      BY <1>1, <1>2, <2>1, <2>2, <3>1 DEF Revoking, Live, Unrevoked
  <2>3. CASE Live(t)
    <3>1. rows[t].replaced_by = None
      BY <1>1, <2>3 DEF IInv, SingleUse, Live, Unrevoked
    <3>2. rows'[t] = [rows[t] EXCEPT !.reason = "logout", !.replaced_by = None]
      BY <1>1, <2>3 DEF LogoutCommit, RevokeByJTI, IInv, TypeOK, Live
    <3>3. /\ rows'[t].user = rows[t].user /\ rows'[t].family = rows[t].family
          /\ rows'[t].replaced_by = None /\ rows'[t].reason = "logout"
      BY <1>1, <3>2 DEF Row
    <3> QED
      BY <1>1, <1>2, <2>1, <2>3, <3>1, <3>3 DEF Revoking, Live, Unrevoked
  <2> QED
    BY <2>2, <2>3
<1> QED
  BY <1>2, <1>3

\* The commit of a logout: its lock is on the token's row only.
LEMMA LogoutCommitInv ==
    ASSUME IInv, NEW r \in Req, LogoutCommit(r)
    PROVE  IInv'
<1> DEFINE t == req[r].tok
           m == [Idle EXCEPT !.pc = "logged_out", !.tok = t, !.valid = req[r].valid]
<1>1. t \in Jti /\ Present(t) /\ req[r] \in Request /\ rows[t] \in Row
  BY DEF IInv, TypeOK, LocalsOK, LocalOK, LogoutPc, LogoutCommit
<1>3. Revoking /\ \A j \in Jti : j # t => rows'[j] = rows[j]
  BY LogoutCommitRevokes
\* No rotation is under way on t: its row is locked by r.
<1>4. \A q \in Req \ {r} : req[q].pc = "refresh_rotate" =>
         rows'[req[q].tok] = rows[req[q].tok]
  <2>1. ASSUME NEW q \in Req \ {r}, req[q].pc = "refresh_rotate"
        PROVE  req[q].tok \in Jti /\ req[q].tok # t
    BY <2>1 DEF IInv, LocalsOK, LocalOK, LocksOK, TokenLockPc, RefreshPc, LogoutCommit
  <2> QED
    BY <1>3, <2>1
<1>5. m \in Request /\ m.pc = "logged_out" /\ m.next = None /\ m.tok = t
  BY <1>1, ConstantsAssumption DEF Request, Idle, Answered
<1>6. req' = [req EXCEPT ![r] = m]
  BY DEF LogoutCommit, Answer
<1>7. users' \in [User -> [status : {"active", "disabled"},
                          auth_version : 1..MaxVersion, password : Password]]
  BY DEF IInv, TypeOK, LogoutCommit
<1> HIDE DEF m
<1> QED
  BY <1>1, <1>3, <1>4, <1>5, <1>6, <1>7, RevokingCommit DEF LogoutCommit, Answered

\* expires_at passes for one row.
LEMMA ExpireRevokes ==
    ASSUME IInv, NEW e \in Jti, Expire(e)
    PROVE  Revoking /\ \A j \in Jti : Live(j) => Live(j)'
<1> DEFINE D == {e}
<1>1. rows' = [j \in Jti |-> IF j \in D THEN [rows[j] EXCEPT !.reason = "lapsed"]
                             ELSE rows[j]]
  BY DEF Expire, IInv, TypeOK
<1>2. D \in SUBSET Jti /\ \A j \in D : Live(j)
  BY DEF Expire, Live, Unrevoked
<1> HIDE DEF D
<1>3. Revoking /\ \A j \in D : rows'[j].reason = "lapsed"
  BY <1>1, <1>2, RevokingSome
<1>4. \A j \in Jti : Live(j) => Live(j)'
  BY <1>1, <1>3 DEF Live, Unrevoked
<1> QED
  BY <1>3, <1>4

\* The clock passing expires_at changes nothing that a
\* transaction under way relies on.
LEMMA ExpireInv ==
    ASSUME IInv, NEW e \in Jti, Expire(e)
    PROVE  IInv'
<1> USE ConstantsAssumption
<1>3. Revoking
  BY ExpireRevokes
<1>4. \A j \in Jti : Live(j) => Live(j)'
  BY ExpireRevokes
<1>5. UNCHANGED <<users, claims, revoked, userLock, tokenLock, req>>
  BY DEF Expire
<1>6. /\ TableOK' /\ SingleUse' /\ OneLivePerFamily'
      /\ \A j \in Jti : Present(j)' <=> Present(j)
      /\ \A f \in Jti : FamilyOver(f) => FamilyOver(f)'
  BY <1>3, <1>5, RevokingRows
<1>7. TypeOK' /\ NextOK' /\ LocksOK'
  <2>1. \A q \in Req : req[q].next \in Jti \cup {None}
    BY DEF IInv, TypeOK, Request
  <2> QED
    BY <1>3, <1>5, <1>6, <2>1 DEF IInv, TypeOK, NextOK, LocksOK, Revoking
<1>8. LocalsOK'
  <2> SUFFICES ASSUME NEW q \in Req PROVE LocalOK(req[q])'
    BY DEF LocalsOK
  <2>1. LocalOK(req[q]) /\ req'[q] = req[q]
    BY <1>5 DEF IInv, LocalsOK
  <2>2. req[q].pc = "refresh_replay" => rows'[req[q].tok].reason = "rotated"
    BY <1>3, <2>1 DEF LocalOK, Revoking, Live, Unrevoked, RefreshPc
  <2>3. req[q].pc = "refresh_rotate" => Live(req[q].tok)'
    BY <1>4, <2>1 DEF LocalOK, RefreshPc
  <2> QED
    BY <1>5, <1>6, <2>1, <2>2, <2>3 DEF LocalOK, Current
<1>9. ReplayEndsFamily'
  <2>1. \A q \in Req : req'[q].pc = "replayed" =>
           /\ req'[q] = req[q] /\ FamilyOver(rows[req[q].tok].family)
           /\ rows[req[q].tok].family \in Jti
           /\ rows'[req[q].tok].family = rows[req[q].tok].family
    BY <1>3, <1>5 DEF IInv, ReplayEndsFamily, LocalsOK, LocalOK, Answered, TableOK,
         Revoking
  <2> QED
    BY <1>6, <2>1 DEF ReplayEndsFamily
<1> QED
  BY <1>6, <1>7, <1>8, <1>9 DEF IInv

\* dao.UserDisabled waits for the user's row lock, so no transaction that has
\* checked the user's status is under way.
LEMMA UserDisabledInv ==
    ASSUME IInv, NEW v \in User, UserDisabled(v)
    PROVE  IInv'
<1> USE ConstantsAssumption
<1>1. UNCHANGED <<rows, claims, revoked, userLock, tokenLock, req>>
  BY DEF UserDisabled
<1>2. users' = [users EXCEPT ![v].status = "disabled"]
  BY DEF UserDisabled
<1>3. TypeOK'
  BY <1>1, <1>2 DEF IInv, TypeOK
<1>4. \A w \in User : w # v => users'[w] = users[w]
  BY <1>2 DEF IInv, TypeOK
<1>5. LocalsOK'
  <2> SUFFICES ASSUME NEW q \in Req PROVE LocalOK(req[q])'
    BY DEF LocalsOK
  <2>1. LocalOK(req[q]) /\ req'[q] = req[q]
    BY <1>1 DEF IInv, LocalsOK
  <2>2. req[q].pc \in UserLockPc =>
           users'[req[q].user] = users[req[q].user]
    BY <1>4, <2>1 DEF LocalOK, UserDisabled, IInv, LocksOK, UserLockPc, AccessPc, RefreshPc
  <2> QED
    BY <1>1, <2>1, <2>2 DEF LocalOK, Current, Live, Present, UserLockPc
<1> QED
  BY <1>1, <1>3, <1>5 DEF IInv, TableOK, NextOK, LocksOK, SingleUse, SameFamily,
       OneLivePerFamily, ReplayEndsFamily, FamilyOver, Present, Live

-----------------------------------------------------------------------------

\* Every step preserves the invariant: every committed statement of the five
\* requests, every rollback, and every step of the environment.
LEMMA Inductive ==
    IInv /\ [Next]_vars => IInv'
<1> SUFFICES ASSUME IInv, [Next]_vars PROVE IInv'
  OBVIOUS
<1>1. CASE UNCHANGED vars
  BY <1>1 DEF vars, IInv, TypeOK, TableOK, LocalsOK, LocalOK, Current, NextOK,
       LocksOK, SingleUse, SameFamily, OneLivePerFamily, ReplayEndsFamily,
       FamilyOver, Present, Live
<1>2. ASSUME NEW r \in Req, Begin(r) PROVE IInv'
  BY <1>2, LoginInv, AccessBeginInv, RefreshBeginInv, LogoutBeginInv DEF Begin
<1>3. ASSUME NEW r \in Req, Step(r) PROVE IInv'
  <2>1. CASE LoginTouch(r) \/ LoginStore(r)
    BY <2>1, LoginTouchInv, LoginStoreInv
  <2>2. CASE ValidateUser(r) \/ ValidateStore(r)
    BY <2>2, ValidateInv
  <2>3. CASE (\E old, new \in Password : PasswordLock(r, old, new)) \/ PasswordCommit(r)
    BY <2>3, PasswordLockInv, PasswordCommitInv
  <2>4. CASE RefreshLockUser(r) \/ RefreshLockToken(r)
    BY <2>4, RefreshLockUserInv, RefreshLockTokenInv
  <2>5. CASE RefreshRotate(r) \/ RefreshReplay(r)
    BY <2>5, RefreshRotateInv, RefreshReplayInv
  <2>6. CASE \E a \in Jti \cup {None} : LogoutAccess(r, a)
    BY <2>6, LogoutAccessInv
  <2>7. CASE LogoutLockToken(r) \/ LogoutCommit(r)
    BY <2>7, LogoutLockTokenInv, LogoutCommitInv
  <2>8. CASE Return(r)
    BY <2>8, FailOrReturnInv
  <2> QED
    BY <1>3, <2>1, <2>2, <2>3, <2>4, <2>5, <2>6, <2>7, <2>8 DEF Step
<1>4. ASSUME NEW r \in Req, Fail(r) PROVE IInv'
  BY <1>4, FailOrReturnInv
<1>5. ASSUME NEW u \in User, UserDisabled(u) PROVE IInv'
  BY <1>5, UserDisabledInv
<1>6. ASSUME NEW j \in Jti, Expire(j) PROVE IInv'
  BY <1>6, ExpireInv
<1> QED
  BY <1>1, <1>2, <1>3, <1>4, <1>5, <1>6 DEF Next

\* The invariant holds throughout.
THEOREM Invariance == Spec => []IInv
BY InitInv, Inductive, PTL DEF Spec

\* What a step may do to the refresh_tokens table: insert a row, exchange a row
\* for a new one, or revoke live rows.
LEMMA RowsStep ==
    ASSUME IInv, [Next]_vars
    PROVE  \/ rows' = rows
           \/ \E r \in Req : LoginStore(r)
           \/ \E r \in Req : RefreshRotate(r)
           \/ Revoking
<1>1. CASE UNCHANGED vars
  BY <1>1 DEF vars
<1>2. ASSUME NEW r \in Req, Begin(r) PROVE rows' = rows
  BY <1>2 DEF Begin, Login, AccessBegin, RefreshBegin, LogoutBegin, db
<1>3. ASSUME NEW r \in Req, Step(r)
      PROVE  rows' = rows \/ LoginStore(r) \/ RefreshRotate(r) \/ Revoking
  <2>1. CASE PasswordCommit(r) \/ RefreshReplay(r) \/ LogoutCommit(r)
    BY <2>1, PasswordCommitRevokes, RefreshReplayRevokes, LogoutCommitRevokes
  <2>2. CASE LoginTouch(r) \/ ValidateUser(r) \/ ValidateStore(r) \/ Return(r)
    BY <2>2 DEF LoginTouch, ValidateUser, ValidateStore, Return, db
  <2>3. CASE \E old, new \in Password : PasswordLock(r, old, new)
    BY <2>3 DEF PasswordLock, db
  <2>4. CASE RefreshLockUser(r) \/ RefreshLockToken(r)
    BY <2>4 DEF RefreshLockUser, RefreshLockToken, db
  <2>5. CASE \E a \in Jti \cup {None} : LogoutAccess(r, a)
    BY <2>5 DEF LogoutAccess
  <2>6. CASE LogoutLockToken(r)
    BY <2>6 DEF LogoutLockToken, db
  <2> QED
    BY <1>3, <2>1, <2>2, <2>3, <2>4, <2>5, <2>6 DEF Step
<1>4. ASSUME NEW r \in Req, Fail(r) PROVE rows' = rows
  BY <1>4 DEF Fail, db
<1>5. ASSUME NEW u \in User, UserDisabled(u) PROVE rows' = rows
  BY <1>5 DEF UserDisabled
<1>6. ASSUME NEW j \in Jti, Expire(j) PROVE Revoking
  BY <1>6, ExpireRevokes
<1> QED
  BY <1>1, <1>2, <1>3, <1>4, <1>5, <1>6 DEF Next

\* Type correctness: a user always has a password, and what a change of password
\* read under the row lock still holds when it commits.
THEOREM TypeCorrect == Spec => []TypeOK
<1>1. IInv => TypeOK
  BY DEF IInv
<1> QED
  BY Invariance, <1>1, PTL

\* RotateRefreshToken exchanges a refresh token at most once, for any number of
\* users, tokens and concurrent requests.
THEOREM SingleUseCorrect == Spec => []SingleUse
<1>1. IInv => SingleUse
  BY DEF IInv
<1> QED
  BY Invariance, <1>1, PTL

\* A token family never has two usable refresh tokens.
THEOREM OneLiveCorrect == Spec => []OneLivePerFamily
<1>1. IInv => OneLivePerFamily
  BY DEF IInv
<1> QED
  BY Invariance, <1>1, PTL

\* A replay is reported only when the whole family is revoked.
THEOREM ReplayCorrect == Spec => []ReplayEndsFamily
<1>1. IInv => ReplayEndsFamily
  BY DEF IInv
<1> QED
  BY Invariance, <1>1, PTL

\* RotateRefreshToken exchanges a token only while its user is active and has the
\* auth_version the token was signed with.
THEOREM RotationCorrect == Spec => RotationIsCurrent
<1>1. ASSUME IInv, [Next]_vars, NEW j \in Jti, Live(j), rows'[j].reason = "rotated"
      PROVE  Current(rows[j].user, claims[j].auth_version)
  <2>1. CASE \E r \in Req : RefreshRotate(r)
    <3>1. PICK r \in Req : RefreshRotate(r)
      BY <2>1
    <3>2. j = req[r].tok
      <4>1. rows \in [Jti -> Row] /\ rows[j].reason # "rotated"
        BY <1>1 DEF IInv, TypeOK, Live, Unrevoked
      <4>2. j # req[r].next
        BY <1>1, <3>1, RefreshRotateRows DEF Live, Present, Unrevoked
      <4> QED
        BY <1>1, <3>1, <4>1, <4>2, RefreshRotateRows
    <3> QED
      BY <1>1, <3>1, <3>2, RefreshRotateRows
  <2>2. CASE rows' = rows \/ Revoking
    BY <1>1, <2>2 DEF Revoking, Live, Unrevoked
  <2>3. CASE \E r \in Req : LoginStore(r)
    BY <1>1, <2>3 DEF LoginStore, CreateRow, IInv, TypeOK, Live, Unrevoked, LocalsOK,
         LocalOK, LoginPc
  <2> QED
    BY <1>1, <2>1, <2>2, <2>3, RowsStep
<1>2. IInv /\ [Next]_vars =>
        [\A j \in Jti : Live(j) /\ rows'[j].reason = "rotated" =>
            Current(rows[j].user, claims[j].auth_version)]_vars
  BY <1>1
<1> QED
  BY Invariance, <1>2, PTL DEF Spec, RotationIsCurrent

\* Every UPDATE of refresh_tokens says revoked_at IS NULL: a revoked row never
\* changes again.
THEOREM RevocationCorrect == Spec => RevocationIsFinal
<1>1. ASSUME IInv, [Next]_vars, NEW j \in Jti, rows[j].reason \in RevokedReason
      PROVE  rows'[j] = rows[j]
  <2>1. ~Live(j) /\ Present(j)
    BY <1>1 DEF Live, Present, Unrevoked, RevokedReason
  <2>2. CASE \E r \in Req : RefreshRotate(r)
    <3>1. PICK r \in Req : RefreshRotate(r)
      BY <2>2
    <3>2. j # req[r].tok /\ j # req[r].next
      BY <1>1, <2>1, <3>1, RefreshRotateRows
    <3>3. rows \in [Jti -> Row]
      BY <1>1 DEF IInv, TypeOK
    <3> QED
      BY <1>1, <3>1, <3>2, <3>3, RefreshRotateRows
  <2>3. CASE rows' = rows \/ Revoking
    BY <2>1, <2>3 DEF Revoking
  <2>4. CASE \E r \in Req : LoginStore(r)
    <3>1. PICK r \in Req : LoginStore(r)
      BY <2>4
    <3>2. req[r].next \in Jti /\ ~Present(req[r].next)
      BY <1>1, <3>1, ConstantsAssumption
         DEF IInv, LocalsOK, LocalOK, LoginPc, NextOK, LoginStore
    <3> QED
      BY <1>1, <2>1, <3>1, <3>2 DEF LoginStore, CreateRow, IInv, TypeOK
  <2> QED
    BY <1>1, <2>2, <2>3, <2>4, RowsStep
<1>2. IInv /\ [Next]_vars =>
        [\A j \in Jti : rows[j].reason \in RevokedReason => rows'[j] = rows[j]]_vars
  BY <1>1
<1> QED
  BY Invariance, <1>2, PTL DEF Spec, RevocationIsFinal

-----------------------------------------------------------------------------
(* That AuthSessions implements Sessions, and that an access token is         *)
(* accepted only if it was valid when it was presented.  Both need a second   *)
(* invariant, about versions: nothing refers to a version the account has not *)
(* reached yet.                                                               *)

\* No token was signed with a version its account has not reached, and no login
\* holds one.  The requests with an access token: it was issued to their user;
\* up to each of the two reads, a token that passes it now was valid on arrival.
VersionsOK ==
    /\ \A j \in Jti : Present(j) =>
          claims[j].auth_version \in 1..users[claims[j].user].auth_version
    /\ \A r \in Req : req[r].pc \in LoginPc =>
          req[r].ver \in 1..users[req[r].user].auth_version

AccessOK(m) ==
    /\ m.pc \in AccessPc => Present(m.acc) /\ claims[m.acc].user = m.user
    /\ m.pc = "validate_user" /\ AccessValid(m.acc) => m.valid = TRUE
    /\ m.pc = "validate_store" /\ m.acc \notin revoked => m.valid = TRUE
    /\ m.pc \in {"accepted", "pw_commit"} => m.valid = TRUE

VInv == VersionsOK /\ \A r \in Req : AccessOK(req[r])

-----------------------------------------------------------------------------
(* What a step may do to the tables and to a request. *)

\* Versions grow, a disabled user stays disabled, a revocation is kept, and an
\* issued token keeps its claims.
Monotone ==
    /\ \A u \in User : /\ users'[u].auth_version \in 1..MaxVersion
                       /\ users[u].auth_version <= users'[u].auth_version
                       /\ users'[u].status = "active" => users[u].status = "active"
    /\ revoked \subseteq revoked'
    /\ \A j \in Jti : Present(j) => Present(j)' /\ claims'[j] = claims[j]

\* Steps that leave users, tokens and claims alone are monotone.
LEMMA MonotoneQuiet ==
    ASSUME IInv, UNCHANGED <<users, rows, claims>>, revoked \subseteq revoked'
    PROVE  Monotone
BY DEF Monotone, Present, IInv, TypeOK

\* Every step is.
LEMMA MonotoneStep ==
    ASSUME IInv, [Next]_vars
    PROVE  Monotone
<1> USE ConstantsAssumption
<1>1. CASE UNCHANGED vars
  BY <1>1, MonotoneQuiet DEF vars
<1>2. ASSUME NEW r \in Req, Begin(r) PROVE Monotone
  BY <1>2, MonotoneQuiet DEF Begin, Login, AccessBegin, RefreshBegin, LogoutBegin, db
<1>3. ASSUME NEW r \in Req, Step(r) PROVE Monotone
  <2>1. CASE LoginStore(r)
    <3>1. req[r].next \in Jti /\ ~Present(req[r].next)
      BY <2>1 DEF IInv, LocalsOK, LocalOK, NextOK, LoginPc, LoginStore
    <3> QED
      BY <2>1, <3>1 DEF LoginStore, CreateRow, Monotone, Present, IInv, TypeOK
  <2>2. CASE RefreshRotate(r)
    <3>1. /\ req[r].next \in Jti /\ ~Present(req[r].next)
          /\ req[r].tok \in Jti
          /\ rows' = [rows EXCEPT
                        ![req[r].next] = [user |-> req[r].user,
                                          family |-> rows[req[r].tok].family,
                                          reason |-> "live", replaced_by |-> None],
                        ![req[r].tok] = [user |-> req[r].user,
                                         family |-> rows[req[r].tok].family,
                                         reason |-> "rotated",
                                         replaced_by |-> req[r].next]]
      BY <2>2, RefreshRotateRows
    <3>2. /\ UNCHANGED <<users, revoked>>
          /\ claims' = [claims EXCEPT ![req[r].next] = claims[req[r].tok]]
      BY <2>2 DEF RefreshRotate
    <3> QED
      BY <3>1, <3>2 DEF Monotone, Present, IInv, TypeOK
  <2>3. CASE PasswordCommit(r)
    <3>1. /\ req[r].user \in User
          /\ users[req[r].user].auth_version < MaxVersion
      BY <2>3 DEF PasswordCommit, IInv, LocalsOK, LocalOK, AccessPc
    <3>2. \A j \in Jti : Present(j) => Present(j)'
      BY <2>3, PasswordCommitRevokes, RevokingRows DEF PasswordCommit
    <3>3. /\ users' = [users EXCEPT ![req[r].user].password = req[r].new,
                                    ![req[r].user].auth_version = @ + 1]
          /\ UNCHANGED <<claims, revoked>>
      BY <2>3 DEF PasswordCommit, UpdateUserPasswordByUserID
    <3>4. \A u \in User : /\ users'[u].auth_version \in 1..MaxVersion
                          /\ users[u].auth_version <= users'[u].auth_version
                          /\ users'[u].status = users[u].status
      BY <3>1, <3>3 DEF IInv, TypeOK
    <3> QED
      BY <3>2, <3>3, <3>4 DEF Monotone
  <2>4. CASE RefreshReplay(r) \/ LogoutCommit(r)
    <3>1. Revoking /\ UNCHANGED <<users, claims, revoked>>
      BY <2>4, RefreshReplayRevokes, LogoutCommitRevokes DEF RefreshReplay, LogoutCommit
    <3> QED
      BY <3>1, RevokingRows DEF Monotone, IInv, TypeOK
  <2>5. CASE LoginTouch(r) \/ ValidateUser(r) \/ ValidateStore(r) \/ Return(r)
    BY <2>5, MonotoneQuiet DEF LoginTouch, ValidateUser, ValidateStore, Return, db
  <2>6. CASE \E old, new \in Password : PasswordLock(r, old, new)
    BY <2>6, MonotoneQuiet DEF PasswordLock, db
  <2>7. CASE RefreshLockUser(r) \/ RefreshLockToken(r) \/ LogoutLockToken(r)
    BY <2>7, MonotoneQuiet DEF RefreshLockUser, RefreshLockToken, LogoutLockToken, db
  <2>8. CASE \E a \in Jti \cup {None} : LogoutAccess(r, a)
    BY <2>8, MonotoneQuiet DEF LogoutAccess
  <2> QED
    BY <1>3, <2>1, <2>2, <2>3, <2>4, <2>5, <2>6, <2>7, <2>8 DEF Step
<1>4. ASSUME NEW r \in Req, Fail(r) PROVE Monotone
  BY <1>4, MonotoneQuiet DEF Fail, db
<1>5. ASSUME NEW u \in User, UserDisabled(u) PROVE Monotone
  BY <1>5 DEF UserDisabled, Monotone, Present, IInv, TypeOK
<1>6. ASSUME NEW j \in Jti, Expire(j) PROVE Monotone
  <2>1. Revoking /\ UNCHANGED <<users, claims, revoked>>
    BY <1>6, ExpireRevokes DEF Expire
  <2> QED
    BY <2>1, RevokingRows DEF Monotone, IInv, TypeOK
<1> QED
  BY <1>1, <1>2, <1>3, <1>4, <1>5, <1>6 DEF Next

\* A login or an authenticated request only goes on by its own steps.
Advance(r) ==
    \/ \E u \in User, p \in Password, n \in Jti : Login(r, u, p, n)
    \/ LoginTouch(r)
    \/ \E a \in Jti : AccessBegin(r, a)
    \/ ValidateUser(r) \/ ValidateStore(r)
    \/ \E old, new \in Password : PasswordLock(r, old, new)

LEMMA AdvanceStep ==
    ASSUME IInv, [Next]_vars, NEW r \in Req
    PROVE  \/ req'[r] = req[r]
           \/ req'[r].pc \notin LoginPc \cup AccessPc
           \/ Advance(r)
<1> USE ConstantsAssumption
<1> DEFINE Out == req'[r].pc \notin LoginPc \cup AccessPc
           Goal == req'[r] = req[r] \/ Out \/ Advance(r)
<1>0. req \in [Req -> Request]
  BY DEF IInv, TypeOK
<1>1. CASE UNCHANGED vars
  BY <1>1 DEF vars
<1>2. ASSUME NEW q \in Req, NEW m, m.pc \notin LoginPc \cup AccessPc,
             req' = [req EXCEPT ![q] = m]
      PROVE  Goal
  BY <1>0, <1>2
<1>3. ASSUME NEW q \in Req, End(q) PROVE Goal
  BY <1>0, <1>3 DEF End, Idle, LoginPc, AccessPc
<1>4. ASSUME NEW q \in Req, NEW label \in RefreshPc \cup LogoutPc, Goto(q, label)
      PROVE  Goal
  BY <1>0, <1>4 DEF Goto, Request, LoginPc, AccessPc, RefreshPc, LogoutPc
<1>5. ASSUME NEW q \in Req, NEW label \in Answered, Answer(q, label) PROVE Goal
  BY <1>0, <1>5 DEF Answer, Idle, Answered, LoginPc, AccessPc
<1>6. ASSUME NEW q \in Req, Begin(q) PROVE Goal
  <2>1. CASE q = r
    <3>1. ASSUME NEW t \in Jti, NEW n \in Jti, RefreshBegin(r, t, n) PROVE Out
      BY <1>0, <3>1 DEF RefreshBegin, Idle, LoginPc, AccessPc
    <3>2. ASSUME NEW t \in Jti, LogoutBegin(r, t) PROVE Out
      BY <1>0, <3>2 DEF LogoutBegin, Idle, LoginPc, AccessPc
    <3> QED
      BY <1>6, <2>1, <3>1, <3>2 DEF Begin, Advance
  <2>2. CASE q # r
    BY <1>0, <1>6, <2>2 DEF Begin, Login, AccessBegin, RefreshBegin, LogoutBegin
  <2> QED
    BY <2>1, <2>2
<1>7. ASSUME NEW q \in Req, Step(q) PROVE Goal
  <2>1. CASE LoginStore(q) \/ PasswordCommit(q) \/ RefreshRotate(q) \/ Return(q)
    BY <1>3, <2>1 DEF LoginStore, PasswordCommit, RefreshRotate, Return
  <2>2. CASE RefreshReplay(q) \/ LogoutCommit(q)
    BY <1>5, <2>2 DEF RefreshReplay, LogoutCommit, Answered
  <2>3. CASE RefreshLockUser(q)
    BY <1>3, <1>4, <2>3 DEF RefreshLockUser, RefreshPc
  <2>4. CASE RefreshLockToken(q)
    BY <1>3, <1>4, <2>4 DEF RefreshLockToken, RotationDecision, RefreshPc
  <2>5. CASE \E a \in Jti \cup {None} : LogoutAccess(q, a)
    BY <1>3, <1>4, <2>5 DEF LogoutAccess, LogoutPc
  <2>6. CASE LogoutLockToken(q)
    BY <1>3, <1>4, <1>5, <2>6 DEF LogoutLockToken, LogoutPc, Answered
  <2>7. CASE LoginTouch(q) \/ ValidateUser(q) \/ ValidateStore(q)
             \/ \E old, new \in Password : PasswordLock(q, old, new)
    <3>1. CASE q = r
      BY <2>7, <3>1 DEF Advance
    <3>2. CASE q # r
      BY <1>0, <2>7, <3>2 DEF LoginTouch, ValidateUser, ValidateStore, PasswordLock,
           Goto, End
    <3> QED
      BY <3>1, <3>2
  <2> QED
    BY <1>7, <2>1, <2>2, <2>3, <2>4, <2>5, <2>6, <2>7 DEF Step
<1>8. ASSUME NEW q \in Req, Fail(q) PROVE Goal
  BY <1>3, <1>8 DEF Fail
<1>9. ASSUME NEW u \in User, UserDisabled(u) PROVE Goal
  BY <1>9 DEF UserDisabled
<1>10. ASSUME NEW j \in Jti, Expire(j) PROVE Goal
  BY <1>10 DEF Expire
<1> QED
  BY <1>1, <1>6, <1>7, <1>8, <1>9, <1>10 DEF Next

-----------------------------------------------------------------------------
(* The invariant about versions. *)

LEMMA VersionsInit == Init => VInv
BY ConstantsAssumption DEF Init, VInv, VersionsOK, AccessOK, Present, NoRow, Idle,
   LoginPc, AccessPc

\* A token that is accepted after a step was acceptable before it.
LEMMA AccessValidBefore ==
    ASSUME IInv, VInv, [Next]_vars, NEW a \in Jti, Present(a)
    PROVE  AccessValid(a)' => AccessValid(a)
<1>1. claims[a].user \in User /\ claims[a].auth_version \in Nat
  BY DEF IInv, TypeOK, TableOK
<1>2. Monotone
  BY MonotoneStep
<1>3. claims[a].auth_version \in 1..users[claims[a].user].auth_version
  BY DEF VInv, VersionsOK
<1>4. users[claims[a].user].auth_version \in Nat
  BY <1>1 DEF IInv, TypeOK
<1> QED
  BY <1>1, <1>2, <1>3, <1>4 DEF Monotone, AccessValid, Current

LEMMA VersionsStep ==
    ASSUME IInv, VInv, [Next]_vars
    PROVE  VInv'
<1> USE ConstantsAssumption
<1>0. IInv' /\ Monotone
  BY Inductive, MonotoneStep
<1>1. ASSUME NEW j \in Jti, Present(j)'
      PROVE  claims'[j].auth_version \in 1..users'[claims'[j].user].auth_version
  <2>1. CASE Present(j)
    <3>1. claims[j].user \in User /\ claims'[j] = claims[j]
      BY <1>0, <2>1 DEF Monotone, IInv, TableOK
    <3>2. claims[j].auth_version \in 1..users[claims[j].user].auth_version
      BY <2>1 DEF VInv, VersionsOK
    <3>3. users[claims[j].user].auth_version \in Nat
      BY <3>1 DEF IInv, TypeOK
    <3> QED
      BY <1>0, <3>1, <3>2, <3>3 DEF Monotone
  <2>2. CASE ~Present(j)
    <3>1. \/ \E r \in Req : LoginStore(r) /\ j = req[r].next
          \/ \E r \in Req : RefreshRotate(r) /\ j = req[r].next
      <4>1. rows \in [Jti -> Row]
        BY DEF IInv, TypeOK
      <4>2. ASSUME NEW r \in Req, RefreshRotate(r) PROVE j = req[r].next
        BY <1>1, <2>2, <4>1, <4>2, RefreshRotateRows DEF Present
      <4>3. ASSUME NEW r \in Req, LoginStore(r) PROVE j = req[r].next
        BY <1>1, <2>2, <4>1, <4>3 DEF Present, LoginStore, CreateRow
      <4>4. ~Revoking
        BY <1>1, <2>2 DEF Revoking, Present, Live, Unrevoked
      <4>5. rows' # rows
        BY <1>1, <2>2 DEF Present
      <4> QED
        BY <4>2, <4>3, <4>4, <4>5, RowsStep
    <3>2. ASSUME NEW r \in Req, LoginStore(r), j = req[r].next
          PROVE  claims'[j].auth_version \in 1..users'[claims'[j].user].auth_version
      <4>1. req[r].pc \in LoginPc
        BY <3>2 DEF LoginStore, LoginPc
      <4> QED
        BY <3>2, <4>1 DEF LoginStore, IInv, TypeOK, VInv, VersionsOK
    <3>3. ASSUME NEW r \in Req, RefreshRotate(r), j = req[r].next
          PROVE  claims'[j].auth_version \in 1..users'[claims'[j].user].auth_version
      <4>1. req[r].tok \in Jti /\ Present(req[r].tok)
        BY <3>3, RefreshRotateRows
      <4>2. claims'[j] = claims[req[r].tok] /\ users' = users
        BY <3>3 DEF RefreshRotate, IInv, TypeOK
      <4> QED
        BY <4>1, <4>2 DEF VInv, VersionsOK
    <3> QED
      BY <3>1, <3>2, <3>3
  <2> QED
    BY <2>1, <2>2
<1>2. ASSUME NEW r \in Req, req'[r].pc \in LoginPc
      PROVE  req'[r].ver \in 1..users'[req'[r].user].auth_version
  <2>0. req \in [Req -> Request] /\ req' \in [Req -> Request]
    BY <1>0 DEF IInv, TypeOK
  <2>1. ASSUME req[r].pc \in LoginPc, req'[r].ver = req[r].ver,
               req'[r].user = req[r].user
        PROVE  req'[r].ver \in 1..users'[req'[r].user].auth_version
    <3>1. req[r].user \in User /\ users[req[r].user].auth_version \in Nat
      BY <2>1 DEF IInv, TypeOK, LocalsOK, LocalOK
    <3>2. req[r].ver \in 1..users[req[r].user].auth_version
      BY <2>1 DEF VInv, VersionsOK
    <3> QED
      BY <1>0, <2>1, <3>1, <3>2 DEF Monotone
  <2>2. ASSUME NEW u \in User, NEW p \in Password, NEW n \in Jti, Login(r, u, p, n)
        PROVE  req'[r].ver \in 1..users'[req'[r].user].auth_version
    <3>1. req'[r] = [Idle EXCEPT !.pc = "login_touch", !.user = u, !.next = n,
                                 !.ver = users[u].auth_version]
      <4>1. Idle.pc \notin LoginPc
        BY DEF Idle, LoginPc
      <4> QED
        BY <1>2, <2>0, <2>2, <4>1 DEF Login
    <3>2. req'[r].user = u /\ req'[r].ver = users[u].auth_version
      BY <3>1 DEF Idle
    <3>3. users[u].auth_version \in 1..MaxVersion /\ users' = users
      BY <2>2 DEF Login, db, IInv, TypeOK
    <3> QED
      BY <3>2, <3>3
  <2>3. CASE LoginTouch(r)
    <3>1. req[r].pc \in LoginPc
      BY <2>3 DEF LoginTouch, LoginPc
    <3>2. req'[r].ver = req[r].ver /\ req'[r].user = req[r].user
      BY <2>0, <2>3 DEF LoginTouch, Goto, Request
    <3> QED
      BY <2>1, <3>1, <3>2
  <2>4. CASE Advance(r) /\ ~LoginTouch(r)
    <3>1. req'[r].pc \notin LoginPc
             \/ \E u \in User, p \in Password, n \in Jti : Login(r, u, p, n)
      <4>1. ASSUME NEW a \in Jti, AccessBegin(r, a) PROVE req'[r].pc \notin LoginPc
        BY <2>0, <4>1 DEF AccessBegin, Idle, LoginPc
      <4>2. ASSUME End(r) PROVE req'[r].pc \notin LoginPc
        BY <2>0, <4>2 DEF End, Idle, LoginPc
      <4>3. ASSUME NEW label \in AccessPc, Goto(r, label) PROVE req'[r].pc \notin LoginPc
        BY <2>0, <4>3 DEF Goto, Request, LoginPc, AccessPc
      <4>4. ASSUME NEW old \in Password, NEW new \in Password, PasswordLock(r, old, new)
            PROVE  req'[r].pc \notin LoginPc
        BY <2>0, <4>2, <4>4 DEF PasswordLock, LoginPc, Request
      <4>5. ASSUME ValidateUser(r) \/ ValidateStore(r) PROVE req'[r].pc \notin LoginPc
        BY <4>2, <4>3, <4>5 DEF ValidateUser, ValidateStore, AccessPc
      <4> QED
        BY <2>4, <4>1, <4>4, <4>5 DEF Advance
    <3> QED
      BY <1>2, <2>2, <3>1
  <2> QED
    BY <1>2, <2>1, <2>3, <2>4, AdvanceStep
<1>3. ASSUME NEW r \in Req PROVE AccessOK(req[r])'
  <2>0. req \in [Req -> Request] /\ req' \in [Req -> Request] /\ AccessOK(req[r])
    BY <1>0 DEF IInv, TypeOK, VInv
  <2>1. ASSUME req'[r] = req[r] PROVE AccessOK(req[r])'
    <3>1. CASE req[r].pc \in AccessPc
      <4>1. req[r].acc \in Jti /\ Present(req[r].acc)
        BY <2>0, <3>1 DEF IInv, LocalsOK, LocalOK, AccessOK
      <4>2. AccessValid(req[r].acc)' => AccessValid(req[r].acc)
        BY <2>1, <4>1, AccessValidBefore DEF AccessValid, Current
      <4> QED
        BY <1>0, <2>0, <2>1, <4>1, <4>2 DEF AccessOK, Monotone
    <3>2. CASE req[r].pc \notin AccessPc
      BY <2>1, <3>2 DEF AccessOK, AccessPc
    <3> QED
      BY <3>1, <3>2
  <2>2. CASE req'[r].pc \notin LoginPc \cup AccessPc
    BY <2>2 DEF AccessOK, AccessPc
  <2>3. CASE LoginTouch(r) \/ \E u \in User, p \in Password, n \in Jti : Login(r, u, p, n)
    <3>1. ASSUME NEW u \in User, NEW p \in Password, NEW n \in Jti, Login(r, u, p, n)
          PROVE  req'[r].pc \in {"idle", "login_touch"}
      BY <2>0, <3>1 DEF Login, Idle
    <3>2. ASSUME LoginTouch(r) PROVE req'[r].pc = "login_store"
      BY <2>0, <3>2 DEF LoginTouch, Goto, Request
    <3> QED
      BY <2>3, <3>1, <3>2 DEF AccessOK, AccessPc
  <2>4. ASSUME NEW a \in Jti, AccessBegin(r, a) PROVE AccessOK(req[r])'
    <3>1. /\ req'[r].pc = "validate_user" /\ req'[r].acc = a
          /\ req'[r].user = claims[a].user /\ req'[r].valid = AccessValid(a)
          /\ UNCHANGED db
      BY <2>0, <2>4 DEF AccessBegin, Idle
    <3> QED
      BY <2>4, <3>1 DEF AccessBegin, AccessOK, AccessPc, AccessValid, Current, Present, db
  <2>5. CASE ValidateUser(r)
    <3>1. CASE req' = [req EXCEPT ![r].pc = "validate_store"]
               /\ Current(req[r].user, claims[req[r].acc].auth_version)
      BY <2>0, <2>5, <3>1 DEF ValidateUser, AccessOK, AccessPc, AccessValid, Present, db,
           Request
    <3>2. CASE End(r)
      BY <2>0, <3>2 DEF End, Idle, AccessOK, AccessPc
    <3> QED
      BY <2>5, <3>1, <3>2 DEF ValidateUser, Goto
  <2>6. CASE ValidateStore(r)
    <3>1. CASE req' = [req EXCEPT ![r].pc = "accepted"] /\ req[r].acc \notin revoked
      BY <2>0, <2>6, <3>1 DEF ValidateStore, AccessOK, AccessPc, Present, db, Request
    <3>2. CASE End(r)
      BY <2>0, <3>2 DEF End, Idle, AccessOK, AccessPc
    <3> QED
      BY <2>6, <3>1, <3>2 DEF ValidateStore, Goto
  <2>7. ASSUME NEW old \in Password, NEW new \in Password, PasswordLock(r, old, new)
        PROVE  AccessOK(req[r])'
    <3>1. CASE req' = [req EXCEPT ![r].pc = "pw_commit", ![r].new = new,
                                  ![r].ver = users[req[r].user].auth_version]
      BY <2>0, <2>7, <3>1 DEF PasswordLock, AccessOK, AccessPc, Present, db, Request
    <3>2. CASE End(r)
      BY <2>0, <3>2 DEF End, Idle, AccessOK, AccessPc
    <3> QED
      BY <2>7, <3>1, <3>2 DEF PasswordLock
  <2> QED
    BY <2>1, <2>2, <2>3, <2>4, <2>5, <2>6, <2>7, AdvanceStep DEF Advance
<1> QED
  BY <1>1, <1>2, <1>3 DEF VInv, VersionsOK

\* An access token is accepted, for every number of users, tokens, replicas and
\* requests, only if it was valid when the request arrived.
THEOREM AcceptedCorrect == Spec => []AcceptedWasValid
<1>1. Init => IInv /\ VInv
  BY InitInv, VersionsInit
<1>2. (IInv /\ VInv) /\ [Next]_vars => (IInv /\ VInv)'
  BY Inductive, VersionsStep
<1>3. VInv => AcceptedWasValid
  BY DEF VInv, AccessOK, AcceptedWasValid
<1> QED
  BY <1>1, <1>2, <1>3, PTL DEF Spec

-----------------------------------------------------------------------------
(* The refinement: every step is a step of Sessions, or changes nothing in it. *)

\* The usable tokens of f after the step.
LiveAfter(f) == {j \in Jti : rows'[j].reason \in Unrevoked /\ rows'[j].family = f}

\* A session, before and after a step, as the table has it.
LEMMA SessionNow ==
    \A f \in Jti :
        /\ rows[f].family = f =>
              Session[f] = [user |-> rows[f].user, version |-> claims[f].auth_version,
                            usable |-> LiveIn(f)]
        /\ rows[f].family # f => Session[f] = S!NoSession
BY DEF Session, S!NoSession

LEMMA SessionThen ==
    \A f \in Jti :
        /\ rows'[f].family = f =>
              Session'[f] = [user |-> rows'[f].user, version |-> claims'[f].auth_version,
                             usable |-> LiveAfter(f)]
        /\ rows'[f].family # f => Session'[f] = S!NoSession
BY DEF Session, S!NoSession, LiveIn, LiveAfter, Live

\* Replacing the usable tokens of a session.
LEMMA UsableReplaced ==
    ASSUME NEW R, NEW x, NEW y, NEW z, NEW w,
           R = [user |-> x, version |-> y, usable |-> z]
    PROVE  [R EXCEPT !.usable = w] = [user |-> x, version |-> y, usable |-> w]
OBVIOUS

\* The fields of a session that was opened.
LEMMA SessionFields ==
    ASSUME NEW f \in Jti, rows[f].family = f
    PROVE  /\ Session[f].user = rows[f].user
           /\ Session[f].version = claims[f].auth_version
           /\ Session[f].usable = LiveIn(f)
<1>1. Session[f] = [user |-> rows[f].user, version |-> claims[f].auth_version,
                    usable |-> LiveIn(f)]
  BY SessionNow
<1>2. ASSUME NEW R, NEW x, NEW y, NEW z, R = [user |-> x, version |-> y, usable |-> z]
      PROVE  R.user = x /\ R.version = y /\ R.usable = z
  BY <1>2
<1> QED
  BY <1>1, <1>2

LEMMA SessionIsFunction ==
    /\ Session = [f \in Jti |-> Session[f]]
    /\ Session' = [f \in Jti |-> Session'[f]]
<1>1. Session = [f \in Jti |-> Session[f]]
  BY DEF Session
<1>2. Session' = [f \in Jti |-> Session'[f]]
  BY DEF Session
<1> QED
  BY <1>1, <1>2

LEMMA RefinementInit == Init => S!Init
<1> SUFFICES ASSUME Init PROVE S!Init
  OBVIOUS
<1>1. Account = [u \in User |-> [active |-> TRUE, version |-> 1]]
  BY DEF Init, Account
<1>2. Issued = {}
  BY DEF Init, Issued, Present, NoRow
<1>3. Session = [f \in Jti |-> S!NoSession]
  BY ConstantsAssumption DEF Init, Session, NoRow, S!NoSession
<1> QED
  BY <1>1, <1>2, <1>3 DEF S!Init

LEMMA RefinementStutter ==
    ASSUME UNCHANGED <<users, rows, claims>>
    PROVE  UNCHANGED S!vars
BY DEF S!vars, Account, Issued, Session, LiveIn, Present, Live

\* StoreRefreshToken opens a session.
LEMMA LoginStoreOpens ==
    ASSUME IInv, VInv, NEW r \in Req, LoginStore(r)
    PROVE  S!Next
<1> USE ConstantsAssumption DEF IInv
<1> DEFINE n == req[r].next
           u == req[r].user
           v == req[r].ver
<1>1. /\ n \in Jti /\ u \in User /\ ~Present(n)
      /\ v \in 1..users[u].auth_version
  BY DEF TypeOK, Request, LocalsOK, LocalOK, NextOK, LoginStore, LoginPc, VInv, VersionsOK
<1>2. /\ \A j \in Jti : j # n => rows'[j] = rows[j] /\ claims'[j] = claims[j]
      /\ rows'[n] = [user |-> u, family |-> n, reason |-> "live", replaced_by |-> None]
      /\ claims'[n] = [user |-> u, auth_version |-> v]
      /\ users' = users
  BY <1>1 DEF LoginStore, CreateRow, TypeOK
<1>3. \A j \in Jti : Live(j) => rows[j].family # n
  BY <1>1 DEF TableOK, Present, Live, Unrevoked
<1>4. Issued' = Issued \cup {n} /\ n \notin Issued
  BY <1>1, <1>2 DEF Issued, Present
<1>5. \A f \in Jti : LiveAfter(f) = IF f = n THEN {n} ELSE LiveIn(f)
  <2>1. \A j \in Jti : Live(j)' <=> Live(j) \/ j = n
    BY <1>1, <1>2 DEF Live, Unrevoked
  <2>2. ~Live(n)
    BY <1>1 DEF Live, Present, Unrevoked
  <2> QED
    BY <1>1, <1>2, <1>3, <2>1, <2>2 DEF LiveIn, LiveAfter, Live
<1>6. Session' = [Session EXCEPT ![n] = [user |-> u, version |-> v, usable |-> {n}]]
  <2>1. \A f \in Jti :
           Session'[f] = IF f = n THEN [user |-> u, version |-> v, usable |-> {n}]
                         ELSE Session[f]
    <3>1. Session'[n] = [user |-> u, version |-> v, usable |-> {n}]
      <4>1. rows'[n].family = n /\ rows'[n].user = u /\ claims'[n].auth_version = v
        BY <1>2
      <4>2. LiveAfter(n) = {n}
        BY <1>1, <1>5
      <4> QED
        BY <1>1, <4>1, <4>2, SessionThen
    <3>2. ASSUME NEW f \in Jti, f # n PROVE Session'[f] = Session[f]
      <4>1. rows'[f] = rows[f] /\ claims'[f] = claims[f] /\ LiveAfter(f) = LiveIn(f)
        BY <1>2, <1>5, <3>2
      <4> QED
        BY <4>1, SessionNow, SessionThen
    <3> QED
      BY <3>1, <3>2
  <2> QED
    BY <1>1, <2>1, SessionIsFunction
<1>7. Account' = Account
  BY <1>2 DEF Account
<1>8. S!Open(n, u, v)
  BY <1>4, <1>6, <1>7 DEF S!Open
<1>9. v \in 1..Account[u].version
  BY <1>1 DEF Account
<1> QED
  BY <1>1, <1>8, <1>9 DEF S!Next

\* RotateRefreshToken exchanges the usable token of a session.
LEMMA RefreshRotateExchanges ==
    ASSUME IInv, NEW r \in Req, RefreshRotate(r)
    PROVE  S!Next
<1> USE ConstantsAssumption
<1> DEFINE t == req[r].tok
           n == req[r].next
           u == req[r].user
           f == rows[t].family
<1>1. /\ t \in Jti /\ n \in Jti /\ u \in User /\ f \in Jti
      /\ Live(t) /\ Present(t) /\ ~Present(n) /\ t # n
      /\ rows[t].user = u /\ claims[t].user = u
      /\ Current(u, claims[t].auth_version)
  BY RefreshRotateRows
<1>2. /\ \A j \in Jti \ {t, n} : rows'[j] = rows[j]
      /\ rows'[n] = [user |-> u, family |-> f, reason |-> "live", replaced_by |-> None]
      /\ rows'[t] = [user |-> u, family |-> f, reason |-> "rotated", replaced_by |-> n]
  <2>1. rows \in [Jti -> Row]
    BY DEF IInv, TypeOK
  <2> QED
    BY <1>1, <2>1, RefreshRotateRows
<1>3. users' = users /\ \A j \in Jti \ {n} : claims'[j] = claims[j]
  BY <1>1 DEF RefreshRotate, IInv, TypeOK
<1>4. /\ Present(f) /\ rows[f].family = f /\ rows[f].user = u
      /\ claims[f] = claims[t] /\ f # n
      /\ rows[n] = NoRow
  BY <1>1 DEF IInv, TableOK, SameFamily
<1>5. Issued' = Issued \cup {n} /\ n \notin Issued
  BY <1>1, <1>2 DEF Issued, Present
<1>6. \A g \in Jti : LiveAfter(g) = IF g = f THEN {n} ELSE LiveIn(g)
  <2>1. \A j \in Jti : Live(j)' <=> (Live(j) /\ j # t) \/ j = n
    BY <1>1, <1>2 DEF Live, Unrevoked
  <2>2. \A j \in Jti : Live(j) /\ rows[j].family = f => j = t
    BY <1>1 DEF IInv, OneLivePerFamily
  <2>3. ~Live(n)
    BY <1>1 DEF Live, Present, Unrevoked
  <2> QED
    BY <1>1, <1>2, <2>1, <2>2, <2>3 DEF LiveIn, LiveAfter, Live
<1>7. \A g \in Jti : Session'[g] = IF g = f THEN [Session[f] EXCEPT !.usable = {n}]
                                   ELSE Session[g]
  <2>1. \A g \in Jti \ {n} : /\ rows'[g].family = rows[g].family
                              /\ rows'[g].user = rows[g].user
    BY <1>1, <1>2
  <2>2. rows'[n].family # n /\ rows[n].family # n
    BY <1>1, <1>2, <1>4 DEF NoRow
  <2>3. ASSUME NEW g \in Jti, g # n, g # f PROVE Session'[g] = Session[g]
    BY <1>3, <1>6, <2>1, <2>3, SessionNow, SessionThen
  <2>4. Session'[n] = Session[n]
    BY <1>1, <2>2, SessionNow, SessionThen
  <2>5. Session'[f] = [Session[f] EXCEPT !.usable = {n}]
    <3>1. Session[f] = [user |-> u, version |-> claims[t].auth_version,
                        usable |-> LiveIn(f)]
      BY <1>1, <1>4, SessionNow
    <3>2. /\ rows'[f].family = f /\ rows'[f].user = u
          /\ claims'[f].auth_version = claims[t].auth_version
          /\ LiveAfter(f) = {n}
      BY <1>1, <1>3, <1>4, <1>6, <2>1
    <3>3. Session'[f] = [user |-> u, version |-> claims[t].auth_version, usable |-> {n}]
      BY <1>1, <3>2, SessionThen
    <3> QED
      BY <3>1, <3>3, UsableReplaced
  <2> QED
    BY <2>3, <2>4, <2>5, <1>4
<1>8. Session' = [Session EXCEPT ![f].usable = {n}]
  BY <1>1, <1>7, SessionIsFunction
<1>9. /\ Session[f].usable # {}
      /\ Account[Session[f].user] = [active |-> TRUE, version |-> Session[f].version]
  <2>1. t \in LiveIn(f)
    BY <1>1 DEF LiveIn
  <2>2. /\ Session[f].user = u /\ Session[f].version = claims[t].auth_version
        /\ Session[f].usable = LiveIn(f)
    BY <1>1, <1>4, SessionFields
  <2>3. Account[u] = [active |-> TRUE, version |-> claims[t].auth_version]
    BY <1>1 DEF Account, Current
  <2> QED
    BY <2>1, <2>2, <2>3
<1>10. Account' = Account
  BY <1>3 DEF Account
<1>11. S!Exchange(f, n)
  BY <1>5, <1>8, <1>9, <1>10 DEF S!Exchange
<1> QED
  BY <1>1, <1>11 DEF S!Next

\* A step that only revokes tokens or lets them lapse keeps every session but for
\* its usable tokens.
LEMMA RevokingSessions ==
    ASSUME IInv, Revoking, UNCHANGED claims
    PROVE  /\ Issued' = Issued
           /\ \A f \in Jti :
                 /\ rows[f].family = f =>
                       Session'[f] = [user |-> rows[f].user,
                                      version |-> claims[f].auth_version,
                                      usable |-> LiveAfter(f)]
                 /\ rows[f].family # f => Session'[f] = Session[f]
<1>1. \A j \in Jti : Present(j)' <=> Present(j)
  BY RevokingRows
<1>2. \A j \in Jti : rows'[j].user = rows[j].user /\ rows'[j].family = rows[j].family
  BY DEF Revoking
<1>3. Issued' = Issued
  BY <1>1 DEF Issued
<1>4. ASSUME NEW f \in Jti, rows[f].family = f
      PROVE  Session'[f] = [user |-> rows[f].user, version |-> claims[f].auth_version,
                            usable |-> LiveAfter(f)]
  BY <1>2, <1>4, SessionThen
<1>5. ASSUME NEW f \in Jti, rows[f].family # f PROVE Session'[f] = Session[f]
  BY <1>2, <1>5, SessionNow, SessionThen
<1> QED
  BY <1>3, <1>4, <1>5

\* If exactly the session f loses its tokens, that is the close of f.
LEMMA RevokingCloses ==
    ASSUME IInv, Revoking, UNCHANGED <<users, claims>>, NEW f \in Jti,
           rows[f].family = f, LiveAfter(f) = {},
           \A g \in Jti : g # f => LiveAfter(g) = LiveIn(g)
    PROVE  S!Next \/ UNCHANGED S!vars
<1>1. Issued' = Issued /\ Account' = Account
  BY RevokingSessions DEF Account
<1>2. \A g \in Jti : Session'[g] = IF g = f THEN [Session[f] EXCEPT !.usable = {}]
                                   ELSE Session[g]
  <2>1. Session'[f] = [Session[f] EXCEPT !.usable = {}]
    <3>1. Session[f] = [user |-> rows[f].user, version |-> claims[f].auth_version,
                        usable |-> LiveIn(f)]
      BY SessionNow
    <3>2. Session'[f] = [user |-> rows[f].user, version |-> claims[f].auth_version,
                         usable |-> {}]
      BY RevokingSessions
    <3> QED
      BY <3>1, <3>2, UsableReplaced
  <2>2. ASSUME NEW g \in Jti, g # f PROVE Session'[g] = Session[g]
    BY <2>2, RevokingSessions, SessionNow
  <2> QED
    BY <2>1, <2>2
<1>3. Session' = [Session EXCEPT ![f].usable = {}]
  BY <1>2, SessionIsFunction
<1>4. CASE LiveIn(f) = {}
  <2>1. [Session[f] EXCEPT !.usable = {}] = Session[f]
    <3>1. Session[f] = [user |-> rows[f].user, version |-> claims[f].auth_version,
                        usable |-> {}]
      BY <1>4, SessionNow
    <3> QED
      BY <3>1, UsableReplaced
  <2>2. Session' = Session
    BY <1>2, <2>1, SessionIsFunction
  <2> QED
    BY <1>1, <2>2 DEF S!vars
<1>5. CASE LiveIn(f) # {}
  <2>1. Session[f].usable # {}
    BY <1>5, SessionFields
  <2> QED
    BY <1>1, <1>3, <2>1 DEF S!Close, S!Next
<1> QED
  BY <1>4, <1>5

\* RevokeFamily after a replay closes the session, if it is still open.
LEMMA RefreshReplayCloses ==
    ASSUME IInv, NEW r \in Req, RefreshReplay(r)
    PROVE  S!Next \/ UNCHANGED S!vars
<1> DEFINE f == rows[req[r].tok].family
           u == req[r].user
<1>1. /\ req[r].tok \in Jti /\ Present(req[r].tok)
      /\ claims[req[r].tok].user = u
  BY DEF RefreshReplay, IInv, LocalsOK, LocalOK, RefreshPc
<1>2. f \in Jti /\ rows[f].family = f /\ rows[f].user = u
  BY <1>1 DEF IInv, TableOK, SameFamily
<1>3. \A j \in Jti : Live(j) /\ rows[j].family = f => rows[j].user = u
  BY <1>2 DEF IInv, TableOK, SameFamily, Live, Present, Unrevoked
<1>4. rows' = RevokeFamily(u, f) /\ UNCHANGED <<users, claims>>
  BY DEF RefreshReplay
<1>5. Revoking
  BY RefreshReplayRevokes
<1>6. \A j \in Jti : /\ rows'[j].family = rows[j].family
                     /\ rows[j].family = f => ~Live(j)'
                     /\ rows[j].family # f => rows'[j] = rows[j]
  BY <1>3, <1>4, <1>5 DEF RevokeFamily, Revoking, Live, Unrevoked, IInv, TypeOK, Row
<1>7. LiveAfter(f) = {} /\ \A g \in Jti : g # f => LiveAfter(g) = LiveIn(g)
  BY <1>6 DEF LiveIn, LiveAfter, Live
<1> QED
  BY <1>2, <1>4, <1>5, <1>7, RevokingCloses

\* RevokeRefreshToken of a live token closes its session.
LEMMA LogoutCommitCloses ==
    ASSUME IInv, NEW r \in Req, LogoutCommit(r)
    PROVE  S!Next \/ UNCHANGED S!vars
<1> USE ConstantsAssumption
<1> DEFINE t == req[r].tok
           f == rows[t].family
<1>1. t \in Jti /\ Present(t)
  BY DEF LogoutCommit, IInv, LocalsOK, LocalOK, LogoutPc
<1>2. f \in Jti /\ rows[f].family = f
  BY <1>1 DEF IInv, TableOK
<1>3. Revoking /\ UNCHANGED <<users, claims>>
  BY LogoutCommitRevokes DEF LogoutCommit
<1>4. CASE Live(t)
  <2>1. \A j \in Jti : Live(j) /\ rows[j].family = f => j = t
    BY <1>1, <1>4 DEF IInv, OneLivePerFamily
  <2>2. /\ rows'[t].reason = "logout" /\ rows'[t].family = f
        /\ \A j \in Jti : j # t => rows'[j] = rows[j]
    <3>1. rows \in [Jti -> Row] /\ rows[t] \in Row /\ rows[t].reason \in Unrevoked
      BY <1>1, <1>4 DEF IInv, TypeOK, Live
    <3>2. rows' = [rows EXCEPT ![t] = [rows[t] EXCEPT !.reason = "logout",
                                                      !.replaced_by = None]]
      BY <3>1 DEF LogoutCommit, RevokeByJTI
    <3> QED
      BY <1>1, <3>1, <3>2 DEF Row
  <2>3. \A j \in Jti : rows'[j].reason \in Unrevoked /\ rows'[j].family = f => FALSE
    BY <2>1, <2>2 DEF Live, Unrevoked
  <2>4. LiveAfter(f) = {}
    BY <2>3 DEF LiveAfter
  <2>5. ASSUME NEW g \in Jti, g # f PROVE LiveAfter(g) = LiveIn(g)
    <3>1. \A j \in Jti : rows'[j].reason \in Unrevoked /\ rows'[j].family = g
                          <=> rows[j].reason \in Unrevoked /\ rows[j].family = g
      BY <1>1, <2>2, <2>5
    <3> QED
      BY <3>1 DEF LiveAfter, LiveIn, Live
  <2> QED
    BY <1>2, <1>3, <2>4, <2>5, RevokingCloses
<1>5. CASE ~Live(t)
  <2>1. rows' = rows
    BY <1>1, <1>5 DEF LogoutCommit, RevokeByJTI, Live, IInv, TypeOK
  <2> QED
    BY <1>3, <2>1, RefinementStutter
<1> QED
  BY <1>4, <1>5

\* UpdateUserPassword closes every session of its user.
LEMMA PasswordCommitCloses ==
    ASSUME IInv, NEW r \in Req, PasswordCommit(r)
    PROVE  S!Next
<1> DEFINE u == req[r].user
<1>1. u \in User
  BY DEF PasswordCommit, IInv, LocalsOK, LocalOK, AccessPc
<1>2. rows' = RevokeAllByUserID(u) /\ UNCHANGED claims
  BY DEF PasswordCommit
<1>3. Revoking
  BY PasswordCommitRevokes
<1>4. /\ rows \in [Jti -> Row]
      /\ \A j \in Jti : /\ rows'[j].family = rows[j].family
                        /\ rows[j].user = u => rows'[j].reason \notin Unrevoked
                        /\ rows[j].user # u => rows'[j] = rows[j]
  BY <1>2, <1>3 DEF RevokeAllByUserID, Revoking, Live, Unrevoked, IInv, TypeOK, Row
<1>5. \A j, f \in Jti : Present(j) /\ rows[j].family = f => rows[j].user = rows[f].user
  BY DEF IInv, TableOK, SameFamily
<1>6. ASSUME NEW j \in Jti, rows'[j].reason \in Unrevoked PROVE Present(j)
  BY <1>3, <1>6 DEF Revoking, Live, Present, Unrevoked
<1>7. ASSUME NEW f \in Jti, rows[f].family = f, rows[f].user = u PROVE LiveAfter(f) = {}
  <2>1. ASSUME NEW j \in Jti, rows'[j].reason \in Unrevoked, rows'[j].family = f
        PROVE  FALSE
    <3>1. Present(j) /\ rows[j].family = f
      BY <1>4, <1>6, <2>1
    <3>2. rows[j].user = u
      BY <1>5, <1>7, <3>1
    <3> QED
      BY <1>4, <2>1, <3>2
  <2> QED
    BY <2>1 DEF LiveAfter
<1>8. ASSUME NEW f \in Jti, rows[f].family = f, rows[f].user # u
      PROVE  LiveAfter(f) = LiveIn(f)
  <2>1. ASSUME NEW j \in Jti
        PROVE  rows'[j].reason \in Unrevoked /\ rows'[j].family = f
                  <=> rows[j].reason \in Unrevoked /\ rows[j].family = f
    <3>1. rows'[j].family = rows[j].family
      BY <1>4
    <3>2. CASE rows[j].family = f /\ Present(j)
      <4>1. rows[j].user # u
        BY <1>5, <1>8, <3>2
      <4> QED
        BY <1>4, <4>1
    <3>3. CASE rows[j].family = f /\ ~Present(j)
      BY <1>6, <3>3 DEF Present, Unrevoked
    <3> QED
      BY <3>1, <3>2, <3>3
  <2> QED
    BY <2>1 DEF LiveAfter, LiveIn, Live
<1>9. Session' = [f \in Jti |-> IF Session[f].user = u
                               THEN [Session[f] EXCEPT !.usable = {}]
                               ELSE Session[f]]
  <2>1. ASSUME NEW f \in Jti
        PROVE  Session'[f] = IF Session[f].user = u
                             THEN [Session[f] EXCEPT !.usable = {}]
                             ELSE Session[f]
    <3>1. CASE rows[f].family # f
      <4>1. Session'[f] = Session[f] /\ Session[f] = S!NoSession
        BY <1>2, <1>3, <3>1, RevokingSessions, SessionNow
      <4>2. Session[f].user # u
        BY <1>1, <4>1, ConstantsAssumption DEF S!NoSession
      <4> QED
        BY <4>1, <4>2
    <3>2. CASE rows[f].family = f
      <4>1. /\ Session[f] = [user |-> rows[f].user, version |-> claims[f].auth_version,
                             usable |-> LiveIn(f)]
            /\ Session'[f] = [user |-> rows[f].user, version |-> claims[f].auth_version,
                              usable |-> LiveAfter(f)]
        BY <1>2, <1>3, <3>2, RevokingSessions, SessionNow
      <4>2. Session[f].user = rows[f].user
        BY <3>2, SessionFields
      <4>3. CASE rows[f].user = u
        <5>1. Session'[f] = [user |-> rows[f].user, version |-> claims[f].auth_version,
                             usable |-> {}]
          BY <1>7, <3>2, <4>1, <4>3
        <5>2. Session'[f] = [Session[f] EXCEPT !.usable = {}]
          BY <4>1, <5>1, UsableReplaced
        <5> QED
          BY <4>2, <4>3, <5>2
      <4>4. CASE rows[f].user # u
        BY <1>8, <3>2, <4>1, <4>2, <4>4
      <4> QED
        BY <4>3, <4>4
    <3> QED
      BY <3>1, <3>2
  <2> QED
    BY <2>1, SessionIsFunction
<1>10. Issued' = Issued
  BY <1>2, <1>3, RevokingSessions
<1>11. Account' = [Account EXCEPT ![u].version = @ + 1]
  <2>1. users' = [users EXCEPT ![u].password = req[r].new, ![u].auth_version = @ + 1]
    BY DEF PasswordCommit, UpdateUserPasswordByUserID
  <2>2. \A w \in User : /\ users'[w].status = users[w].status
                        /\ users'[w].auth_version = IF w = u THEN users[u].auth_version + 1
                                                    ELSE users[w].auth_version
    BY <1>1, <2>1 DEF IInv, TypeOK
  <2> QED
    BY <1>1, <2>2 DEF Account
<1>12. S!ChangePassword(u)
  BY <1>9, <1>10, <1>11 DEF S!ChangePassword
<1> QED
  BY <1>1, <1>12 DEF S!Next

\* UserDisabled disables the account and touches no session.
LEMMA UserDisabledDisables ==
    ASSUME IInv, NEW u \in User, UserDisabled(u)
    PROVE  S!Next
<1>1. UNCHANGED <<rows, claims>>
  BY DEF UserDisabled
<1>2. Issued' = Issued /\ Session' = Session
  BY <1>1 DEF Issued, Session, LiveIn, Present, Live
<1>3. Account' = [Account EXCEPT ![u].active = FALSE]
  <2>1. \A w \in User : /\ users'[w].auth_version = users[w].auth_version
                        /\ users'[w].status = IF w = u THEN "disabled" ELSE users[w].status
    BY DEF UserDisabled, IInv, TypeOK
  <2> QED
    BY <2>1 DEF Account
<1> QED
  BY <1>2, <1>3 DEF S!Disable, S!Next

\* The clock passing expires_at leaves the sessions as they are: a lapsed token is
\* refused, but its session counts as open until somebody closes it.
LEMMA ExpireStutters ==
    ASSUME IInv, NEW e \in Jti, Expire(e)
    PROVE  UNCHANGED S!vars
<1>1. Revoking /\ \A j \in Jti : Live(j) => Live(j)'
  BY ExpireRevokes
<1>2. UNCHANGED <<users, claims>>
  BY DEF Expire
<1>3. ASSUME NEW f \in Jti PROVE LiveAfter(f) = LiveIn(f)
  <2>1. ASSUME NEW j \in Jti
        PROVE  rows'[j].reason \in Unrevoked /\ rows'[j].family = f
                  <=> rows[j].reason \in Unrevoked /\ rows[j].family = f
    BY <1>1 DEF Revoking, Live, Unrevoked
  <2> QED
    BY <2>1 DEF LiveAfter, LiveIn, Live
<1>4. Issued' = Issued /\ Account' = Account
  BY <1>1, <1>2, RevokingSessions DEF Account
<1>5. \A f \in Jti : Session'[f] = Session[f]
  BY <1>1, <1>2, <1>3, RevokingSessions, SessionNow
<1>6. Session' = Session
  BY <1>5, SessionIsFunction
<1> QED
  BY <1>4, <1>6 DEF S!vars

\* Every step of the tables and requests is a step of the sessions, or none.
LEMMA RefinementStep ==
    ASSUME IInv, VInv, [Next]_vars
    PROVE  [S!Next]_(S!vars)
<1>1. CASE UNCHANGED vars
  BY <1>1, RefinementStutter DEF vars
<1>2. ASSUME NEW r \in Req, Begin(r) PROVE UNCHANGED S!vars
  BY <1>2, RefinementStutter
     DEF Begin, Login, AccessBegin, RefreshBegin, LogoutBegin, db
<1>3. ASSUME NEW r \in Req, Fail(r) PROVE UNCHANGED S!vars
  BY <1>3, RefinementStutter DEF Fail, db
<1>4. ASSUME NEW r \in Req, Step(r) PROVE S!Next \/ UNCHANGED S!vars
  <2>1. CASE \/ LoginTouch(r) \/ ValidateUser(r) \/ ValidateStore(r)
             \/ RefreshLockUser(r) \/ RefreshLockToken(r) \/ LogoutLockToken(r)
             \/ Return(r)
    BY <2>1, RefinementStutter
       DEF LoginTouch, ValidateUser, ValidateStore, RefreshLockUser, RefreshLockToken,
           LogoutLockToken, Return, db
  <2>2. CASE \E old, new \in Password : PasswordLock(r, old, new)
    BY <2>2, RefinementStutter DEF PasswordLock, db
  <2>3. CASE \E a \in Jti \cup {None} : LogoutAccess(r, a)
    BY <2>3, RefinementStutter DEF LogoutAccess
  <2> QED
    BY <1>4, <2>1, <2>2, <2>3, LoginStoreOpens, PasswordCommitCloses,
       RefreshRotateExchanges, RefreshReplayCloses, LogoutCommitCloses DEF Step
<1>5. ASSUME NEW u \in User, UserDisabled(u) PROVE S!Next
  BY <1>5, UserDisabledDisables
<1>6. ASSUME NEW j \in Jti, Expire(j) PROVE UNCHANGED S!vars
  BY <1>6, ExpireStutters
<1> QED
  BY <1>1, <1>2, <1>3, <1>4, <1>5, <1>6 DEF Next

\* The transactions, locks and conditional updates of AuthService and UserService
\* implement the session promises of module Sessions, for every number of users,
\* tokens, replicas and concurrent requests.
THEOREM RefinementCorrect == Spec => ImplementsSessions
<1>1. Init => IInv /\ VInv
  BY InitInv, VersionsInit
<1>2. (IInv /\ VInv) /\ [Next]_vars => (IInv /\ VInv)'
  BY Inductive, VersionsStep
<1>3. (IInv /\ VInv) /\ [Next]_vars => [S!Next]_(S!vars)
  BY RefinementStep
<1> QED
  BY <1>1, <1>2, <1>3, RefinementInit, PTL DEF Spec, ImplementsSessions, S!Spec

=============================================================================
