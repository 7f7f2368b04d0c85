---------------------------- MODULE BrowserClient ---------------------------
(***************************************************************************)
(* The browser's side of a session: the tabs of one browser, each with the *)
(* page's Redux store and API client (frontend/src), over the cookie they  *)
(* share and a network that delays and loses requests and answers.  The    *)
(* backend is module Sessions, the contract that AuthSessions implements:  *)
(* the requests that reach it take its steps.                              *)
(*                                                                         *)
(* The browser attaches the cookie when it sends a request and applies     *)
(* Set-Cookie when the answer arrives.  Reloading a page drops its store   *)
(* and its requests and releases its Web Lock; the backend may still       *)
(* handle a request whose answer nobody reads.  Any call may be refused    *)
(* with 401, since access tokens expire at any time.                       *)
(***************************************************************************)
EXTENDS Sessions, FiniteSets

CONSTANTS
    Tab,        \* tabs of one browser
    Call,       \* calls of a page through privateApi, at most one of each kind
    Authorize,  \* the one of them that is getMyAuthorization
    WebLocks,   \* whether the browser has navigator.locks
    MaxEvents   \* bound on the number of reloads and of sessions ended elsewhere

ASSUME BrowserAssumption ==
    /\ Authorize \in Call
    /\ WebLocks \in BOOLEAN
    /\ MaxEvents \in Nat
    /\ None \notin Tab \cup Jti \cup User
    /\ Jti # {}

VARIABLES
    family,     \* the session a token was issued in
    cookie,     \* the cookie refresh_token
    lock,       \* the holder of the Web Lock "go-user-system:refresh-token"
    tab,        \* the pages
    orphans,    \* tokens in refresh requests nobody waits for any more
    events,     \* number of those so far
    lost,       \* history: sessions with a refresh whose answer was not read
    replayed,   \* history: sessions closed as replayed that had lost no answer
    calm,       \* history: tabs logging out with no refresh or login meanwhile
    out         \* history: the last such logout, if nobody has signed in since

backend == <<account, issued, session, family>>
browser == <<cookie, lock, tab, orphans, events>>
history == <<lost, replayed, calm, out>>
allVars == <<backend, browser, history>>

\* A page: authSlice's status, and whether there is an accessToken; what the page
\* is doing (AuthBootstrap restoring the session and loading the user, the login
\* page fetching the authorization or leaving again); its calls; its pending
\* refresh, login and logout, each with the refresh token it sent or received.
Page ==
    [status : {"initializing", "authenticated", "anonymous"},
     token : BOOLEAN,
     doing : {"none", "restoring", "loading", "authorizing", "leaving"},
     call : [Call -> {"idle", "sent", "waiting", "retried"}],
     refresh : {"none", "queued", "sent", "granted"},
     login : {"none", "granted"},
     logout : {"none", "sent", "granted"},
     tok : Jti \cup {None},    \* of the refresh
     new : Jti \cup {None},    \* of the login
     old : Jti \cup {None}]    \* of the logout

\* AuthBootstrap starts to restore the session as soon as the page is there.
NewPage ==
    [status |-> "initializing", token |-> FALSE, doing |-> "restoring",
     call |-> [c \in Call |-> "idle"], refresh |-> "queued", login |-> "none",
     logout |-> "none", tok |-> None, new |-> None, old |-> None]

NoLogout == [tab |-> None, tok |-> None]

\* Type correctness.
BrowserTypeOK ==
    /\ family \in [Jti -> Jti \cup {None}]
    /\ cookie \in Jti \cup {None}
    /\ lock \in Tab \cup {None}
    /\ tab \in [Tab -> Page]
    /\ orphans \in SUBSET Jti
    /\ events \in 0..MaxEvents
    /\ lost \in SUBSET Jti /\ replayed \in SUBSET Jti
    /\ calm \in SUBSET Tab
    /\ out \in [tab : Tab, tok : Jti] \cup {NoLogout}

\* Tokens never issued are interchangeable: the next one.
Fresh == CHOOSE n \in Jti : n \notin issued

Usable(j) == j # None /\ j \in session[family[j]].usable

\* No answer with a new cookie is on its way to this browser.
Quiet ==
    \A t \in Tab : tab[t].refresh \notin {"sent", "granted"} /\ tab[t].login = "none"

-----------------------------------------------------------------------------
(* The reducers of authSlice, and the end of a call. *)

sessionStarted(p)  == [p EXCEPT !.status = "authenticated", !.token = TRUE]
sessionRestored(p) == [p EXCEPT !.status = "authenticated", !.doing = "none"]
tokenRefreshed(p)  == [p EXCEPT !.token = TRUE]

\* Once the status is no longer initializing, AuthBootstrap has stopped.
sessionCleared(p) ==
    [p EXCEPT !.status = "anonymous", !.token = FALSE,
              !.doing = IF @ \in {"restoring", "loading"} THEN "none" ELSE @]

Idle(p, cs) == [p EXCEPT !.call = [c \in Call |-> IF c \in cs THEN "idle" ELSE @[c]]]

\* The calls cs fail: AuthBootstrap clears the session; the login page clears it
\* and logs out again, with the cookie k of that moment.
Failed(p, cs, k) ==
    LET q == Idle(p, cs) IN
    CASE q.doing = "loading" -> sessionCleared(q)
      [] q.doing = "authorizing" /\ Authorize \in cs ->
            [sessionCleared(q) EXCEPT !.doing = "leaving", !.logout = "sent",
                                      !.old = k]
      [] OTHER -> q

\* Call c succeeds: Promise.all waits for both calls of AuthBootstrap.
Succeeded(p, c) ==
    LET q == Idle(p, {c}) IN
    CASE q.doing = "loading" /\ \A d \in Call : q.call[d] = "idle" ->
            sessionRestored(q)
      [] q.doing = "authorizing" /\ c = Authorize ->
            [q EXCEPT !.doing = "none"]
      [] OTHER -> q

-----------------------------------------------------------------------------
(* refreshAccessToken: one pending refresh per page, under the Web Lock.   *)

refreshAccessToken(p) ==
    IF p.refresh = "none" THEN [p EXCEPT !.refresh = "queued"] ELSE p

RefreshSendUnlocked(t) ==
    /\ tab[t].refresh = "queued"
    /\ tab' = [tab EXCEPT ![t].refresh = "sent", ![t].tok = cookie]
    /\ calm' = {}
    /\ UNCHANGED <<backend, cookie, lock, orphans, events, lost, replayed, out>>

\* performRefresh sends the request once the lock is granted.
RefreshSend(t) ==
    /\ tab[t].refresh = "queued"
    /\ WebLocks => lock = None
    /\ lock' = IF WebLocks THEN t ELSE lock
    /\ tab' = [tab EXCEPT ![t].refresh = "sent", ![t].tok = cookie]
    /\ calm' = {}
    /\ UNCHANGED <<backend, cookie, orphans, events, lost, replayed, out>>

\* The backend on a refresh with token j: exchange it for n, or close its session
\* because j has been exchanged before; other refusals change nothing.
Exchanged(j, n) ==
    /\ Usable(j) /\ issued # Jti
    /\ Exchange(family[j], n)
    /\ family' = [family EXCEPT ![n] = family[j]]
    /\ UNCHANGED replayed

Replayed(j) ==
    /\ j # None /\ ~Usable(j)
    /\ Close(family[j])
    /\ replayed' = replayed \cup ({family[j]} \ lost)
    /\ UNCHANGED family

RefreshServed(t) ==
    LET j == tab[t].tok IN
    /\ tab[t].refresh = "sent"
    /\ \/ /\ Exchanged(j, Fresh)
          /\ tab' = [tab EXCEPT ![t].refresh = "granted", ![t].tok = Fresh]
       \/ Replayed(j) /\ UNCHANGED tab
    /\ UNCHANGED <<cookie, lock, orphans, events, lost, calm, out>>

\* A request nobody waits for reaches the backend, if it ever does.
OrphanServed(j) ==
    /\ j \in orphans
    /\ Exchanged(j, Fresh) \/ Replayed(j)
    /\ orphans' = orphans \ {j}
    /\ UNCHANGED <<cookie, lock, tab, events, lost, calm, out>>

\* The refresh under way in page p will not be read: its session has lost an
\* answer, and a request not yet handled is still on its way.
Abandon(p) ==
    /\ orphans' = IF p.refresh = "sent" THEN orphans \cup ({p.tok} \ {None}) ELSE orphans
    /\ lost' = IF p.refresh \in {"sent", "granted"} /\ p.tok # None
               THEN lost \cup {family[p.tok]} ELSE lost

ReleaseLock(t) == lock' = IF lock = t THEN None ELSE lock

\* The answer arrives: the new cookie and access token; whoever waited goes on.
\* The interceptor retries its call, AuthBootstrap loads user and authorization.
RefreshGranted(t) ==
    LET p == tokenRefreshed(tab[t]) IN
    /\ tab[t].refresh = "granted"
    /\ cookie' = tab[t].tok
    /\ tab' = [tab EXCEPT ![t] =
                 [p EXCEPT !.refresh = "none", !.tok = None,
                    !.doing = IF @ = "restoring" THEN "loading" ELSE @,
                    !.call = [c \in Call |->
                                CASE p.doing = "restoring" -> "sent"
                                  [] p.call[c] = "waiting" -> "retried"
                                  [] OTHER -> p.call[c]]]]
    /\ ReleaseLock(t)
    /\ UNCHANGED <<backend, orphans, events, history>>

Waiting(p) == {c \in Call : p.call[c] = "waiting"}

\* The backend refuses token j: it is not usable and its session, if it has one,
\* closed; or the backend fails, as it does once every token is issued.
Refusal(j) == j # None /\ issued # Jti => session[family[j]].usable = {}

\* A refresh that brings nothing: no cookie was sent, or one that has expired and
\* does not parse, and the answer clears it; the token is refused, and the cookie
\* stays; the connection breaks.
NotGranted(t) ==
    LET j == tab[t].tok IN
    \/ /\ tab[t].refresh = "sent"
       /\ cookie' = None
       /\ UNCHANGED <<orphans, lost>>
    \/ /\ tab[t].refresh = "sent" /\ j # None /\ Refusal(j)
       /\ UNCHANGED <<cookie, orphans, lost>>
    \/ /\ tab[t].refresh \in {"sent", "granted"}
       /\ Abandon(tab[t])
       /\ UNCHANGED cookie

RefreshRefusedSilently(t) ==
    LET p == [tab[t] EXCEPT !.refresh = "none", !.tok = None] IN
    /\ NotGranted(t)
    /\ tab' = [tab EXCEPT ![t] = Failed(p, Waiting(p), cookie')]
    /\ ReleaseLock(t)
    /\ UNCHANGED <<backend, events, replayed, calm, out>>

\* The interceptor clears the session before the waiting calls fail; AuthBootstrap
\* clears it too.
RefreshRefused(t) ==
    LET p == [tab[t] EXCEPT !.refresh = "none", !.tok = None] IN
    /\ NotGranted(t)
    /\ tab' = [tab EXCEPT ![t] =
                 IF p.doing = "restoring" \/ Waiting(p) # {}
                 THEN Failed(sessionCleared(p), Waiting(p), cookie')
                 ELSE p]
    /\ ReleaseLock(t)
    /\ UNCHANGED <<backend, events, replayed, calm, out>>

-----------------------------------------------------------------------------
(* Calls of privateApi and their response interceptor. *)

CallBegin(t, c) ==
    /\ tab[t].status = "authenticated" /\ tab[t].doing = "none"
    /\ tab[t].call[c] = "idle"
    /\ tab' = [tab EXCEPT ![t].call[c] = "sent"]
    /\ UNCHANGED <<backend, cookie, lock, orphans, events, history>>

\* 401 for the first time: wait for a refresh, the pending one if there is one.
CallUnauthorized(t, c) ==
    LET p == tab[t] IN
    /\ p.call[c] = "sent"
    /\ tab' = [tab EXCEPT ![t] = refreshAccessToken([p EXCEPT !.call[c] = "waiting"])]
    /\ UNCHANGED <<backend, cookie, lock, orphans, events, history>>

\* A success; or another error, or 401 after the retry.
CallEnds(t, c) ==
    /\ tab[t].call[c] \in {"sent", "retried"}
    /\ \/ tab' = [tab EXCEPT ![t] = Succeeded(tab[t], c)]
       \/ tab' = [tab EXCEPT ![t] = Failed(tab[t], {c}, cookie)]
    /\ UNCHANGED <<backend, cookie, lock, orphans, events, history>>

-----------------------------------------------------------------------------
(* The login page. *)

\* The form is submitted and the backend opens a session; a login that is
\* refused leaves nothing behind.
LoginServed(t) ==
    /\ tab[t].status = "anonymous"
    /\ tab[t].doing = "none" /\ tab[t].login = "none" /\ tab[t].logout = "none"
    /\ \A c \in Call : tab[t].call[c] = "idle"
    /\ issued # Jti
    /\ \E u \in User : Open(Fresh, u, account[u].version)
    /\ family' = [family EXCEPT ![Fresh] = Fresh]
    /\ tab' = [tab EXCEPT ![t].login = "granted", ![t].new = Fresh]
    /\ calm' = {}
    /\ out' = NoLogout
    /\ UNCHANGED <<cookie, lock, orphans, events, lost, replayed>>

\* The answer arrives: its cookie, sessionStarted, and the next request.
LoginGranted(t) ==
    /\ tab[t].login = "granted"
    /\ cookie' = tab[t].new
    /\ tab' = [tab EXCEPT ![t] =
                 [sessionStarted(@) EXCEPT
                    !.login = "none", !.new = None, !.doing = "authorizing",
                    !.call[Authorize] = "sent"]]
    /\ UNCHANGED <<backend, lock, orphans, events, history>>

\* The answer is lost: the session is opened for nobody.
LoginFails(t) ==
    /\ tab[t].login = "granted"
    /\ tab' = [tab EXCEPT ![t].login = "none", ![t].new = None]
    /\ UNCHANGED <<backend, cookie, lock, orphans, events, history>>

-----------------------------------------------------------------------------
(* Logout: the navbar's handleLogout; the request of a login page that     *)
(* leaves again goes on with the same steps.                               *)

LogoutSend(t) ==
    /\ tab[t].status = "authenticated"
    /\ tab[t].logout = "none" /\ tab[t].doing = "none"
    /\ tab' = [tab EXCEPT ![t].logout = "sent", ![t].old = cookie]
    /\ calm' = IF Quiet THEN calm \cup {t} ELSE calm
    /\ UNCHANGED <<backend, cookie, lock, orphans, events, lost, replayed, out>>

LogoutServedLocally(t) ==
    /\ tab[t].logout = "sent" /\ tab[t].old # None
    /\ tab' = [tab EXCEPT ![t].logout = "granted"]
    /\ UNCHANGED <<backend, cookie, lock, orphans, events, history>>

LogoutServedUnchecked(t) ==
    LET j == tab[t].old IN
    /\ tab[t].logout = "sent"
    /\ tab' = [tab EXCEPT ![t].logout = "granted"]
    /\ IF Usable(j) THEN Close(family[j]) ELSE UNCHANGED <<account, issued, session>>
    /\ UNCHANGED <<family, cookie, lock, orphans, events, history>>

\* A token that is no longer usable counts as logged out.
LogoutServed(t) ==
    LET j == tab[t].old IN
    /\ tab[t].logout = "sent" /\ j # None
    /\ tab' = [tab EXCEPT ![t].logout = "granted"]
    /\ IF Usable(j) THEN Close(family[j]) ELSE UNCHANGED <<account, issued, session>>
    /\ UNCHANGED <<family, cookie, lock, orphans, events, history>>

\* The navbar clears the local session whatever the answer is.
LoggedOut(p) ==
    LET q == [p EXCEPT !.logout = "none", !.old = None] IN
    IF p.doing = "leaving" THEN [q EXCEPT !.doing = "none"] ELSE sessionCleared(q)

\* The answer arrives, and the cookie goes.
LogoutDone(t) ==
    /\ tab[t].logout = "granted"
    /\ cookie' = None
    /\ tab' = [tab EXCEPT ![t] = LoggedOut(@)]
    /\ out' = IF t \in calm THEN [tab |-> t, tok |-> tab[t].old] ELSE out
    /\ calm' = calm \ {t}
    /\ UNCHANGED <<backend, lock, orphans, events, lost, replayed>>

\* No cookie was sent, or an expired one, and the answer clears it; another error (an
\* access token of another account, the backend fails), or a lost answer.
LogoutFails(t) ==
    /\ \/ tab[t].logout = "sent" /\ cookie' = None
       \/ tab[t].logout \in {"sent", "granted"} /\ UNCHANGED cookie
    /\ tab' = [tab EXCEPT ![t] = LoggedOut(@)]
    /\ calm' = calm \ {t}
    /\ UNCHANGED <<backend, lock, orphans, events, lost, replayed, out>>

-----------------------------------------------------------------------------
(* The user and the rest of the world. *)

\* The page is loaded again, or its tab closed and another one opened.
Reload(t) ==
    /\ events < MaxEvents
    /\ events' = events + 1
    /\ Abandon(tab[t])
    /\ tab' = [tab EXCEPT ![t] = NewPage]
    /\ ReleaseLock(t)
    /\ calm' = calm \ {t}
    /\ UNCHANGED <<backend, cookie, replayed, out>>

\* A session ends for another reason: a password change elsewhere, or a logout
\* that reaches the backend after its page is gone.
EndedElsewhere(f) ==
    /\ events < MaxEvents
    /\ events' = events + 1
    /\ Close(f)
    /\ UNCHANGED <<family, cookie, lock, tab, orphans, history>>

-----------------------------------------------------------------------------

\* The browser is opened with the cookie of a session from the day before.
BrowserInit ==
    /\ account = [u \in User |-> [active |-> TRUE, version |-> 1]]
    /\ \E u \in User :
          LET j == CHOOSE n \in Jti : TRUE IN
          /\ issued = {j}
          /\ session = [f \in Jti |->
                          IF f = j THEN [user |-> u, version |-> 1, usable |-> {j}]
                          ELSE NoSession]
          /\ family = [n \in Jti |-> IF n = j THEN j ELSE None]
          /\ cookie = j
    /\ lock = None
    /\ tab = [t \in Tab |-> NewPage]
    /\ orphans = {}
    /\ events = 0
    /\ lost = {} /\ replayed = {}
    /\ calm = {}
    /\ out = NoLogout

\* What happens to a request: it is handled, it fails, its answer arrives.
RefreshStep(t) == RefreshServed(t) \/ RefreshGranted(t) \/ RefreshRefused(t)
CallStep(t, c) == CallUnauthorized(t, c) \/ CallEnds(t, c)
LoginStep(t)   == LoginGranted(t) \/ LoginFails(t)
LogoutStep(t)  == LogoutServed(t) \/ LogoutFails(t) \/ LogoutDone(t)

\* What the user does.
UserStep(t) ==
    \/ \E c \in Call : CallBegin(t, c)
    \/ LoginServed(t) \/ LogoutSend(t) \/ Reload(t)

BrowserNext ==
    \/ \E t \in Tab :
          \/ RefreshSend(t) \/ RefreshStep(t)
          \/ \E c \in Call : CallStep(t, c)
          \/ LoginStep(t) \/ LogoutStep(t) \/ UserStep(t)
    \/ \E j \in Jti : OrphanServed(j) \/ EndedElsewhere(j)

BrowserSpec == BrowserInit /\ [][BrowserNext]_allVars

\* A refresh or a call is answered or fails (the backend bounds its handlers with
\* a timeout), and a Web Lock that stays free is granted.  Nothing is assumed of
\* the user, of logins and logouts, or of how often requests succeed.
BrowserFairness ==
    \A t \in Tab :
        /\ WF_allVars(RefreshSend(t) \/ RefreshStep(t))
        /\ \A c \in Call : WF_allVars(CallStep(t, c))

BrowserFairSpec == BrowserSpec /\ BrowserFairness

-----------------------------------------------------------------------------
(* Correctness. *)

\* With Web Locks the tabs of one browser never present a refresh token twice of
\* their own accord (refresh-coordinator.ts): a session is closed as replayed
\* only after an answer with a successor was lost, or the page that asked was gone.
ReplayOnlyAfterLoss == WebLocks => replayed = {}

\* A logout that reports success, with no refresh or login of this browser under
\* way meanwhile, lasts until somebody signs in: whatever calls and refreshes of
\* any tab still run, the cookie is not usable again, the tab has no access
\* token, and the session is closed, unless its only usable token is one that
\* was lost on the way to this browser.
LoggedOutStaysOut ==
    out # NoLogout =>
        /\ ~Usable(cookie)
        /\ ~tab[out.tab].token
        /\ session[family[out.tok]].usable = {} \/ family[out.tok] \in lost

\* A page that restores its session, or has a call that waits for a refresh.
Pending(t) ==
    tab[t].status = "initializing" \/ \E c \in Call : tab[t].call[c] = "waiting"

\* A page does not stay at "Restoring session", and a call refused with 401 is
\* retried once or fails: no refresh is awaited for ever (the interceptor of
\* client.ts, AuthBootstrap), also when the page whose refresh holds the Web
\* Lock goes away.
PageGoesOn == \A t \in Tab : Pending(t) ~> ~Pending(t)

=============================================================================
