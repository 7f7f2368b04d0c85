------------------------ MODULE BrowserClient_proofs ------------------------
(* Proofs about the browser's side of a session, for any number of tabs,      *)
(* tokens, users and calls: type correctness; with Web Locks the tabs of one  *)
(* browser do not present a refresh token twice; a logout that met no refresh *)
(* and no login lasts until somebody signs in, with or without Web Locks.     *)
EXTENDS BrowserClient, TLAPS

-----------------------------------------------------------------------------
(* The inductive invariant. *)

\* The backend: the account of every user; every token that was issued belongs to a
\* session that was opened.
BackendOK ==
    /\ account \in [User -> [active : BOOLEAN, version : Nat \ {0}]]
    /\ session \in [Jti -> [user : User \cup {None}, version : Nat, usable : SUBSET Jti]]
    /\ issued \in SUBSET Jti
    /\ \A j \in issued : family[j] \in issued

\* What the browser holds was issued; an answer with a token has one.
HeldOK ==
    /\ cookie \in issued \cup {None}
    /\ orphans \in SUBSET issued
    /\ \A t \in Tab :
          /\ tab[t].tok \in issued \cup {None}
          /\ tab[t].new \in issued \cup {None}
          /\ tab[t].old \in issued \cup {None}
          /\ tab[t].refresh = "granted" => tab[t].tok # None
          /\ tab[t].login = "granted" => tab[t].new # None
          /\ tab[t].logout = "granted" => tab[t].old # None

\* If a token of j's session is usable, it is j.
Bound(j) == session[family[j]].usable \subseteq {j}

IsLost(j) == family[j] \in lost
IsClosed(j) == session[family[j]].usable = {}

\* A token that is only in one place: an answer nobody has read yet.
Unread(n) ==
    /\ n # cookie /\ n \notin orphans /\ Bound(n)
    /\ \A s \in Tab : tab[s].refresh = "sent" => tab[s].tok # n

AnswersOK ==
    /\ \A t \in Tab : tab[t].refresh = "granted" => Unread(tab[t].tok)
    /\ \A t \in Tab : tab[t].login = "granted" => Unread(tab[t].new)
    /\ \A s, t \in Tab :
          /\ tab[s].refresh = "granted" /\ tab[t].login = "granted" =>
                tab[s].tok # tab[t].new
          /\ s # t /\ tab[s].refresh = "granted" /\ tab[t].refresh = "granted" =>
                tab[s].tok # tab[t].tok
          /\ s # t /\ tab[s].login = "granted" /\ tab[t].login = "granted" =>
                tab[s].new # tab[t].new

\* The cookie is the usable token of its session, unless a newer one is on its way
\* or was lost.
CookieOK ==
    cookie # None =>
        \/ IsLost(cookie) \/ Bound(cookie)
        \/ \E t \in Tab : tab[t].refresh = "granted" /\ family[tab[t].tok] = family[cookie]

\* With Web Locks one page refreshes at a time, with the usable token.
LocksOK ==
    WebLocks =>
        /\ \A t \in Tab : tab[t].refresh \in {"sent", "granted"} => lock = t
        /\ \A t \in Tab : tab[t].refresh = "sent" /\ tab[t].tok # None =>
              IsLost(tab[t].tok) \/ Bound(tab[t].tok)
        /\ replayed = {}

OrphansOK == \A j \in orphans : IsLost(j)

\* A logout with nothing else under way: its token is the usable one; once it was
\* handled there is none.
CalmPage(t) ==
    /\ Quiet /\ tab[t].doing = "none" /\ tab[t].logout \in {"sent", "granted"}
    /\ tab[t].old # None => IsLost(tab[t].old) \/ Bound(tab[t].old)
    /\ tab[t].logout = "granted" => IsLost(tab[t].old) \/ IsClosed(tab[t].old)

CalmOK == \A t \in calm : CalmPage(t)

\* After such a logout no answer with a token is on its way, and none will be.
OutOK ==
    out # NoLogout =>
        /\ out.tok \in issued
        /\ \A t \in Tab :
              /\ tab[t].refresh # "granted" /\ tab[t].login = "none"
              /\ tab[t].refresh = "sent" => ~Usable(tab[t].tok)
        /\ LoggedOutStaysOut

IInv ==
    /\ BrowserTypeOK /\ BackendOK /\ HeldOK /\ AnswersOK /\ CookieOK /\ LocksOK
    /\ OrphansOK /\ CalmOK /\ OutOK

-----------------------------------------------------------------------------
(* Pages. *)

\* Values that are yes or no, by name.
Flag == BOOLEAN
No   == FALSE

\* A page stays a page when authSlice or AuthBootstrap moves on.
LEMMA StatusPage ==
    ASSUME NEW p \in Page, NEW a \in {"initializing", "authenticated", "anonymous"},
           NEW b \in Flag,
           NEW d \in {"none", "restoring", "loading", "authorizing", "leaving"}
    PROVE  [p EXCEPT !.status = a, !.token = b, !.doing = d] \in Page
  BY ZenonT(40) DEF Page, Flag

\* The page that AuthBootstrap and the interceptor leave when a session is cleared.
LEMMA ClearedPage ==
    ASSUME NEW p \in Page
    PROVE  /\ sessionCleared(p) \in Page
           /\ sessionCleared(p).refresh = p.refresh /\ sessionCleared(p).tok = p.tok
           /\ sessionCleared(p).login = p.login /\ sessionCleared(p).new = p.new
           /\ sessionCleared(p).logout = p.logout /\ sessionCleared(p).old = p.old
           /\ p.doing \in {"none", "restoring", "loading"} => sessionCleared(p).doing = "none"
           /\ p.doing \notin {"none", "restoring", "loading"} =>
                 sessionCleared(p).doing = p.doing
           /\ ~sessionCleared(p).token
<1> DEFINE d == IF p.doing \in {"restoring", "loading"} THEN "none" ELSE p.doing
<1>1. d \in {"none", "restoring", "loading", "authorizing", "leaving"} /\ No \in Flag
  BY DEF Page, No, Flag
<1>2. sessionCleared(p) = [p EXCEPT !.status = "anonymous", !.token = No, !.doing = d]
  BY DEF sessionCleared, No, Page
<1>3. sessionCleared(p) \in Page
  <2> HIDE DEF d
  <2>1. [p EXCEPT !.status = "anonymous", !.token = No, !.doing = d] \in Page
    BY <1>1, StatusPage
  <2> QED
    BY <1>2, <2>1
<1>4. /\ sessionCleared(p).refresh = p.refresh /\ sessionCleared(p).tok = p.tok
      /\ sessionCleared(p).login = p.login /\ sessionCleared(p).new = p.new
      /\ sessionCleared(p).logout = p.logout /\ sessionCleared(p).old = p.old
      /\ sessionCleared(p).doing = d
  BY DEF Page, sessionCleared
<1>5. ~sessionCleared(p).token
  BY DEF Page, sessionCleared
<1> QED
  BY <1>3, <1>4, <1>5

\* A page whose calls have ended is the same otherwise.
LEMMA IdlePage ==
    ASSUME NEW p \in Page, NEW cs
    PROVE  /\ Idle(p, cs) \in Page
           /\ Idle(p, cs).refresh = p.refresh /\ Idle(p, cs).tok = p.tok
           /\ Idle(p, cs).login = p.login /\ Idle(p, cs).new = p.new
           /\ Idle(p, cs).logout = p.logout /\ Idle(p, cs).old = p.old
           /\ Idle(p, cs).doing = p.doing /\ Idle(p, cs).token = p.token
<1>1. Idle(p, cs) \in Page
  BY DEF Page, Idle
<1>2. /\ Idle(p, cs).refresh = p.refresh /\ Idle(p, cs).tok = p.tok
      /\ Idle(p, cs).login = p.login /\ Idle(p, cs).new = p.new
      /\ Idle(p, cs).logout = p.logout /\ Idle(p, cs).old = p.old
      /\ Idle(p, cs).doing = p.doing /\ Idle(p, cs).token = p.token
  BY DEF Page, Idle
<1> QED
  BY <1>1, <1>2

\* A page that goes from p to q by ending calls: its refresh and login are as before,
\* it has no access token it did not have, and it logs out by itself only from the
\* login page, with the token k.
CallsEnd(p, q, k) ==
    /\ q \in Page
    /\ q.refresh = p.refresh /\ q.tok = p.tok /\ q.login = p.login /\ q.new = p.new
    /\ q.token = p.token \/ ~q.token
    /\ \/ q.logout = p.logout /\ q.old = p.old
       \/ q.logout = "sent" /\ q.old = k /\ p.doing # "none"
    /\ p.doing = "none" => q.doing = "none"

\* Calls that fail.
LEMMA FailedPage ==
    ASSUME NEW p \in Page, NEW cs, NEW k \in Jti \cup {None}
    PROVE  CallsEnd(p, Failed(p, cs, k), k)
<1> DEFINE q == Idle(p, cs)
           w == [sessionCleared(q) EXCEPT !.doing = "leaving", !.logout = "sent", !.old = k]
<1>1. /\ q \in Page
      /\ q.refresh = p.refresh /\ q.tok = p.tok
      /\ q.login = p.login /\ q.new = p.new
      /\ q.logout = p.logout /\ q.old = p.old
      /\ q.doing = p.doing /\ q.token = p.token
  BY IdlePage
<1>2. Failed(p, cs, k) = CASE q.doing = "loading" -> sessionCleared(q)
                           [] q.doing = "authorizing" /\ Authorize \in cs -> w
                           [] OTHER -> q
  BY DEF Failed
<1> HIDE DEF q
<1>3. CASE q.doing = "loading"
  <2>1. Failed(p, cs, k) = sessionCleared(q)
    BY <1>2, <1>3
  <2> DEFINE z == sessionCleared(q)
  <2>2. z \in Page /\ z.refresh = q.refresh /\ z.tok = q.tok /\ z.login = q.login
        /\ z.new = q.new /\ z.logout = q.logout /\ z.old = q.old /\ ~z.token
    BY <1>1, ClearedPage
  <2> HIDE DEF z
  <2>3. CallsEnd(p, z, k)
    BY <1>1, <1>3, <2>2 DEF CallsEnd
  <2> QED
    BY <2>1, <2>3 DEF z
<1>4. CASE q.doing = "authorizing" /\ Authorize \in cs
  <2>1. Failed(p, cs, k) = w
    BY <1>2, <1>4
  <2> DEFINE z == sessionCleared(q)
  <2>2. z \in Page /\ z.refresh = q.refresh /\ z.tok = q.tok /\ z.login = q.login
        /\ z.new = q.new /\ ~z.token
    BY <1>1, ClearedPage
  <2>3. w = [z EXCEPT !.doing = "leaving", !.logout = "sent", !.old = k]
    OBVIOUS
  <2> HIDE DEF z, w
  <2>4. ASSUME NEW v, v = [z EXCEPT !.doing = "leaving", !.logout = "sent", !.old = k]
        PROVE  /\ v \in Page /\ v.refresh = z.refresh /\ v.tok = z.tok /\ v.login = z.login
               /\ v.new = z.new /\ v.logout = "sent" /\ v.old = k /\ v.token = z.token
    BY <2>2, <2>4 DEF Page
  <2>5. CallsEnd(p, w, k)
    BY <1>1, <1>4, <2>2, <2>3, <2>4 DEF CallsEnd
  <2> QED
    BY <2>1, <2>5
<1>5. CASE q.doing # "loading" /\ ~(q.doing = "authorizing" /\ Authorize \in cs)
  <2>1. Failed(p, cs, k) = q
    BY <1>2, <1>5
  <2> QED
    BY <1>1, <2>1 DEF CallsEnd
<1> QED
  BY <1>3, <1>4, <1>5

\* A call that succeeds.
LEMMA SucceededPage ==
    ASSUME NEW p \in Page, NEW c \in Call, NEW k
    PROVE  CallsEnd(p, Succeeded(p, c), k)
<1> DEFINE q == Idle(p, {c})
<1>1. /\ q \in Page
      /\ q.refresh = p.refresh /\ q.tok = p.tok
      /\ q.login = p.login /\ q.new = p.new
      /\ q.logout = p.logout /\ q.old = p.old
      /\ q.doing = p.doing /\ q.token = p.token
  BY IdlePage
<1>2. Succeeded(p, c) = CASE q.doing = "loading" /\ \A d \in Call : q.call[d] = "idle" ->
                                sessionRestored(q)
                          [] q.doing = "authorizing" /\ c = Authorize ->
                                [q EXCEPT !.doing = "none"]
                          [] OTHER -> q
  BY DEF Succeeded
<1> HIDE DEF q
<1>3. /\ sessionRestored(q) \in Page /\ sessionRestored(q).refresh = q.refresh
      /\ sessionRestored(q).tok = q.tok /\ sessionRestored(q).login = q.login
      /\ sessionRestored(q).new = q.new /\ sessionRestored(q).logout = q.logout
      /\ sessionRestored(q).old = q.old /\ sessionRestored(q).doing = "none"
      /\ sessionRestored(q).token = q.token
  BY <1>1, ZenonT(40) DEF Page, sessionRestored
<1>4. ASSUME NEW w, w = [q EXCEPT !.doing = "none"]
      PROVE  /\ w \in Page /\ w.refresh = q.refresh /\ w.tok = q.tok /\ w.login = q.login
             /\ w.new = q.new /\ w.logout = q.logout /\ w.old = q.old
             /\ w.doing = "none" /\ w.token = q.token
  BY <1>1, <1>4 DEF Page
<1>5. CASE Succeeded(p, c) = sessionRestored(q)
  BY <1>1, <1>3, <1>5 DEF CallsEnd
<1>6. CASE Succeeded(p, c) = [q EXCEPT !.doing = "none"]
  BY <1>1, <1>4, <1>6 DEF CallsEnd
<1>7. CASE Succeeded(p, c) = q
  BY <1>1, <1>7 DEF CallsEnd
<1>8. \/ Succeeded(p, c) = sessionRestored(q) \/ Succeeded(p, c) = [q EXCEPT !.doing = "none"]
      \/ Succeeded(p, c) = q
  BY <1>2
<1> QED
  BY <1>5, <1>6, <1>7, <1>8

\* A new page.
LEMMA NewPageOK ==
    /\ NewPage \in Page /\ NewPage.refresh = "queued" /\ NewPage.tok = None
    /\ NewPage.login = "none" /\ NewPage.new = None /\ NewPage.logout = "none"
    /\ NewPage.old = None /\ NewPage.token = FALSE
<1>1. NewPage \in Page
  BY DEF Page, NewPage
<1>2. /\ NewPage.refresh = "queued" /\ NewPage.tok = None
      /\ NewPage.login = "none" /\ NewPage.new = None /\ NewPage.logout = "none"
      /\ NewPage.old = None /\ NewPage.token = FALSE
  BY DEF NewPage
<1> QED
  BY <1>1, <1>2

-----------------------------------------------------------------------------
(* The backend's steps. *)

Opened == [user : User \cup {None}, version : Nat, usable : SUBSET Jti]

\* At most a session is closed.
Shrinks ==
    /\ UNCHANGED <<account, issued, family>>
    /\ session' \in [Jti -> Opened]
    /\ \A f \in Jti : session'[f].usable \in {session[f].usable, {}}

\* Token n is issued in session f, and is its usable one.
Grows(f, n) ==
    /\ n \in Jti \ issued /\ f \in issued \cup {n}
    /\ account' = account
    /\ issued' = issued \cup {n}
    /\ family' \in [Jti -> Jti \cup {None}]
    /\ family'[n] = f
    /\ \A j \in issued : family'[j] = family[j]
    /\ session' \in [Jti -> Opened]
    /\ session'[f].usable = {n}
    /\ \A g \in Jti : g # f => session'[g].usable = session[g].usable

LEMMA StillShrinks ==
    ASSUME BackendOK, UNCHANGED backend
    PROVE  Shrinks
  BY DEF BackendOK, Shrinks, backend, Opened

LEMMA ClosedSession ==
    ASSUME NEW s \in Opened, NEW u \in SUBSET Jti
    PROVE  /\ [s EXCEPT !.usable = u] \in Opened
           /\ [s EXCEPT !.usable = u].usable = u
  BY DEF Opened

LEMMA CloseShrinks ==
    ASSUME BackendOK, NEW f \in Jti, Close(f), UNCHANGED family
    PROVE  Shrinks /\ session'[f].usable = {}
<1> DEFINE z == [session[f] EXCEPT !.usable = {}]
<1>1. session \in [Jti -> Opened]
  BY DEF BackendOK, Opened
<1>2. z \in Opened /\ z.usable = {}
  BY <1>1, ClosedSession
<1>3. session' = [session EXCEPT ![f] = z] /\ UNCHANGED <<account, issued>>
  BY <1>1 DEF Close
<1> HIDE DEF z
<1>4. session' \in [Jti -> Opened]
  BY <1>1, <1>2, <1>3
<1>5. \A g \in Jti : session'[g] = IF g = f THEN z ELSE session[g]
  BY <1>1, <1>3
<1> QED
  BY <1>2, <1>3, <1>4, <1>5 DEF Shrinks

\* While there are tokens left, the next one was never issued.
LEMMA FreshToken ==
    ASSUME BackendOK, issued # Jti
    PROVE  Fresh \in Jti \ issued
<1>1. \E n \in Jti : n \notin issued
  BY DEF BackendOK
<1> QED
  BY <1>1 DEF Fresh

LEMMA ExchangeGrows ==
    ASSUME BackendOK, BrowserTypeOK, NEW j \in issued, Exchanged(j, Fresh)
    PROVE  Grows(family[j], Fresh) /\ Usable(j)
<1> DEFINE f == family[j]
           n == Fresh
           z == [session[f] EXCEPT !.usable = {n}]
<1>1. session \in [Jti -> Opened] /\ f \in issued /\ f \in Jti /\ issued \in SUBSET Jti
  BY DEF BackendOK, Opened
<1>2. n \in Jti \ issued
  BY FreshToken DEF Exchanged
<1>3. z \in Opened /\ z.usable = {n}
  BY <1>1, <1>2, ClosedSession
<1>4. /\ session' = [session EXCEPT ![f] = z] /\ account' = account
      /\ issued' = issued \cup {n}
      /\ family' = [family EXCEPT ![n] = f] /\ Usable(j)
  BY <1>1 DEF Exchanged, Exchange
<1>5. family \in [Jti -> Jti \cup {None}]
  BY DEF BrowserTypeOK
<1> HIDE DEF z, n, f
<1>6. session' \in [Jti -> Opened]
  BY <1>1, <1>3, <1>4
<1>7. \A g \in Jti : session'[g] = IF g = f THEN z ELSE session[g]
  BY <1>1, <1>4
<1>8. /\ family' \in [Jti -> Jti \cup {None}] /\ family'[n] = f
      /\ \A i \in issued : family'[i] = family[i]
  BY <1>1, <1>2, <1>4, <1>5
<1>9. Grows(f, n) /\ Usable(j)
  BY <1>1, <1>2, <1>3, <1>4, <1>6, <1>7, <1>8 DEF Grows
<1> QED
  BY <1>9 DEF f, n

LEMMA OpenGrows ==
    ASSUME BackendOK, BrowserTypeOK, issued # Jti, NEW u \in User,
           Open(Fresh, u, account[u].version), family' = [family EXCEPT ![Fresh] = Fresh]
    PROVE  Grows(Fresh, Fresh)
<1> DEFINE n == Fresh
           z == [user |-> u, version |-> account[u].version, usable |-> {n}]
<1>1. session \in [Jti -> Opened] /\ issued \in SUBSET Jti /\ account[u].version \in Nat
  BY DEF BackendOK, Opened
<1>2. n \in Jti \ issued
  BY FreshToken
<1>3. z \in Opened /\ z.usable = {n}
  BY <1>1, <1>2 DEF Opened
<1>4. /\ session' = [session EXCEPT ![n] = z] /\ account' = account
      /\ issued' = issued \cup {n} /\ family' = [family EXCEPT ![n] = n]
  BY DEF Open
<1>5. family \in [Jti -> Jti \cup {None}]
  BY DEF BrowserTypeOK
<1> HIDE DEF z, n
<1>6. session' \in [Jti -> Opened]
  BY <1>1, <1>2, <1>3, <1>4
<1>7. \A g \in Jti : session'[g] = IF g = n THEN z ELSE session[g]
  BY <1>1, <1>2, <1>4
<1>8. /\ family' \in [Jti -> Jti \cup {None}] /\ family'[n] = n
      /\ \A i \in issued : family'[i] = family[i]
  BY <1>1, <1>2, <1>4, <1>5
<1>9. Grows(n, n)
  BY <1>1, <1>2, <1>3, <1>4, <1>6, <1>7, <1>8 DEF Grows
<1> QED
  BY <1>9 DEF n

\* What closing a session keeps of a token.
LEMMA KeptShrink ==
    ASSUME BackendOK, Shrinks
    PROVE  /\ BackendOK'
           /\ \A j \in issued :
                 /\ family'[j] = family[j]
                 /\ Bound(j) => session'[family[j]].usable \subseteq {j}
                 /\ IsClosed(j) => session'[family[j]].usable = {}
                 /\ ~Usable(j) => j \notin session'[family[j]].usable
<1>1. BackendOK'
  BY DEF BackendOK, Shrinks, Opened
<1>2. ASSUME NEW j \in issued
      PROVE  family[j] \in Jti /\ family'[j] = family[j] /\ j # None
  BY BrowserAssumption DEF BackendOK, Shrinks
<1> QED
  BY <1>1, <1>2 DEF Shrinks, Bound, IsClosed, Usable

\* What issuing a token in session f keeps.
LEMMA KeptGrow ==
    ASSUME BackendOK, NEW f, NEW n, Grows(f, n)
    PROVE  /\ BackendOK'
           /\ \A j \in issued :
                 /\ family'[j] = family[j]
                 /\ family[j] # f /\ Bound(j) => session'[family[j]].usable \subseteq {j}
                 /\ family[j] # f /\ IsClosed(j) => session'[family[j]].usable = {}
                 /\ ~Usable(j) => j \notin session'[family[j]].usable
           /\ session'[family'[n]].usable = {n}
<1>1. BackendOK'
  BY DEF BackendOK, Grows, Opened
<1>2. ASSUME NEW j \in issued
      PROVE  family[j] \in Jti /\ family'[j] = family[j] /\ j # None /\ j # n
  BY BrowserAssumption DEF BackendOK, Grows
<1>3. ASSUME NEW j \in issued, family[j] # f
      PROVE  session'[family[j]].usable = session[family[j]].usable
  BY <1>2, <1>3 DEF Grows
<1>4. ASSUME NEW j \in issued, family[j] = f
      PROVE  j \notin session'[family[j]].usable
  BY <1>2, <1>4 DEF Grows
<1>5. session'[family'[n]].usable = {n}
  BY DEF Grows
<1> QED
  BY <1>1, <1>2, <1>3, <1>4, <1>5 DEF Bound, IsClosed, Usable

-----------------------------------------------------------------------------
(* Steps that bring no token into the browser: a refresh or a login may be     *)
(* dropped, a logout begin or end, a session be closed.                        *)

Follows(p, q) ==
    /\ q \in Page
    /\ \/ q.refresh = p.refresh /\ q.tok = p.tok
       \/ /\ q.refresh \in {"none", "queued"} /\ q.tok \in {p.tok, None}
          /\ p.refresh = "granted" => family[p.tok] \in lost'
    /\ \/ q.login = p.login /\ q.new = p.new
       \/ q.login = "none" /\ q.new \in {p.new, None}
    /\ q.old \in {p.old, cookie', None}
    /\ q.logout = "granted" => q.old # None
    /\ q.token = p.token \/ ~q.token

\* The whole step: requests dropped on the way belong to sessions that lost an answer,
\* and the lock stays with the page that refreshes.
Quietly ==
    /\ Shrinks
    /\ cookie' \in {cookie, None}
    /\ tab' \in [Tab -> Page] /\ \A t \in Tab : Follows(tab[t], tab'[t])
    /\ lost \subseteq lost' /\ lost' \in SUBSET Jti
    /\ \A j \in orphans' :
          \/ j \in orphans
          \/ /\ j \in issued /\ family[j] \in lost'
             /\ \E t \in Tab : tab[t].refresh = "sent" /\ tab[t].tok = j
    /\ events' \in 0..MaxEvents
    /\ lock' \in Tab \cup {None}
    /\ \A t \in Tab : tab'[t].refresh \in {"sent", "granted"} /\ lock = t =>
                        lock' = t
    /\ replayed' \in SUBSET Jti /\ (WebLocks => replayed' = {})

LEMMA QuietlyBase ==
    ASSUME IInv, Quietly, calm' \in SUBSET Tab,
           out' \in [tab : Tab, tok : Jti] \cup {NoLogout}
    PROVE  BrowserTypeOK' /\ BackendOK' /\ HeldOK'
<1>1. BackendOK' /\ UNCHANGED <<issued, family>>
  BY KeptShrink DEF IInv, Quietly, Shrinks
<1>2. orphans' \in SUBSET issued
  BY DEF IInv, Quietly, HeldOK
<1>3. BrowserTypeOK'
  BY <1>1, <1>2 DEF IInv, Quietly, BrowserTypeOK, HeldOK, BackendOK, NoLogout
<1>4. cookie' \in issued \cup {None}
  BY DEF IInv, Quietly, HeldOK
<1>5. ASSUME NEW t \in Tab
      PROVE  /\ tab'[t].tok \in issued \cup {None}
             /\ tab'[t].new \in issued \cup {None}
             /\ tab'[t].old \in issued \cup {None}
             /\ tab'[t].refresh = "granted" => tab'[t].tok # None
             /\ tab'[t].login = "granted" => tab'[t].new # None
             /\ tab'[t].logout = "granted" => tab'[t].old # None
  BY <1>4 DEF IInv, Quietly, HeldOK, Follows
<1> QED
  BY <1>1, <1>2, <1>3, <1>4, <1>5 DEF HeldOK

LEMMA QuietlyRest ==
    ASSUME IInv, Quietly
    PROVE  AnswersOK' /\ CookieOK' /\ LocksOK' /\ OrphansOK'
<1>1. UNCHANGED <<issued, family>>
  BY DEF Quietly, Shrinks
<1>2. \A j \in issued : Bound(j) => session'[family[j]].usable \subseteq {j}
  BY KeptShrink DEF IInv, Quietly
<1>3. ASSUME NEW t \in Tab, tab'[t].refresh \in {"sent", "granted"}
      PROVE  tab'[t].refresh = tab[t].refresh /\ tab'[t].tok = tab[t].tok
  BY <1>3 DEF Quietly, Follows
<1>4. ASSUME NEW t \in Tab, tab'[t].login = "granted"
      PROVE  tab[t].login = "granted" /\ tab'[t].new = tab[t].new
  BY <1>4 DEF Quietly, Follows
<1>5. ASSUME NEW n \in issued, n # None, Unread(n)
      PROVE  Unread(n)'
  BY <1>1, <1>2, <1>3, <1>5 DEF Unread, Bound, Quietly
<1>6. ASSUME NEW t \in Tab, tab'[t].refresh = "granted"
      PROVE  Unread(tab[t].tok)'
  <2>1. tab[t].refresh = "granted" /\ tab'[t].tok = tab[t].tok
    BY <1>3, <1>6
  <2>2. tab[t].tok \in issued /\ tab[t].tok # None /\ Unread(tab[t].tok)
    BY <2>1 DEF IInv, AnswersOK, HeldOK
  <2>3. ASSUME NEW n, n = tab[t].tok PROVE Unread(n)'
    BY <1>5, <2>2, <2>3
  <2> QED
    BY <2>1, <2>3 DEF Unread, Bound
<1>7. ASSUME NEW t \in Tab, tab'[t].login = "granted"
      PROVE  Unread(tab[t].new)'
  <2>1. tab[t].login = "granted" /\ tab'[t].new = tab[t].new
    BY <1>4, <1>7
  <2>2. tab[t].new \in issued /\ tab[t].new # None /\ Unread(tab[t].new)
    BY <2>1 DEF IInv, AnswersOK, HeldOK
  <2>3. ASSUME NEW n, n = tab[t].new PROVE Unread(n)'
    BY <1>5, <2>2, <2>3
  <2> QED
    BY <2>1, <2>3 DEF Unread, Bound
<1>8. AnswersOK'
  BY <1>3, <1>4, <1>6, <1>7 DEF IInv, AnswersOK
<1>9. CookieOK'
  <2> SUFFICES ASSUME cookie' # None PROVE CookieOK'
    BY DEF CookieOK
  <2>1. cookie' = cookie /\ cookie \in issued
    BY DEF Quietly, IInv, HeldOK
  <2>2. CASE IsLost(cookie) \/ Bound(cookie)
    BY <1>1, <1>2, <2>1, <2>2 DEF CookieOK, IsLost, Bound, Quietly
  <2>3. CASE \E t \in Tab : tab[t].refresh = "granted" /\ family[tab[t].tok] = family[cookie]
    <3>1. PICK t \in Tab : tab[t].refresh = "granted" /\ family[tab[t].tok] = family[cookie]
      BY <2>3
    <3>2. Follows(tab[t], tab'[t])
      BY DEF Quietly
    <3>3. \/ tab'[t].refresh = "granted" /\ tab'[t].tok = tab[t].tok
          \/ family[tab[t].tok] \in lost'
      BY <3>1, <3>2 DEF Follows
    <3> QED
      BY <1>1, <2>1, <3>1, <3>3 DEF CookieOK, IsLost
  <2> QED
    BY <2>1, <2>2, <2>3 DEF IInv, CookieOK
<1>10. LocksOK'
  <2> SUFFICES ASSUME WebLocks PROVE LocksOK'
    BY DEF LocksOK
  <2>1. ASSUME NEW t \in Tab, tab'[t].refresh \in {"sent", "granted"}
        PROVE  lock' = t
    BY <1>3, <2>1 DEF IInv, LocksOK, Quietly
  <2>2. ASSUME NEW t \in Tab, tab'[t].refresh = "sent", tab'[t].tok # None
        PROVE  IsLost(tab[t].tok)' \/ Bound(tab[t].tok)'
    <3>1. /\ tab[t].refresh = "sent" /\ tab'[t].tok = tab[t].tok /\ tab[t].tok # None
          /\ tab[t].tok \in issued
      BY <1>3, <2>2 DEF IInv, HeldOK
    <3>2. IsLost(tab[t].tok) \/ Bound(tab[t].tok)
      BY <3>1 DEF IInv, LocksOK
    <3> QED
      BY <1>1, <1>2, <3>1, <3>2 DEF IsLost, Bound, Quietly
  <2> QED
    BY <2>1, <2>2 DEF LocksOK, Quietly
<1>11. OrphansOK'
  BY <1>1 DEF IInv, OrphansOK, Quietly, IsLost
<1> QED
  BY <1>8, <1>9, <1>10, <1>11

\* A logout that goes on as it is.
LEMMA QuietlyCalm ==
    ASSUME IInv, Quietly, NEW t \in calm, tab'[t].doing = "none",
           tab'[t].logout = tab[t].logout, tab'[t].old = tab[t].old
    PROVE  CalmPage(t)'
<1>1. UNCHANGED <<issued, family>>
  BY DEF Quietly, Shrinks
<1>2. \A j \in issued : /\ Bound(j) => session'[family[j]].usable \subseteq {j}
                        /\ IsClosed(j) => session'[family[j]].usable = {}
  BY KeptShrink DEF IInv, Quietly
<1>3. Quiet => Quiet'
  BY DEF Quiet, Quietly, Follows
<1>4. /\ t \in Tab /\ tab[t].logout \in {"sent", "granted"} /\ Quiet
      /\ tab[t].old \in issued \cup {None}
      /\ tab[t].logout = "granted" => tab[t].old # None
      /\ tab[t].old # None => IsLost(tab[t].old) \/ Bound(tab[t].old)
      /\ tab[t].logout = "granted" => IsLost(tab[t].old) \/ IsClosed(tab[t].old)
  BY DEF IInv, CalmOK, CalmPage, HeldOK, BrowserTypeOK
<1>5. /\ tab'[t].old # None => IsLost(tab[t].old)' \/ Bound(tab[t].old)'
      /\ tab'[t].logout = "granted" => IsLost(tab[t].old)' \/ IsClosed(tab[t].old)'
  BY <1>1, <1>2, <1>4 DEF IsLost, Bound, IsClosed, Quietly
<1> QED
  BY <1>3, <1>4, <1>5 DEF CalmPage

\* The last logout stays as it is.
LEMMA QuietlyOut ==
    ASSUME IInv, Quietly, out' = out
    PROVE  OutOK'
<1> SUFFICES ASSUME out # NoLogout PROVE OutOK'
  BY DEF OutOK, NoLogout
<1>1. UNCHANGED <<issued, family>>
  BY DEF Quietly, Shrinks
<1>2. \A j \in issued : /\ IsClosed(j) => session'[family[j]].usable = {}
                        /\ ~Usable(j) => j \notin session'[family[j]].usable
  BY KeptShrink DEF IInv, Quietly
<1>3. ASSUME NEW t \in Tab
      PROVE  tab'[t].refresh # "granted" /\ tab'[t].login = "none"
  BY DEF IInv, OutOK, Quietly, Follows
<1>4. ASSUME NEW j \in issued, ~Usable(j)
      PROVE  ~Usable(j)'
  BY <1>1, <1>2, <1>4 DEF Usable
<1>5. ASSUME NEW t \in Tab, tab'[t].refresh = "sent"
      PROVE  ~Usable(tab[t].tok)'
  <2>1. tab[t].refresh = "sent" /\ tab'[t].tok = tab[t].tok
    BY <1>5 DEF Quietly, Follows
  <2>2. ~Usable(tab[t].tok) /\ tab[t].tok \in issued \cup {None}
    BY <2>1 DEF IInv, OutOK, HeldOK
  <2> QED
    BY <1>1, <1>2, <2>1, <2>2 DEF Usable
<1>6. ~Usable(cookie)'
  <2>1. ~Usable(cookie) /\ cookie \in issued \cup {None} /\ cookie' \in {cookie, None}
    BY DEF IInv, OutOK, HeldOK, LoggedOutStaysOut, Quietly
  <2> QED
    BY <1>1, <1>2, <2>1 DEF Usable
<1>7. out.tok \in issued /\ out.tab \in Tab
  BY DEF IInv, OutOK, BrowserTypeOK
<1>8. ~tab'[out.tab].token
  <2>1. ~tab[out.tab].token
    BY DEF IInv, OutOK, LoggedOutStaysOut
  <2>2. tab'[out.tab].token = tab[out.tab].token \/ ~tab'[out.tab].token
    BY <1>7 DEF Quietly, Follows
  <2> QED
    BY <2>1, <2>2
<1>9. session'[family[out.tok]].usable = {} \/ family[out.tok] \in lost'
  BY <1>2, <1>7 DEF IInv, OutOK, LoggedOutStaysOut, IsClosed, Quietly
<1> QED
  BY <1>1, <1>3, <1>5, <1>6, <1>7, <1>8, <1>9 DEF OutOK, LoggedOutStaysOut

\* The three together.
LEMMA QuietlyKeeps ==
    ASSUME IInv, Quietly, out' = out, calm' \subseteq calm,
           \A t \in calm' : /\ tab'[t].doing = "none"
                            /\ tab'[t].logout = tab[t].logout /\ tab'[t].old = tab[t].old
    PROVE  IInv'
<1>1. calm' \in SUBSET Tab /\ out' \in [tab : Tab, tok : Jti] \cup {NoLogout}
  BY DEF IInv, BrowserTypeOK
<1>2. CalmOK'
  BY QuietlyCalm DEF CalmOK
<1> QED
  BY <1>1, <1>2, QuietlyBase, QuietlyRest, QuietlyOut DEF IInv

-----------------------------------------------------------------------------
(* Steps of one page. *)

\* Only page t changes.
Only(t) ==
    /\ tab' \in [Tab -> Page]
    /\ \A s \in Tab : s # t => tab'[s] = tab[s]

LEMMA OnlyPage ==
    ASSUME IInv, NEW t \in Tab, NEW q \in Page, tab' = [tab EXCEPT ![t] = q]
    PROVE  Only(t) /\ tab'[t] = q
<1>1. tab \in [Tab -> Page]
  BY DEF IInv, BrowserTypeOK
<1> QED
  BY <1>1 DEF Only

LEMMA PageOK ==
    ASSUME IInv, NEW t \in Tab
    PROVE  tab[t] \in Page
  BY DEF IInv, BrowserTypeOK

LEMMA OnlyFollows ==
    ASSUME IInv, NEW t \in Tab, Only(t), Follows(tab[t], tab'[t])
    PROVE  tab' \in [Tab -> Page] /\ \A s \in Tab : Follows(tab[s], tab'[s])
<1>1. ASSUME NEW s \in Tab, s # t
      PROVE  Follows(tab[s], tab'[s])
  <2>1. tab'[s] = tab[s] /\ tab[s] \in Page /\ (tab[s].logout = "granted" => tab[s].old # None)
    BY <1>1, PageOK DEF Only, IInv, HeldOK
  <2> QED
    BY <2>1 DEF Follows
<1> QED
  BY <1>1 DEF Only

\* A page changes, and perhaps the cookie goes or a session is closed.
LEMMA OnlyQuietly ==
    ASSUME IInv, NEW t \in Tab, Only(t), Follows(tab[t], tab'[t]), Shrinks,
           cookie' \in {cookie, None}, UNCHANGED <<lock, orphans, events, lost, replayed>>
    PROVE  Quietly
<1>1. /\ lost \in SUBSET Jti /\ events \in 0..MaxEvents /\ lock \in Tab \cup {None}
      /\ replayed \in SUBSET Jti /\ (WebLocks => replayed = {})
  BY DEF IInv, BrowserTypeOK, LocksOK
<1> QED
  BY <1>1, OnlyFollows DEF Quietly

\* The logouts under way are not touched, but for the one of t, if it is not calm.
LEMMA OnlyKeeps ==
    ASSUME IInv, NEW t \in Tab, Only(t), Quietly, out' = out, calm' \subseteq calm,
           t \in calm' => /\ tab'[t].doing = "none"
                          /\ tab'[t].logout = tab[t].logout /\ tab'[t].old = tab[t].old
    PROVE  IInv'
<1>1. ASSUME NEW s \in calm', s # t
      PROVE  tab'[s] = tab[s] /\ tab[s].doing = "none"
  BY <1>1 DEF IInv, CalmOK, CalmPage, BrowserTypeOK, Only
<1> QED
  BY <1>1, QuietlyKeeps

LEMMA CallsFollow ==
    ASSUME IInv, NEW t \in Tab, CallsEnd(tab[t], tab'[t], cookie')
    PROVE  /\ Follows(tab[t], tab'[t])
           /\ t \in calm => /\ tab'[t].doing = "none"
                            /\ tab'[t].logout = tab[t].logout /\ tab'[t].old = tab[t].old
<1>1. tab[t].logout = "granted" => tab[t].old # None
  BY DEF IInv, HeldOK
<1>2. t \in calm => tab[t].doing = "none"
  BY DEF IInv, CalmOK, CalmPage
<1>3. Follows(tab[t], tab'[t])
  BY <1>1 DEF CallsEnd, Follows
<1> QED
  BY <1>2, <1>3 DEF CallsEnd

LEMMA CallBeginKeeps ==
    ASSUME IInv, NEW t \in Tab, NEW c \in Call, CallBegin(t, c)
    PROVE  IInv'
<1> DEFINE p == tab[t]
           q == [p EXCEPT !.call[c] = "sent"]
<1>1. p \in Page /\ tab' = [tab EXCEPT ![t] = q]
  BY PageOK DEF CallBegin
<1>2. ASSUME NEW r \in Page, NEW z, z = [r EXCEPT !.call[c] = "sent"]
      PROVE  CallsEnd(r, z, cookie')
  <2>1. z \in Page
    BY <1>2 DEF Page
  <2>2. /\ z.refresh = r.refresh /\ z.tok = r.tok /\ z.login = r.login /\ z.new = r.new
        /\ z.logout = r.logout /\ z.old = r.old /\ z.doing = r.doing /\ z.token = r.token
    BY <1>2 DEF Page
  <2> QED
    BY <2>1, <2>2 DEF CallsEnd
<1>3. CallsEnd(p, q, cookie')
  BY <1>1, <1>2
<1>4. q \in Page
  BY <1>3 DEF CallsEnd
<1> HIDE DEF q
<1>5. Only(t) /\ tab'[t] = q
  BY <1>1, <1>4, OnlyPage
<1>6. UNCHANGED <<backend, cookie, lock, orphans, events, lost, replayed, calm, out>>
  BY DEF CallBegin, history
<1>7. Quietly /\ (t \in calm => /\ tab'[t].doing = "none"
                               /\ tab'[t].logout = tab[t].logout /\ tab'[t].old = tab[t].old)
  BY <1>3, <1>5, <1>6, CallsFollow, OnlyQuietly, StillShrinks DEF IInv
<1> QED
  BY <1>5, <1>6, <1>7, OnlyKeeps

\* A call that waits for a refresh.
LEMMA WaitingPage ==
    ASSUME NEW p \in Page, NEW c \in Call,
           NEW q, q = refreshAccessToken([p EXCEPT !.call[c] = "waiting"])
    PROVE  /\ q \in Page
           /\ q.refresh = IF p.refresh = "none" THEN "queued" ELSE p.refresh
           /\ q.tok = p.tok /\ q.login = p.login /\ q.new = p.new
           /\ q.logout = p.logout /\ q.old = p.old /\ q.doing = p.doing /\ q.token = p.token
<1> DEFINE z == [p EXCEPT !.call[c] = "waiting"]
<1>1. /\ z \in Page
      /\ z.refresh = p.refresh /\ z.tok = p.tok /\ z.login = p.login /\ z.new = p.new
      /\ z.logout = p.logout /\ z.old = p.old /\ z.doing = p.doing /\ z.token = p.token
  BY DEF Page
<1>2. q = IF z.refresh = "none" THEN [z EXCEPT !.refresh = "queued"] ELSE z
  BY DEF refreshAccessToken
<1> HIDE DEF z
<1>3. CASE z.refresh = "none"
  <2>1. q = [z EXCEPT !.refresh = "queued"]
    BY <1>2, <1>3
  <2>2. /\ q \in Page
        /\ q.refresh = "queued" /\ q.tok = z.tok /\ q.login = z.login /\ q.new = z.new
        /\ q.logout = z.logout /\ q.old = z.old /\ q.doing = z.doing /\ q.token = z.token
    BY <1>1, <2>1 DEF Page
  <2> QED
    BY <1>1, <1>3, <2>2
<1>4. CASE z.refresh # "none"
  BY <1>1, <1>2, <1>4
<1> QED
  BY <1>3, <1>4

LEMMA CallUnauthorizedKeeps ==
    ASSUME IInv, NEW t \in Tab, NEW c \in Call, CallUnauthorized(t, c)
    PROVE  IInv'
<1> DEFINE p == tab[t]
           q == refreshAccessToken([p EXCEPT !.call[c] = "waiting"])
<1>1. p \in Page /\ tab' = [tab EXCEPT ![t] = q]
  BY PageOK DEF CallUnauthorized
<1>2. /\ q \in Page
      /\ q.refresh = IF p.refresh = "none" THEN "queued" ELSE p.refresh
      /\ q.tok = p.tok /\ q.login = p.login /\ q.new = p.new
      /\ q.logout = p.logout /\ q.old = p.old /\ q.doing = p.doing /\ q.token = p.token
  BY <1>1, WaitingPage
<1> HIDE DEF q
<1>3. Only(t) /\ tab'[t] = q
  BY <1>1, <1>2, OnlyPage
<1>4. p.logout = "granted" => p.old # None
  BY DEF IInv, HeldOK
<1>5. Follows(tab[t], tab'[t])
  BY <1>2, <1>3, <1>4 DEF Follows
<1>6. UNCHANGED <<backend, cookie, lock, orphans, events, lost, replayed, calm, out>>
  BY DEF CallUnauthorized, history
<1>7. Quietly
  BY <1>3, <1>5, <1>6, OnlyQuietly, StillShrinks DEF IInv
<1>8. t \in calm => tab[t].doing = "none"
  BY DEF IInv, CalmOK, CalmPage
<1> QED
  BY <1>2, <1>3, <1>6, <1>7, <1>8, OnlyKeeps

LEMMA CallEndsKeeps ==
    ASSUME IInv, NEW t \in Tab, NEW c \in Call, CallEnds(t, c)
    PROVE  IInv'
<1>1. tab[t] \in Page /\ cookie \in Jti \cup {None} /\ cookie' = cookie
  BY PageOK DEF CallEnds, IInv, BrowserTypeOK
<1>2. PICK q : CallsEnd(tab[t], q, cookie) /\ tab' = [tab EXCEPT ![t] = q]
  BY <1>1, SucceededPage, FailedPage DEF CallEnds
<1>3. q \in Page
  BY <1>2 DEF CallsEnd
<1>4. Only(t) /\ tab'[t] = q
  BY <1>2, <1>3, OnlyPage
<1>5. UNCHANGED <<backend, cookie, lock, orphans, events, lost, replayed, calm, out>>
  BY DEF CallEnds, history
<1>6. /\ Follows(tab[t], tab'[t])
      /\ t \in calm => /\ tab'[t].doing = "none"
                       /\ tab'[t].logout = tab[t].logout /\ tab'[t].old = tab[t].old
  BY <1>1, <1>2, <1>4, CallsFollow
<1>7. Quietly
  BY <1>4, <1>5, <1>6, OnlyQuietly, StillShrinks DEF IInv
<1> QED
  BY <1>4, <1>5, <1>6, <1>7, OnlyKeeps

LEMMA LoginFailsKeeps ==
    ASSUME IInv, NEW t \in Tab, LoginFails(t)
    PROVE  IInv'
<1> DEFINE p == tab[t]
           q == [p EXCEPT !.login = "none", !.new = None]
<1>1. p \in Page /\ tab' = [tab EXCEPT ![t] = q]
  BY PageOK DEF LoginFails
<1>2. ASSUME NEW z, z = q
      PROVE  /\ z \in Page /\ z.refresh = p.refresh /\ z.tok = p.tok
             /\ z.login = "none" /\ z.new = None /\ z.token = p.token
             /\ z.logout = p.logout /\ z.old = p.old /\ z.doing = p.doing
  BY <1>1, <1>2 DEF Page
<1> HIDE DEF q
<1>3. Only(t) /\ tab'[t] = q
  BY <1>1, <1>2, OnlyPage
<1>4. p.logout = "granted" => p.old # None
  BY DEF IInv, HeldOK
<1>5. Follows(tab[t], tab'[t])
  BY <1>2, <1>3, <1>4 DEF Follows
<1>6. UNCHANGED <<backend, cookie, lock, orphans, events, lost, replayed, calm, out>>
  BY DEF LoginFails, history
<1>7. Quietly
  BY <1>3, <1>5, <1>6, OnlyQuietly, StillShrinks DEF IInv
<1>8. t \in calm => tab[t].doing = "none"
  BY DEF IInv, CalmOK, CalmPage
<1> QED
  BY <1>2, <1>3, <1>6, <1>7, <1>8, OnlyKeeps

-----------------------------------------------------------------------------
(* Logouts. *)

LEMMA LoggedOutPage ==
    ASSUME NEW p \in Page
    PROVE  /\ LoggedOut(p) \in Page
           /\ LoggedOut(p).refresh = p.refresh /\ LoggedOut(p).tok = p.tok
           /\ LoggedOut(p).login = p.login /\ LoggedOut(p).new = p.new
           /\ LoggedOut(p).logout = "none" /\ LoggedOut(p).old = None
           /\ LoggedOut(p).token = p.token \/ ~LoggedOut(p).token
           /\ p.doing # "leaving" => ~LoggedOut(p).token
<1> DEFINE q == [p EXCEPT !.logout = "none", !.old = None]
<1>1. /\ q \in Page /\ q.refresh = p.refresh /\ q.tok = p.tok /\ q.login = p.login
      /\ q.new = p.new /\ q.logout = "none" /\ q.old = None /\ q.token = p.token
  BY DEF Page
<1>2. LoggedOut(p) = IF p.doing = "leaving" THEN [q EXCEPT !.doing = "none"]
                     ELSE sessionCleared(q)
  BY DEF LoggedOut
<1> HIDE DEF q
<1>3. CASE p.doing = "leaving"
  <2>1. LoggedOut(p) = [q EXCEPT !.doing = "none"]
    BY <1>2, <1>3
  <2>2. ASSUME NEW z, z = [q EXCEPT !.doing = "none"]
        PROVE  /\ z \in Page /\ z.refresh = q.refresh /\ z.tok = q.tok /\ z.login = q.login
               /\ z.new = q.new /\ z.logout = q.logout /\ z.old = q.old /\ z.token = q.token
    BY <1>1, <2>2 DEF Page
  <2> QED
    BY <1>1, <1>3, <2>1, <2>2
<1>4. CASE p.doing # "leaving"
  <2>1. LoggedOut(p) = sessionCleared(q)
    BY <1>2, <1>4
  <2> QED
    BY <1>1, <2>1, ClearedPage
<1> QED
  BY <1>3, <1>4

LEMMA LogoutSendKeeps ==
    ASSUME IInv, NEW t \in Tab, LogoutSend(t)
    PROVE  IInv'
<1> DEFINE p == tab[t]
           q == [p EXCEPT !.logout = "sent", !.old = cookie]
<1>1. p \in Page /\ tab' = [tab EXCEPT ![t] = q] /\ cookie \in Jti \cup {None}
  BY PageOK DEF LogoutSend, IInv, BrowserTypeOK
<1>2. ASSUME NEW z, z = q
      PROVE  /\ z \in Page /\ z.refresh = p.refresh /\ z.tok = p.tok
             /\ z.login = p.login /\ z.new = p.new /\ z.token = p.token
             /\ z.logout = "sent" /\ z.old = cookie /\ z.doing = p.doing
  BY <1>1, <1>2 DEF Page
<1> HIDE DEF q
<1>3. Only(t) /\ tab'[t] = q
  BY <1>1, <1>2, OnlyPage
<1>4. UNCHANGED <<backend, cookie, lock, orphans, events, lost, replayed, out>>
  BY DEF LogoutSend
<1>5. Follows(tab[t], tab'[t])
  BY <1>2, <1>3, <1>4 DEF Follows
<1>6. Quietly
  BY <1>3, <1>4, <1>5, OnlyQuietly, StillShrinks DEF IInv
<1>7. calm' \in SUBSET Tab /\ out' \in [tab : Tab, tok : Jti] \cup {NoLogout}
  BY <1>4 DEF LogoutSend, IInv, BrowserTypeOK
<1>8. ASSUME NEW s \in calm
      PROVE  CalmPage(s)'
  <2>1. s \in Tab /\ s # t /\ tab[s].doing = "none"
    BY DEF LogoutSend, IInv, CalmOK, CalmPage, BrowserTypeOK
  <2> QED
    BY <1>3, <1>6, <2>1, QuietlyCalm DEF Only
<1>9. ASSUME Quiet
      PROVE  CalmPage(t)'
  <2>1. /\ tab'[t].logout = "sent" /\ tab'[t].old = cookie /\ tab'[t].doing = "none"
        /\ UNCHANGED <<session, family, lost>>
    BY <1>2, <1>3, <1>4 DEF LogoutSend, backend
  <2>2. Quiet'
    BY <1>6, <1>9 DEF Quiet, Quietly, Follows
  <2>3. cookie # None => IsLost(cookie) \/ Bound(cookie)
    BY <1>9 DEF IInv, CookieOK, Quiet
  <2> QED
    BY <2>1, <2>2, <2>3 DEF CalmPage, IsLost, Bound
<1>10. CalmOK'
  BY <1>8, <1>9 DEF CalmOK, LogoutSend
<1> QED
  BY <1>4, <1>6, <1>7, <1>10, QuietlyBase, QuietlyRest, QuietlyOut DEF IInv

LEMMA LogoutServedKeeps ==
    ASSUME IInv, NEW t \in Tab, LogoutServed(t)
    PROVE  IInv'
<1> DEFINE p == tab[t]
           j == p.old
           q == [p EXCEPT !.logout = "granted"]
<1>1. p \in Page /\ tab' = [tab EXCEPT ![t] = q] /\ j \in issued /\ j # None
  BY PageOK DEF LogoutServed, IInv, HeldOK
<1>2. ASSUME NEW z, z = q
      PROVE  /\ z \in Page /\ z.refresh = p.refresh /\ z.tok = p.tok
             /\ z.login = p.login /\ z.new = p.new /\ z.token = p.token
             /\ z.logout = "granted" /\ z.old = j /\ z.doing = p.doing
  BY <1>1, <1>2 DEF Page
<1> HIDE DEF q
<1>3. Only(t) /\ tab'[t] = q
  BY <1>1, <1>2, OnlyPage
<1>4. UNCHANGED <<family, cookie, lock, orphans, events, lost, replayed, calm, out>>
  BY DEF LogoutServed, history
<1>5. family[j] \in Jti
  BY <1>1 DEF IInv, BackendOK
<1>6. /\ Shrinks
      /\ Usable(j) => session'[family[j]].usable = {}
      /\ ~Usable(j) => session' = session
  <2>1. CASE Usable(j)
    BY <1>4, <1>5, <2>1, CloseShrinks DEF LogoutServed, IInv
  <2>2. CASE ~Usable(j)
    BY <1>4, <2>2, StillShrinks DEF LogoutServed, IInv, backend
  <2> QED
    BY <2>1, <2>2
<1>7. Follows(tab[t], tab'[t])
  BY <1>1, <1>2, <1>3 DEF Follows
<1>8. Quietly
  BY <1>3, <1>4, <1>6, <1>7, OnlyQuietly
<1>9. calm' \in SUBSET Tab /\ out' \in [tab : Tab, tok : Jti] \cup {NoLogout}
  BY <1>4 DEF IInv, BrowserTypeOK
<1>10. ASSUME NEW s \in calm, s # t
       PROVE  CalmPage(s)'
  <2>1. s \in Tab /\ tab[s].doing = "none"
    BY DEF IInv, CalmOK, CalmPage, BrowserTypeOK
  <2> QED
    BY <1>3, <1>8, <1>10, <2>1, QuietlyCalm DEF Only
<1>11. ASSUME t \in calm
       PROVE  CalmPage(t)'
  <2>1. Quiet /\ p.doing = "none" /\ (IsLost(j) \/ Bound(j))
    BY <1>1, <1>11 DEF IInv, CalmOK, CalmPage
  <2>2. Quiet'
    BY <1>8, <2>1 DEF Quiet, Quietly, Follows
  <2>3. family[j] \in lost \/ session'[family[j]].usable = {}
    BY <1>1, <1>6, <2>1 DEF IsLost, Bound, Usable
  <2>4. /\ tab'[t].logout = "granted" /\ tab'[t].old = j /\ tab'[t].doing = "none"
    BY <1>2, <1>3, <2>1
  <2> QED
    BY <1>4, <2>2, <2>3, <2>4 DEF CalmPage, IsLost, Bound, IsClosed
<1>12. CalmOK'
  BY <1>4, <1>10, <1>11 DEF CalmOK
<1> QED
  BY <1>4, <1>8, <1>9, <1>12, QuietlyBase, QuietlyRest, QuietlyOut DEF IInv

\* The end of a logout: of both outcomes.
LEMMA LogoutEnds ==
    ASSUME IInv, NEW t \in Tab, tab' = [tab EXCEPT ![t] = LoggedOut(@)],
           cookie' \in {cookie, None},
           UNCHANGED <<backend, lock, orphans, events, lost, replayed>>
    PROVE  Only(t) /\ Quietly /\ tab'[t] = LoggedOut(tab[t])
<1> DEFINE p == tab[t]
           q == LoggedOut(p)
<1>1. p \in Page /\ tab' = [tab EXCEPT ![t] = q]
  BY PageOK DEF IInv, BrowserTypeOK
<1>2. /\ q \in Page /\ q.refresh = p.refresh /\ q.tok = p.tok /\ q.login = p.login
      /\ q.new = p.new /\ q.logout = "none" /\ q.old = None
      /\ q.token = p.token \/ ~q.token
  BY <1>1, LoggedOutPage
<1> HIDE DEF q
<1>3. Only(t) /\ tab'[t] = q
  BY <1>1, <1>2, OnlyPage
<1>4. Follows(tab[t], tab'[t])
  BY <1>2, <1>3 DEF Follows
<1>5. Quietly
  BY <1>3, <1>4, OnlyQuietly, StillShrinks DEF IInv
<1> QED
  BY <1>3, <1>5 DEF q

LEMMA LogoutFailsKeeps ==
    ASSUME IInv, NEW t \in Tab, LogoutFails(t)
    PROVE  IInv'
<1>1. Only(t) /\ Quietly
  BY LogoutEnds DEF LogoutFails
<1>2. out' = out /\ calm' \subseteq calm /\ t \notin calm'
  BY DEF LogoutFails
<1> QED
  BY <1>1, <1>2, OnlyKeeps

LEMMA LogoutDoneKeeps ==
    ASSUME IInv, NEW t \in Tab, LogoutDone(t)
    PROVE  IInv'
<1>1. Only(t) /\ Quietly /\ tab'[t] = LoggedOut(tab[t])
  BY LogoutEnds DEF LogoutDone
<1>2. calm' \subseteq calm /\ t \notin calm'
  BY DEF LogoutDone
<1>3. CASE t \notin calm
  <2>1. out' = out
    BY <1>3 DEF LogoutDone
  <2> QED
    BY <1>1, <1>2, <2>1, OnlyKeeps
<1>4. CASE t \in calm
  <2> DEFINE j == tab[t].old
  <2>1. /\ out' = [tab |-> t, tok |-> j] /\ cookie' = None
        /\ UNCHANGED <<session, family, lost, issued>>
    BY <1>4 DEF LogoutDone, backend
  <2>2. j \in issued /\ j \in Jti /\ j # None
    BY DEF IInv, LogoutDone, HeldOK, BackendOK
  <2>3. Quiet /\ tab[t].doing = "none" /\ (IsLost(j) \/ IsClosed(j))
    BY <1>4 DEF IInv, CalmOK, CalmPage, LogoutDone
  <2>4. out'.tab = t /\ out'.tok = j /\ out' \in [tab : Tab, tok : Jti]
    BY <2>1, <2>2
  <2>5. ~tab'[t].token
    <3>1. tab[t] \in Page /\ tab[t].doing # "leaving"
      BY <2>3, PageOK
    <3> QED
      BY <1>1, <3>1, LoggedOutPage
  <2>6. Quiet'
    BY <1>1, <2>3 DEF Quiet, Quietly, Follows
  <2>7. ~Usable(cookie)'
    BY <2>1 DEF Usable
  <2>8. session'[family'[j]].usable = {} \/ family'[j] \in lost'
    BY <2>1, <2>3 DEF IsLost, IsClosed
  <2>9. LoggedOutStaysOut'
    BY <2>4, <2>5, <2>7, <2>8 DEF LoggedOutStaysOut
  <2>10. OutOK'
    BY <2>1, <2>2, <2>4, <2>6, <2>9 DEF OutOK, Quiet
  <2>11. calm' \in SUBSET Tab /\ out' \in [tab : Tab, tok : Jti] \cup {NoLogout}
    BY <1>2, <2>4 DEF IInv, BrowserTypeOK
  <2>12. ASSUME NEW s \in calm'
         PROVE  CalmPage(s)'
    <3>1. s \in calm /\ s \in Tab /\ s # t /\ tab[s].doing = "none"
      BY <1>2 DEF IInv, CalmOK, CalmPage, BrowserTypeOK
    <3> QED
      BY <1>1, <3>1, QuietlyCalm DEF Only
  <2>13. CalmOK'
    BY <2>12 DEF CalmOK
  <2> QED
    BY <1>1, <2>10, <2>11, <2>13, QuietlyBase, QuietlyRest DEF IInv
<1> QED
  BY <1>3, <1>4

-----------------------------------------------------------------------------
(* Sessions that are closed, requests that are dropped. *)

LEMMA SameTabs ==
    ASSUME IInv, UNCHANGED tab
    PROVE  /\ tab' \in [Tab -> Page] /\ \A s \in Tab : Follows(tab[s], tab'[s])
           /\ \A s \in calm : tab'[s].doing = "none"
<1>1. tab' \in [Tab -> Page]
  BY DEF IInv, BrowserTypeOK
<1>2. ASSUME NEW s \in Tab
      PROVE  Follows(tab[s], tab'[s])
  <2>1. tab[s] \in Page /\ (tab[s].logout = "granted" => tab[s].old # None)
    BY PageOK DEF IInv, HeldOK
  <2> QED
    BY <2>1 DEF Follows
<1>3. \A s \in calm : tab'[s].doing = "none"
  BY DEF IInv, CalmOK, CalmPage
<1> QED
  BY <1>1, <1>2, <1>3

LEMMA ClosedKeeps ==
    ASSUME IInv, Shrinks, UNCHANGED <<cookie, lock, tab, lost, calm, out>>,
           orphans' \subseteq orphans, events' \in 0..MaxEvents,
           replayed' \in SUBSET Jti, WebLocks => replayed' = {}
    PROVE  IInv'
<1>1. lost \in SUBSET Jti /\ lock \in Tab \cup {None}
  BY DEF IInv, BrowserTypeOK
<1>2. Quietly
  BY <1>1, SameTabs DEF Quietly
<1> QED
  BY <1>2, SameTabs, QuietlyKeeps

LEMMA EndedElsewhereKeeps ==
    ASSUME IInv, NEW f \in Jti, EndedElsewhere(f)
    PROVE  IInv'
<1>1. Shrinks
  BY CloseShrinks DEF IInv, EndedElsewhere
<1>2. /\ UNCHANGED <<cookie, lock, tab, lost, calm, out, orphans, replayed>>
      /\ events < MaxEvents /\ events' = events + 1
  BY DEF EndedElsewhere, history
<1>3. /\ events' \in 0..MaxEvents /\ replayed \in SUBSET Jti
      /\ WebLocks => replayed = {}
  BY <1>2, BrowserAssumption DEF IInv, BrowserTypeOK, LocksOK
<1> QED
  BY <1>1, <1>2, <1>3, ClosedKeeps

\* Presenting a token again closes its session; with Web Locks the token was the
\* usable one unless an answer was lost.
LEMMA ReplayedKeeps ==
    ASSUME IInv, NEW j \in issued, Replayed(j), WebLocks => IsLost(j) \/ Bound(j),
           UNCHANGED <<cookie, lock, tab, events, lost, calm, out>>, orphans' \subseteq orphans
    PROVE  IInv'
<1>1. family[j] \in Jti
  BY DEF IInv, BackendOK
<1>2. Shrinks
  BY <1>1, CloseShrinks DEF IInv, Replayed
<1>3. replayed' \in SUBSET Jti /\ events' \in 0..MaxEvents
  BY <1>1 DEF IInv, BrowserTypeOK, Replayed
<1>4. ASSUME WebLocks
      PROVE  replayed' = {}
  <2>1. replayed = {}
    BY <1>4 DEF IInv, LocksOK
  <2>2. family[j] \in lost
    BY <1>4 DEF Replayed, Close, IsLost, Bound, Usable
  <2> QED
    BY <2>1, <2>2 DEF Replayed
<1> QED
  BY <1>2, <1>3, <1>4, ClosedKeeps

\* A page that drops its refresh: what is lost, and what is still on its way.
LEMMA AbandonDrops ==
    ASSUME IInv, NEW t \in Tab, Abandon(tab[t])
    PROVE  /\ lost \subseteq lost' /\ lost' \in SUBSET Jti
           /\ \A j \in orphans' :
                 \/ j \in orphans
                 \/ /\ j \in issued /\ family[j] \in lost'
                    /\ tab[t].refresh = "sent" /\ tab[t].tok = j
           /\ tab[t].refresh = "granted" => family[tab[t].tok] \in lost'
<1>1. /\ tab[t].tok \in issued \cup {None}
      /\ tab[t].refresh = "granted" => tab[t].tok # None
  BY DEF IInv, HeldOK
<1>2. tab[t].tok # None => family[tab[t].tok] \in Jti
  BY <1>1 DEF IInv, BackendOK
<1>3. lost \in SUBSET Jti
  BY DEF IInv, BrowserTypeOK
<1> QED
  BY <1>1, <1>2, <1>3 DEF Abandon

\* The page whose refresh ends gives the lock back.
LEMMA LockReleased ==
    ASSUME IInv, NEW t \in Tab, Only(t), ReleaseLock(t),
           tab'[t].refresh \notin {"sent", "granted"}
    PROVE  /\ lock' \in Tab \cup {None}
           /\ \A s \in Tab : tab'[s].refresh \in {"sent", "granted"} /\ lock = s => lock' = s
  BY DEF IInv, BrowserTypeOK, ReleaseLock, Only

\* A page whose refresh was dropped.
LEMMA DropQuietly ==
    ASSUME IInv, NEW t \in Tab, Only(t), Follows(tab[t], tab'[t]), ReleaseLock(t),
           tab'[t].refresh \notin {"sent", "granted"},
           cookie' \in {cookie, None}, UNCHANGED <<backend, replayed>>,
           events' \in 0..MaxEvents, Abandon(tab[t]) \/ UNCHANGED <<orphans, lost>>
    PROVE  Quietly
<1>1. /\ lost \subseteq lost' /\ lost' \in SUBSET Jti
      /\ \A j \in orphans' :
            \/ j \in orphans
            \/ /\ j \in issued /\ family[j] \in lost'
               /\ \E s \in Tab : tab[s].refresh = "sent" /\ tab[s].tok = j
  <2>1. CASE Abandon(tab[t])
    BY <2>1, AbandonDrops
  <2>2. CASE UNCHANGED <<orphans, lost>>
    BY <2>2 DEF IInv, BrowserTypeOK
  <2> QED
    BY <2>1, <2>2
<1>2. replayed \in SUBSET Jti /\ (WebLocks => replayed = {})
  BY DEF IInv, BrowserTypeOK, LocksOK
<1>3. Shrinks
  BY StillShrinks DEF IInv
<1> QED
  BY <1>1, <1>2, <1>3, OnlyFollows, LockReleased DEF Quietly

LEMMA ReloadKeeps ==
    ASSUME IInv, NEW t \in Tab, Reload(t)
    PROVE  IInv'
<1>1. Only(t) /\ tab'[t] = NewPage
  BY NewPageOK, OnlyPage DEF Reload
<1>2. Abandon(tab[t]) /\ ReleaseLock(t) /\ UNCHANGED <<backend, cookie, replayed, out>>
  BY DEF Reload
<1>3. Follows(tab[t], tab'[t])
  BY <1>1, <1>2, AbandonDrops, NewPageOK DEF Follows
<1>4. events' \in 0..MaxEvents
  BY BrowserAssumption DEF Reload, IInv, BrowserTypeOK
<1>5. Quietly
  BY <1>1, <1>2, <1>3, <1>4, DropQuietly, NewPageOK
<1>6. out' = out /\ calm' \subseteq calm /\ t \notin calm'
  BY DEF Reload
<1> QED
  BY <1>1, <1>5, <1>6, OnlyKeeps

\* The page that a refresh leaves which brought nothing.
LEMMA RefusedPage ==
    ASSUME NEW p \in Page, NEW k \in Jti \cup {None}, NEW cs,
           NEW q, q \in {Failed(sessionCleared(p), cs, k), p}
    PROVE  CallsEnd(p, q, k)
<1>1. CASE q = p
  BY <1>1 DEF CallsEnd
<1>2. CASE q = Failed(sessionCleared(p), cs, k)
  <2> DEFINE z == sessionCleared(p)
  <2>1. /\ z \in Page /\ z.refresh = p.refresh /\ z.tok = p.tok
        /\ z.login = p.login /\ z.new = p.new /\ z.logout = p.logout /\ z.old = p.old
        /\ p.doing = "none" => z.doing = "none"
        /\ ~z.token
    BY ClearedPage
  <2>2. CallsEnd(z, q, k)
    BY <1>2, <2>1, FailedPage
  <2> HIDE DEF z
  <2>3. ~q.token
    BY <2>1, <2>2 DEF CallsEnd
  <2> QED
    BY <2>1, <2>2, <2>3 DEF CallsEnd
<1> QED
  BY <1>1, <1>2

LEMMA RefreshRefusedKeeps ==
    ASSUME IInv, NEW t \in Tab, RefreshRefused(t)
    PROVE  IInv'
<1> DEFINE p == [tab[t] EXCEPT !.refresh = "none", !.tok = None]
<1>1. tab[t] \in Page /\ cookie' \in {cookie, None} /\ cookie' \in Jti \cup {None}
  BY PageOK DEF RefreshRefused, NotGranted, IInv, BrowserTypeOK
<1>2. /\ p \in Page /\ p.refresh = "none" /\ p.tok = None /\ p.login = tab[t].login
      /\ p.new = tab[t].new /\ p.logout = tab[t].logout /\ p.old = tab[t].old
      /\ p.doing = tab[t].doing /\ p.token = tab[t].token
  BY <1>1 DEF Page
<1>3. PICK q : q \in {Failed(sessionCleared(p), Waiting(p), cookie'), p}
               /\ tab' = [tab EXCEPT ![t] = q]
  BY DEF RefreshRefused
<1> HIDE DEF p
<1>4. CallsEnd(p, q, cookie')
  BY <1>1, <1>2, <1>3, RefusedPage
<1>5. Only(t) /\ tab'[t] = q
  BY <1>3, <1>4, OnlyPage DEF CallsEnd
<1>6. /\ Abandon(tab[t]) \/ UNCHANGED <<orphans, lost>>
      /\ tab[t].refresh = "granted" => family[tab[t].tok] \in lost'
  BY AbandonDrops DEF RefreshRefused, NotGranted
<1>7. tab[t].logout = "granted" => tab[t].old # None
  BY DEF IInv, HeldOK
<1>8. q.token = tab[t].token \/ ~q.token
  BY <1>2, <1>4 DEF CallsEnd
<1>9. Follows(tab[t], tab'[t])
  BY <1>2, <1>4, <1>5, <1>6, <1>7, <1>8 DEF CallsEnd, Follows
<1>10. /\ ReleaseLock(t) /\ UNCHANGED <<backend, replayed, calm, out>>
       /\ events' \in 0..MaxEvents
  BY DEF RefreshRefused, IInv, BrowserTypeOK
<1>11. q.refresh = "none"
  BY <1>2, <1>4 DEF CallsEnd
<1>12. Quietly
  BY <1>1, <1>5, <1>6, <1>9, <1>10, <1>11, DropQuietly
<1>13. t \in calm => /\ tab'[t].doing = "none"
                     /\ tab'[t].logout = tab[t].logout /\ tab'[t].old = tab[t].old
  <2>1. t \in calm => tab[t].doing = "none"
    BY DEF IInv, CalmOK, CalmPage
  <2> QED
    BY <1>2, <1>4, <1>5, <2>1 DEF CallsEnd
<1> QED
  BY <1>5, <1>10, <1>12, <1>13, OnlyKeeps

-----------------------------------------------------------------------------
(* A refresh is sent. *)

LEMMA RefreshSendKeeps ==
    ASSUME IInv, NEW t \in Tab, RefreshSend(t)
    PROVE  IInv'
<1> DEFINE p == tab[t]
           q == [p EXCEPT !.refresh = "sent", !.tok = cookie]
<1>1. /\ p \in Page /\ tab' = [tab EXCEPT ![t] = q] /\ cookie \in Jti \cup {None}
      /\ p.refresh = "queued"
  BY PageOK DEF RefreshSend, IInv, BrowserTypeOK
<1>2. ASSUME NEW z, z = q
      PROVE  /\ z \in Page /\ z.refresh = "sent" /\ z.tok = cookie /\ z.login = p.login
             /\ z.new = p.new /\ z.logout = p.logout /\ z.old = p.old /\ z.token = p.token
  BY <1>1, <1>2 DEF Page
<1> HIDE DEF q
<1>3. Only(t) /\ tab'[t] = q
  BY <1>1, <1>2, OnlyPage
<1>4. /\ UNCHANGED <<account, issued, session, family, cookie, orphans, events, lost,
                     replayed, out>>
      /\ calm' = {} /\ lock' \in {t, lock}
  BY DEF RefreshSend, backend
<1>5. BrowserTypeOK' /\ BackendOK'
  BY <1>3, <1>4 DEF IInv, BrowserTypeOK, BackendOK, Only, NoLogout
<1>6. ASSUME NEW s \in Tab
      PROVE  /\ tab'[s].login = tab[s].login /\ tab'[s].new = tab[s].new
             /\ tab'[s].logout = tab[s].logout /\ tab'[s].old = tab[s].old
             /\ tab'[s].token = tab[s].token
             /\ tab'[s].tok \in {tab[s].tok, cookie}
             /\ tab[s].refresh = "granted" \/ tab'[s].refresh = "granted" =>
                   tab'[s].refresh = tab[s].refresh /\ tab'[s].tok = tab[s].tok
             /\ tab'[s].refresh = "sent" =>
                   \/ s = t /\ tab'[s].tok = cookie
                   \/ s # t /\ tab[s].refresh = "sent" /\ tab'[s].tok = tab[s].tok
  BY <1>1, <1>2, <1>3 DEF Only
<1>7. HeldOK'
  BY <1>4, <1>6 DEF IInv, HeldOK
<1>8. ASSUME NEW n, Unread(n)
      PROVE  Unread(n)'
  BY <1>4, <1>6, <1>8 DEF Unread, Bound
<1>9. AnswersOK'
  <2>1. ASSUME NEW s \in Tab, tab'[s].refresh = "granted"
        PROVE  Unread(tab[s].tok)'
    <3>1. tab'[s].tok = tab[s].tok /\ Unread(tab[s].tok)
      BY <1>6, <2>1 DEF IInv, AnswersOK
    <3>2. ASSUME NEW m, m = tab[s].tok PROVE Unread(m)'
      BY <1>8, <3>1, <3>2
    <3> QED
      BY <3>1, <3>2 DEF Unread, Bound
  <2>2. ASSUME NEW s \in Tab, tab'[s].login = "granted"
        PROVE  Unread(tab[s].new)'
    <3>1. tab'[s].new = tab[s].new /\ Unread(tab[s].new)
      BY <1>6, <2>2 DEF IInv, AnswersOK
    <3>2. ASSUME NEW m, m = tab[s].new PROVE Unread(m)'
      BY <1>8, <3>1, <3>2
    <3> QED
      BY <3>1, <3>2 DEF Unread, Bound
  <2> QED
    BY <1>6, <2>1, <2>2 DEF IInv, AnswersOK
<1>10. CookieOK'
  BY <1>4, <1>6 DEF IInv, CookieOK, IsLost, Bound
<1>11. LocksOK'
  <2> SUFFICES ASSUME WebLocks PROVE LocksOK'
    BY DEF LocksOK
  <2>1. lock = None /\ lock' = t /\ replayed = {}
    BY DEF RefreshSend, IInv, LocksOK
  <2>2. ASSUME NEW s \in Tab
        PROVE  tab[s].refresh \notin {"sent", "granted"}
    BY <2>1, BrowserAssumption DEF IInv, LocksOK
  <2>3. ASSUME NEW s \in Tab, tab'[s].refresh \in {"sent", "granted"}
        PROVE  s = t /\ tab'[s].tok = cookie
    BY <1>6, <2>2, <2>3
  <2>4. cookie # None => IsLost(cookie) \/ Bound(cookie)
    BY <2>2 DEF IInv, CookieOK
  <2> QED
    BY <1>4, <2>1, <2>3, <2>4 DEF LocksOK, IsLost, Bound
<1>12. OrphansOK' /\ CalmOK'
  BY <1>4 DEF IInv, OrphansOK, CalmOK, IsLost
<1>13. OutOK'
  <2> SUFFICES ASSUME out # NoLogout PROVE OutOK'
    BY <1>4 DEF OutOK, NoLogout
  <2>1. /\ out.tok \in issued /\ out.tab \in Tab
        /\ ~Usable(cookie) /\ ~tab[out.tab].token
        /\ session[family[out.tok]].usable = {} \/ family[out.tok] \in lost
    BY DEF IInv, OutOK, LoggedOutStaysOut, BrowserTypeOK
  <2>2. ASSUME NEW s \in Tab
        PROVE  /\ tab'[s].refresh # "granted" /\ tab'[s].login = "none"
               /\ tab'[s].refresh = "sent" => ~Usable(tab[s].tok)'
    BY <1>4, <1>6, <2>1 DEF IInv, OutOK, Usable
  <2>3. ~tab'[out.tab].token /\ ~Usable(cookie)'
    BY <1>4, <1>6, <2>1 DEF Usable
  <2> QED
    BY <1>4, <2>1, <2>2, <2>3 DEF OutOK, LoggedOutStaysOut
<1> QED
  BY <1>5, <1>7, <1>9, <1>10, <1>11, <1>12, <1>13 DEF IInv

-----------------------------------------------------------------------------
(* The backend issues a token: in the answer to a refresh or to a login, or    *)
(* for a request nobody waits for.                                             *)

\* The pages as they were, but perhaps for one that has the token n as an answer.
Gains(n) ==
    /\ tab' \in [Tab -> Page]
    /\ \A s \in Tab :
          /\ \/ tab'[s].refresh = tab[s].refresh /\ tab'[s].tok = tab[s].tok
             \/ tab[s].refresh = "sent" /\ tab'[s].refresh = "granted" /\ tab'[s].tok = n
          /\ \/ tab'[s].login = tab[s].login /\ tab'[s].new = tab[s].new
             \/ tab[s].login = "none" /\ tab'[s].login = "granted" /\ tab'[s].new = n
          /\ tab'[s].logout = tab[s].logout /\ tab'[s].old = tab[s].old
          /\ tab'[s].doing = tab[s].doing /\ tab'[s].token = tab[s].token
    /\ UNCHANGED <<cookie, lock, events, lost, replayed>>
    /\ orphans' \subseteq orphans

LEMMA GainsBase ==
    ASSUME IInv, NEW f, NEW n, Grows(f, n), Gains(n), calm' \subseteq calm,
           out' \in {out, NoLogout}
    PROVE  /\ BrowserTypeOK' /\ BackendOK' /\ HeldOK' /\ OrphansOK'
           /\ n \in Jti /\ n # None /\ n \notin issued
<1>1. n \in Jti /\ n # None /\ n \notin issued /\ issued' = issued \cup {n}
  BY BrowserAssumption DEF Grows
<1>2. BackendOK'
  BY KeptGrow DEF IInv
<1>3. BrowserTypeOK'
  BY DEF IInv, BrowserTypeOK, Gains, Grows, NoLogout
<1>4. HeldOK'
  BY <1>1 DEF IInv, HeldOK, Gains
<1>5. OrphansOK'
  BY DEF IInv, OrphansOK, HeldOK, Gains, Grows, IsLost
<1> QED
  BY <1>1, <1>2, <1>3, <1>4, <1>5

\* The answers under way stay unread, if they are in other sessions.
LEMMA GainsAnswers ==
    ASSUME IInv, NEW f, NEW n, Grows(f, n), Gains(n), NEW m, Unread(m), m \in issued,
           family[m] # f
    PROVE  Unread(m)'
<1>1. family'[m] = family[m] /\ session'[family[m]].usable \subseteq {m}
  BY KeptGrow DEF IInv, Unread
<1> QED
  BY <1>1 DEF Unread, Bound, Gains

LEMMA GainsNew ==
    ASSUME IInv, NEW f, NEW n, Grows(f, n), Gains(n)
    PROVE  Unread(n)'
<1>1. n \notin issued /\ n # None /\ session'[family'[n]].usable = {n}
  BY BrowserAssumption, KeptGrow DEF Grows, IInv
<1>2. cookie # n /\ n \notin orphans /\ \A s \in Tab : tab[s].tok # n
  BY <1>1 DEF IInv, HeldOK
<1> QED
  BY <1>1, <1>2 DEF Unread, Bound, Gains

\* All answers, when the token is issued in a session with no answer under way and
\* comes in one answer at most.
LEMMA GainsUnread ==
    ASSUME IInv, NEW f, NEW n, Grows(f, n), Gains(n),
           \A m \in issued : Unread(m) => family[m] # f,
           \A s, t \in Tab : /\ tab'[s].tok = n /\ tab'[t].tok = n => s = t
                             /\ tab'[s].new = n /\ tab'[t].new = n => s = t
                             /\ ~(tab'[s].tok = n /\ tab'[t].new = n)
    PROVE  AnswersOK'
<1>1. ASSUME NEW m \in issued, Unread(m)
      PROVE  Unread(m)'
  BY <1>1, GainsAnswers
<1>2. Unread(n)' /\ n \notin issued
  BY GainsNew DEF Grows
<1>3. ASSUME NEW s \in Tab, tab'[s].refresh = "granted"
      PROVE  \/ tab'[s].tok = n
             \/ /\ tab'[s].tok = tab[s].tok /\ tab[s].refresh = "granted"
                /\ tab[s].tok \in issued /\ Unread(tab[s].tok)
  BY <1>3 DEF Gains, IInv, HeldOK, AnswersOK
<1>4. ASSUME NEW s \in Tab, tab'[s].login = "granted"
      PROVE  \/ tab'[s].new = n
             \/ /\ tab'[s].new = tab[s].new /\ tab[s].login = "granted"
                /\ tab[s].new \in issued /\ Unread(tab[s].new)
  BY <1>4 DEF Gains, IInv, HeldOK, AnswersOK
<1>5. ASSUME NEW s \in Tab, tab'[s].refresh = "granted"
      PROVE  Unread(tab[s].tok)'
  <2>1. ASSUME NEW m, m = tab'[s].tok
        PROVE  Unread(m)'
    BY <1>1, <1>2, <1>3, <1>5, <2>1
  <2> QED
    BY <2>1 DEF Unread, Bound
<1>6. ASSUME NEW s \in Tab, tab'[s].login = "granted"
      PROVE  Unread(tab[s].new)'
  <2>1. ASSUME NEW m, m = tab'[s].new
        PROVE  Unread(m)'
    BY <1>1, <1>2, <1>4, <1>6, <2>1
  <2> QED
    BY <2>1 DEF Unread, Bound
<1>7. ASSUME NEW s \in Tab, NEW t \in Tab
      PROVE  /\ tab'[s].refresh = "granted" /\ tab'[t].login = "granted" =>
                   tab'[s].tok # tab'[t].new
             /\ s # t /\ tab'[s].refresh = "granted" /\ tab'[t].refresh = "granted" =>
                   tab'[s].tok # tab'[t].tok
             /\ s # t /\ tab'[s].login = "granted" /\ tab'[t].login = "granted" =>
                   tab'[s].new # tab'[t].new
  BY <1>2, <1>3, <1>4 DEF IInv, AnswersOK
<1> QED
  BY <1>5, <1>6, <1>7 DEF AnswersOK

\* The cookie, when what was issued is on its way to this browser, or lost.
LEMMA GainsCookie ==
    ASSUME IInv, NEW f, NEW n, Grows(f, n), Gains(n),
           cookie \in issued /\ family[cookie] = f =>
              f \in lost \/ \E t \in Tab : tab'[t].refresh = "granted" /\ tab'[t].tok = n
    PROVE  CookieOK'
<1> SUFFICES ASSUME cookie # None PROVE CookieOK'
  BY DEF CookieOK, Gains
<1>1. cookie \in issued /\ cookie' = cookie /\ family'[cookie] = family[cookie] /\ lost' = lost
  BY DEF IInv, HeldOK, Gains, Grows
<1>2. CASE family[cookie] = f
  <2>1. family'[n] = f
    BY DEF Grows
  <2> QED
    BY <1>1, <1>2, <2>1 DEF CookieOK, IsLost
<1>3. CASE family[cookie] # f
  <2>1. CASE IsLost(cookie)
    BY <1>1, <2>1 DEF CookieOK, IsLost
  <2>2. CASE Bound(cookie)
    BY <1>1, <1>3, <2>2, KeptGrow DEF CookieOK, Bound, IInv
  <2>3. CASE \E t \in Tab : tab[t].refresh = "granted" /\ family[tab[t].tok] = family[cookie]
    <3>1. PICK t \in Tab : tab[t].refresh = "granted" /\ family[tab[t].tok] = family[cookie]
      BY <2>3
    <3>2. tab'[t].refresh = "granted" /\ tab'[t].tok = tab[t].tok /\ tab[t].tok \in issued
      BY <3>1 DEF Gains, IInv, HeldOK
    <3>3. family'[tab[t].tok] = family[tab[t].tok]
      BY <3>2 DEF Grows
    <3> QED
      BY <1>1, <3>1, <3>2, <3>3 DEF CookieOK
  <2> QED
    BY <1>1, <2>1, <2>2, <2>3 DEF IInv, CookieOK
<1> QED
  BY <1>2, <1>3

LEMMA ExchangedKeeps ==
    ASSUME IInv, NEW t \in Tab, tab[t].refresh = "sent", tab[t].tok # None,
           Exchanged(tab[t].tok, Fresh),
           tab' = [tab EXCEPT ![t].refresh = "granted", ![t].tok = Fresh],
           UNCHANGED <<cookie, lock, orphans, events, lost, calm, out>>
    PROVE  IInv'
<1> DEFINE p == tab[t]
           j == p.tok
           f == family[j]
           n == Fresh
           q == [p EXCEPT !.refresh = "granted", !.tok = n]
<1>1. p \in Page /\ j \in issued
  BY PageOK DEF IInv, HeldOK
<1>2. Grows(f, n) /\ Usable(j) /\ replayed' = replayed
  BY <1>1, ExchangeGrows DEF IInv, Exchanged
<1>3. n \in Jti /\ n \notin issued /\ n # None
  BY <1>2, BrowserAssumption DEF Grows
<1>4. tab' = [tab EXCEPT ![t] = q]
  BY DEF IInv, BrowserTypeOK
<1> HIDE DEF n, f
<1>5. ASSUME NEW z, z = q
      PROVE  /\ z \in Page /\ z.refresh = "granted" /\ z.tok = n /\ z.login = p.login
             /\ z.new = p.new /\ z.logout = p.logout /\ z.old = p.old
             /\ z.doing = p.doing /\ z.token = p.token
  BY <1>1, <1>3, <1>5 DEF Page
<1> HIDE DEF q
<1>6. Only(t) /\ tab'[t] = q
  <2>1. q \in Page
    BY <1>5
  <2> QED
    BY <1>4, <2>1, OnlyPage
<1>7. Gains(n)
  <2>1. /\ tab'[t].refresh = "granted" /\ tab'[t].tok = n /\ tab'[t].login = p.login
        /\ tab'[t].new = p.new /\ tab'[t].logout = p.logout /\ tab'[t].old = p.old
        /\ tab'[t].doing = p.doing /\ tab'[t].token = p.token
    BY <1>5, <1>6
  <2>2. \A s \in Tab : s # t => tab'[s] = tab[s]
    BY <1>6 DEF Only
  <2>3. tab' \in [Tab -> Page]
    BY <1>6 DEF Only
  <2> QED
    BY <1>2, <2>1, <2>2, <2>3 DEF Gains
<1>8. ASSUME NEW m \in issued, Unread(m)
      PROVE  family[m] # f
  <2>1. m # j /\ session[family[m]].usable \subseteq {m}
    BY <1>8 DEF Unread, Bound
  <2> QED
    BY <1>2, <2>1 DEF Usable, f
<1>9. ASSUME NEW s \in Tab
      PROVE  /\ tab'[s].tok = n => s = t
             /\ tab'[s].new # n
  BY <1>3, <1>5, <1>6 DEF Only, IInv, HeldOK
<1>10. AnswersOK'
  BY <1>2, <1>7, <1>8, <1>9, GainsUnread
<1>11. tab'[t].refresh = "granted" /\ tab'[t].tok = n
  BY <1>5, <1>6
<1>12. CookieOK'
  BY <1>2, <1>7, <1>11, GainsCookie
<1>13. LocksOK'
  <2> SUFFICES ASSUME WebLocks PROVE LocksOK'
    BY DEF LocksOK
  <2>1. /\ lock = t /\ replayed = {}
        /\ \A s \in Tab : tab[s].refresh \in {"sent", "granted"} => s = t
    BY DEF IInv, LocksOK
  <2>2. ASSUME NEW s \in Tab, tab'[s].refresh \in {"sent", "granted"}
        PROVE  s = t
    BY <1>6, <2>1, <2>2 DEF Only
  <2> QED
    BY <1>2, <1>11, <2>1, <2>2 DEF LocksOK
<1>14. calm = {} /\ out = NoLogout
  <2>1. ~Quiet
    BY DEF Quiet
  <2> QED
    BY <1>2, <2>1 DEF IInv, CalmOK, CalmPage, OutOK
<1>15. CalmOK' /\ OutOK'
  BY <1>14 DEF CalmOK, OutOK, NoLogout
<1> QED
  BY <1>2, <1>7, <1>10, <1>12, <1>13, <1>15, GainsBase DEF IInv

LEMMA OrphanExchangedKeeps ==
    ASSUME IInv, NEW j \in orphans, Exchanged(j, Fresh), orphans' = orphans \ {j},
           UNCHANGED <<cookie, lock, tab, events, lost, calm, out>>
    PROVE  IInv'
<1> DEFINE f == family[j]
           n == Fresh
<1>1. j \in issued /\ f \in lost
  BY DEF IInv, HeldOK, OrphansOK, IsLost
<1>2. Grows(f, n) /\ Usable(j) /\ replayed' = replayed
  BY <1>1, ExchangeGrows DEF IInv, Exchanged
<1>3. n \in Jti /\ n \notin issued /\ n # None
  BY <1>2, BrowserAssumption DEF Grows
<1> HIDE DEF n, f
<1>4. Gains(n)
  BY <1>2 DEF Gains, IInv, BrowserTypeOK
<1>5. ASSUME NEW m \in issued, Unread(m)
      PROVE  family[m] # f
  <2>1. m # j /\ session[family[m]].usable \subseteq {m}
    BY <1>5 DEF Unread, Bound
  <2> QED
    BY <1>2, <2>1 DEF Usable, f
<1>6. ASSUME NEW s \in Tab
      PROVE  tab'[s].tok # n /\ tab'[s].new # n
  BY <1>3 DEF IInv, HeldOK
<1>7. AnswersOK'
  BY <1>2, <1>4, <1>5, <1>6, GainsUnread
<1>8. CookieOK'
  BY <1>1, <1>2, <1>4, GainsCookie
<1>9. \A i \in issued :
         /\ family'[i] = family[i]
         /\ IsLost(i) \/ Bound(i) =>
               family[i] \in lost \/ session'[family[i]].usable \subseteq {i}
         /\ IsLost(i) \/ IsClosed(i) => family[i] \in lost \/ session'[family[i]].usable = {}
         /\ ~Usable(i) => i \notin session'[family[i]].usable
  BY <1>1, <1>2, KeptGrow DEF IInv, IsLost
<1>10. LocksOK'
  BY <1>2, <1>9 DEF IInv, LocksOK, HeldOK, IsLost, Bound
<1>11. ASSUME NEW t \in calm
       PROVE  CalmPage(t)'
  <2>1. /\ CalmPage(t) /\ tab[t].old \in issued \cup {None}
        /\ tab[t].logout = "granted" => tab[t].old # None
    BY DEF IInv, CalmOK, HeldOK, BrowserTypeOK
  <2> QED
    BY <1>9, <2>1 DEF CalmPage, Quiet, IsLost, Bound, IsClosed
<1>12. OutOK'
  <2> SUFFICES ASSUME out # NoLogout PROVE OutOK'
    BY DEF OutOK, NoLogout
  <2>1. out.tok \in issued /\ out.tok \in issued'
    BY <1>2 DEF IInv, OutOK, Grows
  <2>2. LoggedOutStaysOut /\ cookie \in issued \cup {None}
    BY DEF IInv, OutOK, HeldOK
  <2>3. ~Usable(cookie)'
    BY <1>9, <2>2 DEF LoggedOutStaysOut, Usable
  <2>4. session'[family'[out.tok]].usable = {} \/ family'[out.tok] \in lost
    BY <1>9, <2>1, <2>2 DEF LoggedOutStaysOut, IsLost, IsClosed
  <2>5. ~tab[out.tab].token
    BY <2>2 DEF LoggedOutStaysOut
  <2>6. ASSUME NEW s \in Tab
        PROVE  /\ tab[s].refresh # "granted" /\ tab[s].login = "none"
               /\ tab[s].refresh = "sent" => ~Usable(tab[s].tok)'
    <3>1. /\ tab[s].refresh # "granted" /\ tab[s].login = "none"
          /\ tab[s].refresh = "sent" => ~Usable(tab[s].tok)
          /\ tab[s].tok \in issued \cup {None}
      BY DEF IInv, OutOK, HeldOK
    <3> QED
      BY <1>9, <3>1 DEF Usable
  <2> QED
    BY <2>1, <2>3, <2>4, <2>5, <2>6 DEF OutOK, LoggedOutStaysOut
<1>13. CalmOK'
  BY <1>11 DEF CalmOK
<1> QED
  BY <1>2, <1>4, <1>7, <1>8, <1>10, <1>12, <1>13, GainsBase DEF IInv

LEMMA RefreshServedKeeps ==
    ASSUME IInv, NEW t \in Tab, RefreshServed(t)
    PROVE  IInv'
<1> DEFINE j == tab[t].tok
<1>1. j \in issued /\ j # None
  BY DEF RefreshServed, Exchanged, Replayed, Usable, IInv, HeldOK
<1>2. CASE Exchanged(j, Fresh) /\ tab' = [tab EXCEPT ![t].refresh = "granted", ![t].tok = Fresh]
  BY <1>1, <1>2, ExchangedKeeps DEF RefreshServed
<1>3. CASE Replayed(j) /\ UNCHANGED tab
  <2>1. WebLocks => IsLost(j) \/ Bound(j)
    BY <1>1 DEF RefreshServed, IInv, LocksOK
  <2> QED
    BY <1>1, <1>3, <2>1, ReplayedKeeps DEF RefreshServed
<1> QED
  BY <1>2, <1>3 DEF RefreshServed

LEMMA OrphanServedKeeps ==
    ASSUME IInv, NEW j \in Jti, OrphanServed(j)
    PROVE  IInv'
<1>1. j \in orphans /\ j \in issued /\ IsLost(j)
  BY DEF OrphanServed, IInv, HeldOK, OrphansOK
<1>2. CASE Exchanged(j, Fresh)
  BY <1>1, <1>2, OrphanExchangedKeeps DEF OrphanServed
<1>3. CASE Replayed(j)
  BY <1>1, <1>3, ReplayedKeeps DEF OrphanServed
<1> QED
  BY <1>2, <1>3 DEF OrphanServed

LEMMA LoginServedKeeps ==
    ASSUME IInv, NEW t \in Tab, LoginServed(t)
    PROVE  IInv'
<1> DEFINE p == tab[t]
           n == Fresh
           q == [p EXCEPT !.login = "granted", !.new = n]
<1>1. p \in Page /\ p.login = "none"
  BY PageOK DEF LoginServed
<1>2. Grows(n, n)
  BY OpenGrows DEF IInv, LoginServed
<1>3. n \in Jti /\ n \notin issued /\ n # None
  BY <1>2, BrowserAssumption DEF Grows
<1>4. /\ tab' = [tab EXCEPT ![t] = q] /\ calm' = {} /\ out' = NoLogout
      /\ UNCHANGED <<cookie, lock, orphans, events, lost, replayed>>
  BY DEF LoginServed
<1> HIDE DEF n
<1>5. ASSUME NEW z, z = q
      PROVE  /\ z \in Page /\ z.login = "granted" /\ z.new = n /\ z.refresh = p.refresh
             /\ z.tok = p.tok /\ z.logout = p.logout /\ z.old = p.old
             /\ z.doing = p.doing /\ z.token = p.token
  BY <1>1, <1>3, <1>5 DEF Page
<1> HIDE DEF q
<1>6. Only(t) /\ tab'[t] = q
  <2>1. q \in Page
    BY <1>5
  <2> QED
    BY <1>4, <2>1, OnlyPage
<1>7. Gains(n)
  <2>1. /\ tab'[t].login = "granted" /\ tab'[t].new = n /\ tab'[t].refresh = p.refresh
        /\ tab'[t].tok = p.tok /\ tab'[t].logout = p.logout /\ tab'[t].old = p.old
        /\ tab'[t].doing = p.doing /\ tab'[t].token = p.token
    BY <1>5, <1>6
  <2>2. \A s \in Tab : s # t => tab'[s] = tab[s]
    BY <1>6 DEF Only
  <2>3. tab' \in [Tab -> Page]
    BY <1>6 DEF Only
  <2> QED
    BY <1>1, <1>4, <2>1, <2>2, <2>3 DEF Gains
<1>8. \A m \in issued : family[m] # n
  BY <1>3 DEF IInv, BackendOK
<1>9. ASSUME NEW s \in Tab
      PROVE  /\ tab'[s].new = n => s = t
             /\ tab'[s].tok # n
             /\ tab'[s].refresh = tab[s].refresh /\ tab'[s].tok = tab[s].tok
  BY <1>3, <1>5, <1>6 DEF Only, IInv, HeldOK
<1>10. AnswersOK'
  BY <1>2, <1>7, <1>8, <1>9, GainsUnread
<1>11. CookieOK'
  BY <1>2, <1>7, <1>8, GainsCookie
<1>12. LocksOK'
  <2> SUFFICES ASSUME WebLocks PROVE LocksOK'
    BY DEF LocksOK
  <2>1. \A i \in issued :
           /\ family'[i] = family[i]
           /\ Bound(i) => session'[family[i]].usable \subseteq {i}
    BY <1>2, <1>8, KeptGrow DEF IInv
  <2>2. ASSUME NEW s \in Tab, tab[s].refresh = "sent", tab[s].tok # None
        PROVE  IsLost(tab[s].tok)' \/ Bound(tab[s].tok)'
    <3>1. tab[s].tok \in issued /\ (IsLost(tab[s].tok) \/ Bound(tab[s].tok))
      BY <2>2 DEF IInv, LocksOK, HeldOK
    <3> QED
      BY <1>4, <1>9, <2>1, <3>1 DEF IsLost, Bound
  <2> QED
    BY <1>4, <1>9, <2>2 DEF IInv, LocksOK
<1>13. CalmOK' /\ OutOK'
  BY <1>4 DEF CalmOK, OutOK, NoLogout
<1> QED
  BY <1>2, <1>4, <1>7, <1>10, <1>11, <1>12, <1>13, GainsBase DEF IInv

-----------------------------------------------------------------------------
(* An answer is read. *)

\* Page t takes the token m out of its answer; the other answers stay as they are.
Reads(t, m) ==
    /\ Only(t)
    /\ m \in issued /\ Bound(m) /\ cookie' = m
    /\ UNCHANGED <<account, issued, session, family, orphans, events, lost, replayed>>
    /\ calm' = {} /\ out' = NoLogout
    /\ lock' \in Tab \cup {None}
    /\ tab'[t].tok \in {tab[t].tok, None} /\ tab'[t].new \in {tab[t].new, None}
    /\ tab'[t].logout = tab[t].logout /\ tab'[t].old = tab[t].old
    /\ \A s \in Tab :
          /\ tab'[s].refresh \in {"sent", "granted"} =>
                /\ tab'[s].refresh = tab[s].refresh /\ tab'[s].tok = tab[s].tok
                /\ tab'[s].refresh = "granted" => tab[s].tok # m
                /\ lock = s => lock' = s
          /\ tab'[s].login = "granted" =>
                tab[s].login = "granted" /\ tab'[s].new = tab[s].new /\ tab[s].new # m

LEMMA ReadsKeeps ==
    ASSUME IInv, NEW t \in Tab, NEW m, Reads(t, m)
    PROVE  IInv'
<1>1. BrowserTypeOK' /\ BackendOK'
  BY DEF IInv, BrowserTypeOK, BackendOK, Reads, Only, NoLogout
<1>2. ASSUME NEW s \in Tab
      PROVE  /\ tab'[s].tok \in {tab[s].tok, None} /\ tab'[s].new \in {tab[s].new, None}
             /\ tab'[s].logout = tab[s].logout /\ tab'[s].old = tab[s].old
  BY DEF Reads, Only
<1>3. HeldOK'
  BY <1>2 DEF IInv, HeldOK, Reads
<1>4. ASSUME NEW n, Unread(n), n # m
      PROVE  Unread(n)'
  BY <1>4 DEF Unread, Bound, Reads
<1>5. ASSUME NEW s \in Tab, tab'[s].refresh = "granted"
      PROVE  Unread(tab[s].tok)'
  <2>1. tab'[s].tok = tab[s].tok /\ Unread(tab[s].tok) /\ tab[s].tok # m
    BY <1>5 DEF IInv, AnswersOK, Reads
  <2>2. ASSUME NEW n, n = tab[s].tok PROVE Unread(n)'
    BY <1>4, <2>1, <2>2
  <2> QED
    BY <2>1, <2>2 DEF Unread, Bound
<1>6. ASSUME NEW s \in Tab, tab'[s].login = "granted"
      PROVE  Unread(tab[s].new)'
  <2>1. tab'[s].new = tab[s].new /\ Unread(tab[s].new) /\ tab[s].new # m
    BY <1>6 DEF IInv, AnswersOK, Reads
  <2>2. ASSUME NEW n, n = tab[s].new PROVE Unread(n)'
    BY <1>4, <2>1, <2>2
  <2> QED
    BY <2>1, <2>2 DEF Unread, Bound
<1>7. AnswersOK'
  BY <1>5, <1>6 DEF IInv, AnswersOK, Reads
<1>8. CookieOK'
  BY DEF CookieOK, Bound, Reads
<1>9. LocksOK'
  BY DEF IInv, LocksOK, Reads, IsLost, Bound
<1>10. OrphansOK' /\ CalmOK' /\ OutOK'
  BY DEF IInv, OrphansOK, CalmOK, OutOK, IsLost, Reads, NoLogout
<1> QED
  BY <1>1, <1>3, <1>7, <1>8, <1>9, <1>10 DEF IInv

\* The page after a refresh: whoever waited goes on.
LEMMA RefreshGrantedKeeps ==
    ASSUME IInv, NEW t \in Tab, RefreshGranted(t)
    PROVE  IInv'
<1> DEFINE p == tokenRefreshed(tab[t])
           m == tab[t].tok
           d == IF p.doing = "restoring" THEN "loading" ELSE p.doing
           cs == [c \in Call |-> CASE p.doing = "restoring" -> "sent"
                                   [] p.call[c] = "waiting" -> "retried"
                                   [] OTHER -> p.call[c]]
           q == [p EXCEPT !.refresh = "none", !.tok = None, !.doing = d, !.call = cs]
<1>1. tab[t] \in Page /\ tab[t].refresh = "granted"
  BY PageOK DEF RefreshGranted
<1>2. /\ p \in Page /\ p.login = tab[t].login /\ p.new = tab[t].new
      /\ p.logout = tab[t].logout /\ p.old = tab[t].old
  BY <1>1 DEF Page, tokenRefreshed
<1> HIDE DEF p
<1>3. tab' = [tab EXCEPT ![t] = q]
  BY <1>2 DEF RefreshGranted, p, Page
<1>4. /\ d \in {"none", "restoring", "loading", "authorizing", "leaving"}
      /\ p.call \in [Call -> {"idle", "sent", "waiting", "retried"}]
  BY <1>2 DEF Page
<1>5. cs \in [Call -> {"idle", "sent", "waiting", "retried"}]
  BY <1>4
<1> HIDE DEF d, cs
<1>6. ASSUME NEW z, z = q
      PROVE  /\ z \in Page /\ z.refresh = "none" /\ z.tok = None /\ z.login = p.login
             /\ z.new = p.new /\ z.logout = p.logout /\ z.old = p.old
  BY <1>2, <1>4, <1>5, <1>6 DEF Page
<1> HIDE DEF q
<1>7. Only(t) /\ tab'[t] = q
  BY <1>3, <1>6, OnlyPage
<1>8. m \in issued /\ m # None /\ Unread(m)
  BY <1>1 DEF IInv, HeldOK, AnswersOK
<1>9. /\ UNCHANGED <<account, issued, session, family, orphans, events, lost, replayed,
                     calm, out>>
      /\ cookie' = m /\ ReleaseLock(t)
  BY DEF RefreshGranted, backend, history
<1>10. calm' = {} /\ out' = NoLogout
  <2>1. ~Quiet
    BY <1>1 DEF Quiet
  <2> QED
    BY <1>1, <1>9, <2>1 DEF IInv, CalmOK, CalmPage, OutOK
<1>11. /\ lock' \in Tab \cup {None}
       /\ \A s \in Tab : tab'[s].refresh \in {"sent", "granted"} /\ lock = s => lock' = s
  BY <1>6, <1>7, <1>9, LockReleased
<1>12. ASSUME NEW s \in Tab, tab'[s].refresh \in {"sent", "granted"}
       PROVE  /\ tab'[s].refresh = tab[s].refresh /\ tab'[s].tok = tab[s].tok
              /\ tab'[s].refresh = "granted" => tab[s].tok # m
  <2>1. s # t /\ tab'[s] = tab[s]
    BY <1>6, <1>7, <1>12 DEF Only
  <2> QED
    BY <1>1, <2>1 DEF IInv, AnswersOK
<1>13. ASSUME NEW s \in Tab, tab'[s].login = "granted"
       PROVE  tab[s].login = "granted" /\ tab'[s].new = tab[s].new /\ tab[s].new # m
  <2>1. tab'[s].login = tab[s].login /\ tab'[s].new = tab[s].new
    BY <1>2, <1>6, <1>7 DEF Only
  <2> QED
    BY <1>1, <1>13, <2>1 DEF IInv, AnswersOK
<1>14. Reads(t, m)
  BY <1>2, <1>6, <1>7, <1>8, <1>9, <1>10, <1>11, <1>12, <1>13 DEF Reads, Unread
<1> QED
  BY <1>14, ReadsKeeps

\* The page after a login.
LEMMA StartedPage ==
    ASSUME NEW p \in Page,
           NEW q, q = [p EXCEPT !.login = "none", !.new = None, !.doing = "authorizing",
                                !.call[Authorize] = "sent"]
    PROVE  /\ q \in Page /\ q.login = "none" /\ q.new = None /\ q.refresh = p.refresh
           /\ q.tok = p.tok /\ q.logout = p.logout /\ q.old = p.old
  BY BrowserAssumption DEF Page

LEMMA LoginGrantedKeeps ==
    ASSUME IInv, NEW t \in Tab, LoginGranted(t)
    PROVE  IInv'
<1> DEFINE p == sessionStarted(tab[t])
           m == tab[t].new
           q == [p EXCEPT !.login = "none", !.new = None, !.doing = "authorizing",
                          !.call[Authorize] = "sent"]
<1>1. tab[t] \in Page /\ tab[t].login = "granted"
  BY PageOK DEF LoginGranted
<1>2. /\ p \in Page /\ p.refresh = tab[t].refresh /\ p.tok = tab[t].tok
      /\ p.logout = tab[t].logout /\ p.old = tab[t].old
  BY <1>1 DEF Page, sessionStarted
<1>3. tab' = [tab EXCEPT ![t] = q]
  BY DEF LoginGranted, IInv, BrowserTypeOK
<1> HIDE DEF p
<1>4. /\ q \in Page /\ q.login = "none" /\ q.new = None /\ q.refresh = p.refresh
      /\ q.tok = p.tok /\ q.logout = p.logout /\ q.old = p.old
  BY <1>2, StartedPage
<1> HIDE DEF q
<1>5. Only(t) /\ tab'[t] = q
  BY <1>3, <1>4, OnlyPage
<1>6. m \in issued /\ m # None /\ Unread(m)
  BY <1>1 DEF IInv, HeldOK, AnswersOK
<1>7. /\ UNCHANGED <<account, issued, session, family, lock, orphans, events, lost,
                     replayed, calm, out>>
      /\ cookie' = m
  BY DEF LoginGranted, backend, history
<1>8. calm' = {} /\ out' = NoLogout
  <2>1. ~Quiet
    BY <1>1 DEF Quiet
  <2> QED
    BY <1>1, <1>7, <2>1 DEF IInv, CalmOK, CalmPage, OutOK
<1>9. lock' \in Tab \cup {None}
  BY <1>7 DEF IInv, BrowserTypeOK
<1>10. ASSUME NEW s \in Tab
       PROVE  /\ tab'[s].refresh = tab[s].refresh /\ tab'[s].tok = tab[s].tok
              /\ tab'[s].refresh = "granted" => tab[s].tok # m
  <2>1. tab'[s].refresh = tab[s].refresh /\ tab'[s].tok = tab[s].tok
    BY <1>2, <1>4, <1>5 DEF Only
  <2> QED
    BY <1>1, <2>1 DEF IInv, AnswersOK
<1>11. ASSUME NEW s \in Tab, tab'[s].login = "granted"
       PROVE  tab[s].login = "granted" /\ tab'[s].new = tab[s].new /\ tab[s].new # m
  <2>1. s # t /\ tab'[s] = tab[s]
    BY <1>4, <1>5, <1>11 DEF Only
  <2> QED
    BY <1>1, <1>11, <2>1 DEF IInv, AnswersOK
<1>12. Reads(t, m)
  BY <1>2, <1>4, <1>5, <1>6, <1>7, <1>8, <1>9, <1>10, <1>11 DEF Reads, Unread
<1> QED
  BY <1>12, ReadsKeeps

-----------------------------------------------------------------------------
(* The invariant holds. *)

LEMMA InitInv == BrowserInit => IInv
<1> SUFFICES ASSUME BrowserInit PROVE IInv
  OBVIOUS
<1> DEFINE j == CHOOSE n \in Jti : TRUE
<1>1. j \in Jti /\ j # None
  BY BrowserAssumption
<1>2. PICK u \in User :
         /\ issued = {j}
         /\ session = [f \in Jti |-> IF f = j THEN [user |-> u, version |-> 1, usable |-> {j}]
                                     ELSE NoSession]
         /\ family = [n \in Jti |-> IF n = j THEN j ELSE None]
         /\ cookie = j
  BY DEF BrowserInit
<1> HIDE DEF j
<1>3. \A t \in Tab : tab[t] = NewPage
  BY DEF BrowserInit
<1>4. tab \in [Tab -> Page]
  BY NewPageOK DEF BrowserInit
<1>5. family[j] = j /\ session[j].usable = {j}
  BY <1>1, <1>2
<1>6. account \in [User -> [active : BOOLEAN, version : Nat \ {0}]]
  BY DEF BrowserInit
<1>7. session \in [Jti -> [user : User \cup {None}, version : Nat, usable : SUBSET Jti]]
  <2>1. NoSession \in [user : User \cup {None}, version : Nat, usable : SUBSET Jti]
    BY DEF NoSession
  <2>2. [user |-> u, version |-> 1, usable |-> {j}]
           \in [user : User \cup {None}, version : Nat, usable : SUBSET Jti]
    BY <1>1
  <2> QED
    BY <1>2, <2>1, <2>2
<1>8. BackendOK
  BY <1>1, <1>2, <1>5, <1>6, <1>7 DEF BackendOK
<1>9. /\ lock = None /\ orphans = {} /\ events = 0 /\ lost = {} /\ replayed = {}
      /\ calm = {} /\ out = NoLogout
  BY DEF BrowserInit
<1>10. BrowserTypeOK
  BY <1>1, <1>2, <1>4, <1>9, BrowserAssumption DEF BrowserTypeOK
<1>11. HeldOK /\ AnswersOK
  BY <1>2, <1>3, <1>9, NewPageOK DEF HeldOK, AnswersOK
<1>12. CookieOK /\ LocksOK
  BY <1>2, <1>3, <1>5, <1>9, NewPageOK DEF CookieOK, LocksOK, Bound
<1>13. OrphansOK /\ CalmOK /\ OutOK
  BY <1>9 DEF OrphansOK, CalmOK, OutOK
<1> QED
  BY <1>8, <1>10, <1>11, <1>12, <1>13 DEF IInv

LEMMA Inductive == IInv /\ [BrowserNext]_allVars => IInv'
<1> SUFFICES ASSUME IInv, [BrowserNext]_allVars PROVE IInv'
  OBVIOUS
<1>1. ASSUME NEW t \in Tab, RefreshSend(t) \/ RefreshStep(t) PROVE IInv'
  BY <1>1, RefreshSendKeeps, RefreshServedKeeps, RefreshGrantedKeeps, RefreshRefusedKeeps
     DEF RefreshStep
<1>2. ASSUME NEW t \in Tab, NEW c \in Call, CallStep(t, c) PROVE IInv'
  BY <1>2, CallUnauthorizedKeeps, CallEndsKeeps DEF CallStep
<1>3. ASSUME NEW t \in Tab, LoginStep(t) \/ LogoutStep(t) PROVE IInv'
  BY <1>3, LoginGrantedKeeps, LoginFailsKeeps, LogoutServedKeeps, LogoutFailsKeeps,
     LogoutDoneKeeps DEF LoginStep, LogoutStep
<1>4. ASSUME NEW t \in Tab, UserStep(t) PROVE IInv'
  BY <1>4, CallBeginKeeps, LoginServedKeeps, LogoutSendKeeps, ReloadKeeps DEF UserStep
<1>5. ASSUME NEW j \in Jti, OrphanServed(j) \/ EndedElsewhere(j) PROVE IInv'
  BY <1>5, OrphanServedKeeps, EndedElsewhereKeeps
<1>6. ASSUME UNCHANGED allVars PROVE IInv'
  <2>1. /\ UNCHANGED <<backend, cookie, lock, tab, lost, calm, out>>
        /\ UNCHANGED <<orphans, events, replayed>>
    BY <1>6 DEF allVars, browser, history
  <2>2. events \in 0..MaxEvents /\ replayed \in SUBSET Jti /\ (WebLocks => replayed = {})
    BY DEF IInv, BrowserTypeOK, LocksOK
  <2> QED
    BY <2>1, <2>2, ClosedKeeps, StillShrinks DEF IInv
<1> QED
  BY <1>1, <1>2, <1>3, <1>4, <1>5, <1>6 DEF BrowserNext

\* The inductive invariant of the browser: who holds which token, and whether it is
\* the usable one of its session.
THEOREM Invariance == BrowserSpec => []IInv
  BY InitInv, Inductive, PTL DEF BrowserSpec

\* Type correctness of the pages, the cookie, the Web Lock and the requests nobody
\* waits for.
THEOREM TypeCorrect == BrowserSpec => []BrowserTypeOK
<1>1. IInv => BrowserTypeOK
  BY DEF IInv
<1> QED
  BY <1>1, Invariance, PTL

\* With Web Locks the tabs of one browser, however many, present no refresh token a
\* second time of their own accord (refresh-coordinator.ts): the backend closes a
\* session as replayed only after an answer of that session was lost.
THEOREM ReplayCorrect == BrowserSpec => []ReplayOnlyAfterLoss
<1>1. IInv => ReplayOnlyAfterLoss
  BY DEF IInv, LocksOK, ReplayOnlyAfterLoss
<1> QED
  BY <1>1, Invariance, PTL

\* A logout that reported success and met no refresh and no login of this browser
\* lasts until somebody signs in, with Web Locks and without.
THEOREM LogoutCorrect == BrowserSpec => []LoggedOutStaysOut
<1>1. IInv => LoggedOutStaysOut
  BY DEF IInv, OutOK, LoggedOutStaysOut
<1> QED
  BY <1>1, Invariance, PTL

-----------------------------------------------------------------------------
(* The browser over the contract of the backend. *)

LEMMA StillBackend ==
    ASSUME UNCHANGED backend
    PROVE  UNCHANGED vars
  BY DEF backend, vars

LEMMA RefreshContract ==
    ASSUME IInv, NEW j \in issued, Exchanged(j, Fresh) \/ Replayed(j)
    PROVE  Next
<1>1. family[j] \in Jti
  BY DEF IInv, BackendOK
<1>2. CASE Exchanged(j, Fresh)
  <2>1. Fresh \in Jti /\ Exchange(family[j], Fresh)
    BY <1>2, FreshToken DEF IInv, Exchanged
  <2> QED
    BY <1>1, <2>1 DEF Next
<1>3. CASE Replayed(j)
  BY <1>1, <1>3 DEF Next, Replayed
<1> QED
  BY <1>2, <1>3

LEMMA LoginContract ==
    ASSUME IInv, NEW t \in Tab, LoginServed(t)
    PROVE  Next
<1>1. PICK u \in User : Open(Fresh, u, account[u].version)
  BY DEF LoginServed
<1>2. Fresh \in Jti
  BY FreshToken DEF IInv, LoginServed
<1>3. account[u].version \in 1..account[u].version
  BY DEF IInv, BackendOK
<1> QED
  BY <1>1, <1>2, <1>3 DEF Next

LEMMA LogoutContract ==
    ASSUME IInv, NEW t \in Tab, LogoutServed(t)
    PROVE  [Next]_vars
<1> DEFINE j == tab[t].old
<1>1. family[j] \in Jti
  BY DEF LogoutServed, IInv, HeldOK, BackendOK
<1>2. CASE Usable(j)
  BY <1>1, <1>2 DEF LogoutServed, Next
<1>3. CASE ~Usable(j)
  BY <1>3 DEF LogoutServed, vars
<1> QED
  BY <1>2, <1>3

LEMMA ContractStep == IInv /\ [BrowserNext]_allVars => [Next]_vars
<1> SUFFICES ASSUME IInv, [BrowserNext]_allVars PROVE [Next]_vars
  OBVIOUS
<1>1. ASSUME NEW t \in Tab, RefreshServed(t) PROVE [Next]_vars
  <2>1. /\ tab[t].tok \in issued
        /\ Exchanged(tab[t].tok, Fresh) \/ Replayed(tab[t].tok)
    BY <1>1 DEF RefreshServed, Exchanged, Replayed, Usable, IInv, HeldOK
  <2> QED
    BY <2>1, RefreshContract
<1>2. ASSUME NEW t \in Tab, RefreshSend(t) \/ RefreshGranted(t) \/ RefreshRefused(t)
      PROVE  [Next]_vars
  BY <1>2, StillBackend DEF RefreshSend, RefreshGranted, RefreshRefused
<1>3. ASSUME NEW t \in Tab, NEW c \in Call, CallStep(t, c) \/ CallBegin(t, c)
      PROVE  [Next]_vars
  BY <1>3, StillBackend DEF CallStep, CallUnauthorized, CallEnds, CallBegin
<1>4. ASSUME NEW t \in Tab, LoginStep(t) \/ LogoutFails(t) \/ LogoutDone(t) \/ LogoutSend(t)
                            \/ Reload(t)
      PROVE  [Next]_vars
  BY <1>4, StillBackend DEF LoginStep, LoginGranted, LoginFails, LogoutFails, LogoutDone,
     LogoutSend, Reload
<1>5. ASSUME NEW j \in Jti, OrphanServed(j) PROVE [Next]_vars
  <2>1. j \in issued /\ (Exchanged(j, Fresh) \/ Replayed(j))
    BY <1>5 DEF OrphanServed, IInv, HeldOK
  <2> QED
    BY <2>1, RefreshContract
<1>6. ASSUME NEW j \in Jti, EndedElsewhere(j) PROVE [Next]_vars
  BY <1>6 DEF EndedElsewhere, Next
<1>7. ASSUME UNCHANGED allVars PROVE [Next]_vars
  BY <1>7, StillBackend DEF allVars
<1> QED
  BY <1>1, <1>2, <1>3, <1>4, <1>5, <1>6, <1>7, LoginContract, LogoutContract
     DEF BrowserNext, RefreshStep, LogoutStep, UserStep

\* Whatever the tabs do, and in whichever order their requests reach the backend, it
\* takes steps of Sessions, the contract AuthSessions implements: the tokens a browser
\* presents belong to sessions that were opened, and a login opens a session under a
\* version the account has.
THEOREM ContractKept == BrowserSpec => [][Next]_vars
  BY Invariance, ContractStep, PTL DEF BrowserSpec

=============================================================================
