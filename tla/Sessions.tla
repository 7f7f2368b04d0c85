------------------------------ MODULE Sessions ------------------------------
(***************************************************************************)
(* What the backend promises about login sessions, with no requests, locks *)
(* or rows.  A session is a token family, named by the first token issued  *)
(* in it.  At most one refresh token of a session is usable at a time; an  *)
(* exchange replaces it by a token never issued before, and happens only   *)
(* while the account is active and still has the version the session was   *)
(* opened under.  A closed session never opens again, and a password       *)
(* change closes every session of its user in the step that changes the    *)
(* version.                                                                *)
(***************************************************************************)
EXTENDS Naturals

CONSTANTS User, Jti, None

VARIABLES
    account,   \* [User -> [active : BOOLEAN, version : Nat]]
    issued,    \* every token ever issued
    session    \* [Jti -> [user, version, usable]], by the session's first token

vars == <<account, issued, session>>

NoSession == [user |-> None, version |-> 0, usable |-> {}]

Init ==
    /\ account = [u \in User |-> [active |-> TRUE, version |-> 1]]
    /\ issued = {}
    /\ session = [f \in Jti |-> NoSession]

\* A login opens a session under the version it read, which may be outdated.
Open(f, u, v) ==
    /\ f \notin issued
    /\ issued' = issued \cup {f}
    /\ session' = [session EXCEPT ![f] = [user |-> u, version |-> v,
                                          usable |-> {f}]]
    /\ UNCHANGED account

Exchange(f, n) ==
    /\ n \notin issued
    /\ issued' = issued \cup {n}
    /\ session[f].usable # {}
    /\ account[session[f].user] = [active |-> TRUE,
                                  version |-> session[f].version]
    /\ session' = [session EXCEPT ![f].usable = {n}]
    /\ UNCHANGED account

\* Logout, or a detected replay.
Close(f) ==
    /\ session[f].usable # {}
    /\ session' = [session EXCEPT ![f].usable = {}]
    /\ UNCHANGED <<account, issued>>

ChangePassword(u) ==
    /\ account' = [account EXCEPT ![u].version = @ + 1]
    /\ session' = [f \in Jti |-> IF session[f].user = u
                                 THEN [session[f] EXCEPT !.usable = {}]
                                 ELSE session[f]]
    /\ UNCHANGED issued

Disable(u) ==
    /\ account' = [account EXCEPT ![u].active = FALSE]
    /\ UNCHANGED <<issued, session>>

Next ==
    \/ \E f \in Jti, u \in User :
          \E v \in 1..account[u].version : Open(f, u, v)
    \/ \E f, n \in Jti : Exchange(f, n)
    \/ \E f \in Jti : Close(f)
    \/ \E u \in User : ChangePassword(u) \/ Disable(u)

Spec == Init /\ [][Next]_vars

=============================================================================
