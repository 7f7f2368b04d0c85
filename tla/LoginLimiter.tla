---------------------------- MODULE LoginLimiter ----------------------------
(***************************************************************************)
(* The login rate limit: LoginHandler asks the state store whether the     *)
(* account and the address may try, checks the credentials, and records a  *)
(* failure or clears the account's counter.  The three calls of the store  *)
(* are atomic; the handler is not, so attempts overlap.                    *)
(***************************************************************************)
EXTENDS AuthState, FiniteSets

CONSTANT Req   \* concurrent login attempts, over every replica

ASSUME ReqAssumption == IsFiniteSet(Req)

VARIABLE attempt   \* the attempts: how far each is, for which account and address

vars == <<now, revoked, failures, reply, attempt>>

Idle == [pc |-> "idle"]

CheckAddressOnly(r, a, i) ==
    /\ attempt[r].pc = "idle"
    /\ CheckLoginLimit(a, i)
    /\ attempt' = [attempt EXCEPT ![r] =
                     IF RetryAfter(IPKey(i), failures[IPKey(i)]) = 0
                     THEN [pc |-> "checked", account |-> a, ip |-> i] ELSE Idle]

\* CheckLoginAllowed.  A store that does not answer refuses the login (503), a
\* limited account or address too (429).
Check(r, a, i) ==
    /\ attempt[r].pc = "idle"
    /\ CheckLoginLimit(a, i)
    /\ attempt' = [attempt EXCEPT ![r] =
                     IF reply' = Ok THEN [pc |-> "checked", account |-> a, ip |-> i]
                     ELSE Idle]

\* UserService.Login: wrong credentials or a disabled account, the right ones, or
\* a database error, after which the handler neither records nor clears anything.
Credentials(r, result) ==
    /\ attempt[r].pc = "checked"
    /\ attempt' = [attempt EXCEPT ![r] =
                     IF result = "db_error" THEN Idle ELSE [@ EXCEPT !.pc = result]]
    /\ UNCHANGED storeVars

\* RecordLoginFailure after ErrInvalidCredentials; the answer is 401, or 429 if
\* this failure reached a limit.
RecordFailure(r) ==
    /\ attempt[r].pc = "rejected"
    /\ RecordLoginFailure(attempt[r].account, attempt[r].ip)
    /\ attempt' = [attempt EXCEPT ![r] = Idle]

\* ResetLoginFailures; if it fails, so does the login.
ResetFailures(r) ==
    /\ attempt[r].pc = "authenticated"
    /\ ResetLoginAccount(attempt[r].account)
    /\ attempt' = [attempt EXCEPT ![r] = Idle]

Init ==
    /\ StoreInit
    /\ attempt = [r \in Req |-> Idle]

Next ==
    \/ \E r \in Req :
          \/ \E a \in Account, i \in IP : Check(r, a, i)
          \/ \E result \in {"rejected", "authenticated", "db_error"} :
                Credentials(r, result)
          \/ RecordFailure(r)
          \/ ResetFailures(r)
    \/ Tick /\ UNCHANGED attempt

Spec == Init /\ [][Next]_vars

-----------------------------------------------------------------------------

\* The attempts that are past the check and count for key k.
Pending(k) ==
    {r \in Req : attempt[r].pc # "idle"
                 /\ k \in {AccountKey(attempt[r].account), IPKey(attempt[r].ip)}}

\* Type correctness.
TypeOK ==
    /\ now \in 0..MaxTime
    /\ failures \in [Key -> [count : Nat, until : 0..(MaxTime + Window)]]
    /\ attempt \in [Req -> {Idle} \cup
                      [pc : {"checked", "rejected", "authenticated"},
                       account : Account, ip : IP]]

\* Checking and recording are separate calls, so a limit can be overrun, but only
\* by attempts that were past the check when it was reached: a counter never
\* exceeds its limit by as many failures as there are concurrent attempts.
BoundedOverrun ==
    \A k \in Key : failures[k].count < Limit(k) + Cardinality(Req)

\* A window is as long as configured and its end never moves while it is open:
\* failures during the window, or overrunning attempts, do not prolong a lockout.
FixedWindow ==
    [][\A k \in Key :
          /\ failures[k] = Closed /\ failures'[k] # Closed =>
                failures'[k].until = now + Window
          /\ failures[k] # Closed /\ failures'[k] # Closed =>
                failures'[k].until = failures[k].until]_vars

-----------------------------------------------------------------------------
(* The inductive invariant behind BoundedOverrun. *)

\* An open window has not ended.
WindowsOK == \A k \in Key : failures[k] = Closed \/ failures[k].until > now

\* Once a limit is reached, every attempt still to be recorded is already under
\* way; from here the bound follows.
OverrunIsPending ==
    \A k \in Key : failures[k].count >= Limit(k) =>
        failures[k].count + Cardinality(Pending(k)) < Limit(k) + Cardinality(Req)

IInv == TypeOK /\ WindowsOK /\ OverrunIsPending

=============================================================================
