----------------------------- MODULE StoreKeys -----------------------------
(* Parameters and keys of the authentication state store, common to its     *)
(* abstract specification and its two implementations.                      *)
EXTENDS Naturals

CONSTANTS
    Jti,           \* access token identifiers
    Account,       \* normalised account names
    IP,            \* client addresses
    AccountLimit,  \* failures per account at which logins are limited
    IPLimit,       \* failures per address at which logins are limited
    Window,        \* length of the counting window
    MaxTTL,        \* bound on the lifetime of a revocation
    MaxTime        \* bound on the clock

ASSUME AuthStateAssumption ==
    /\ AccountLimit \in Nat \ {0} /\ IPLimit \in Nat \ {0}
    /\ Window \in Nat \ {0}
    /\ MaxTTL \in Nat /\ MaxTime \in Nat

\* accountFailureKey and ipFailureKey: digests under different prefixes, so no
\* account shares a counter with an address.
AccountKey(a) == <<"account", a>>
IPKey(i)      == <<"ip", i>>
Key == {AccountKey(a) : a \in Account} \cup {IPKey(i) : i \in IP}

Limit(k) == IF k[1] = "account" THEN AccountLimit ELSE IPLimit

\* maxDuration
Larger(m, n) == IF m > n THEN m ELSE n

\* What an operation returns: whether it failed or what it found, and the time to
\* wait before the next login attempt.
Reply(status, retry) == [status |-> status, retry |-> retry]
Ok    == Reply("ok", 0)
Error == Reply("error", 0)

=============================================================================
