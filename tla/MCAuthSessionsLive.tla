------------------------- MODULE MCAuthSessionsLive -------------------------
(* TLC instance of AuthSessions for liveness, where symmetry is not sound.   *)
(* It starts from a session whose first token has been exchanged once, so   *)
(* that a replay is possible while one more token is left to generate.      *)
EXTENDS AuthSessions

CONSTANTS Owner, First, Second, Initial

RotatedOnce ==
    /\ users \in [User -> [status : {"active"}, auth_version : {1},
                           password : {Initial}]]
    /\ rows = [j \in Jti |->
                 CASE j = First  -> [user |-> Owner, family |-> First,
                                     reason |-> "rotated",
                                     replaced_by |-> Second]
                   [] j = Second -> [user |-> Owner, family |-> First,
                                     reason |-> "live", replaced_by |-> None]
                   [] OTHER      -> NoRow]
    /\ claims = [j \in Jti |-> IF j \in {First, Second}
                               THEN [user |-> Owner, auth_version |-> 1]
                               ELSE [user |-> None, auth_version |-> 0]]
    /\ revoked = {}
    /\ userLock = [u \in User |-> None]
    /\ tokenLock = [j \in Jti |-> None]
    /\ req = [r \in Req |-> Idle]

\* To keep the graph small no token expires and only the first access token is
\* ever revoked: neither takes a row lock.
LiveNext ==
    /\ Next
    /\ revoked' \subseteq {First}
    /\ \A j \in Jti : rows'[j].reason # "lapsed"

LiveSpec == RotatedOnce /\ [][LiveNext]_vars /\ Fairness

=============================================================================
