--------------------------- MODULE MCAuthSessions ---------------------------
(* TLC instances of AuthSessions. *)
EXTENDS AuthSessions, TLC

\* Requests, token identifiers and passwords are interchangeable.
Symmetry ==
    Permutations(Jti) \cup Permutations(Req) \cup Permutations(Password)

=============================================================================
