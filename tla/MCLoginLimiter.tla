--------------------------- MODULE MCLoginLimiter ---------------------------
(* TLC instance of LoginLimiter: attempts, accounts and addresses are        *)
(* interchangeable.                                                          *)
EXTENDS LoginLimiter, TLC

Symmetry == Permutations(Req) \cup Permutations(Account) \cup Permutations(IP)

=============================================================================
