------------------------- MODULE MCAccessRevocation -------------------------
(* TLC instance of AccessRevocation: requests and tokens are                 *)
(* interchangeable.                                                          *)
EXTENDS AccessRevocation, TLC

Symmetry == Permutations(Req) \cup Permutations(Jti)
SymmetryReq == Permutations(Req)

=============================================================================
