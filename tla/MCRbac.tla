------------------------------- MODULE MCRbac -------------------------------
(* TLC instance of Rbac: names and requests are interchangeable; ids are      *)
(* given out in order and are not.                                            *)
EXTENDS Rbac, TLC

Symmetry == Permutations(Name) \cup Permutations(Req)

=============================================================================
