---------------------------- MODULE MCAuthClaims ----------------------------
(* Instances of AuthClaims for TLC. *)
EXTENDS AuthClaims

Symmetry == Permutations(Token) \cup Permutations(Req)
=============================================================================
