-------------------------- MODULE MCAuthAccount ----------------------------
(* Instances of AuthAccount for TLC. *)
EXTENDS AuthAccount

Symmetry == Permutations(User) \cup Permutations(Token) \cup Permutations(Req)
=============================================================================
