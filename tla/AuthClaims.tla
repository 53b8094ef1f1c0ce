----------------------------- MODULE AuthClaims -----------------------------
(***************************************************************************)
(* What the documentation and the comments of the repository say of        *)
(* tokens and the code of Auth does not keep. TLC shows each of them       *)
(* violated without any fault of the database or of the store.             *)
(***************************************************************************)
EXTENDS Auth

(* web/privacypolicy/content.md 36: rotating an API key "immediately       *)
(* invalidates the previous value". Once the rotation that revoked it has  *)
(* been answered, a key of a live account has no cache entry left.         *)
RotationIsImmediate ==
    \A t \in Token :
        /\ Revoked(t)
        /\ grant[t].kind = "api_key"
        /\ users[grant[t].user] = "live"
        /\ cache[t] # NoGrant
        => \E q \in Req : pc[q] = "purge" /\ t \in old[q]

(* docs/schema-reference.md 84: "A user can have at most one of each kind  *)
(* at a time". The invariant holds over SQLite (OneTokenPerKind); here it  *)
(* is claimed of Postgres.                                                 *)
AtMostOneOfEachKind == OneTokenPerKind
=============================================================================
