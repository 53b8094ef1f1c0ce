----------------------------- MODULE AuthAccount -----------------------------
(***************************************************************************)
(* Auth implements Account: this is what SignIn (users, WebCode, Lapse)    *)
(* and UserData (account, Arrive, Lapse) take from it. A deleted account   *)
(* lingers while one of its tokens may still be accepted.                  *)
(***************************************************************************)
EXTENDS AuthCredential

CONSTANT NoUser    \* the request acts for nobody
ASSUME NoUserAssumption == NoUser \notin User

(* The middleware may yet let a request with this revoked token in. *)
MayPass(t) == Revoked(t) /\ ~Refused(t)

AccountPhase(u) ==
    IF users[u] # "deleted" THEN users[u]
    ELSE IF \E t \in Token : MayPass(t) /\ grant[t].user = u THEN "lingering"
    ELSE "gone"

(* A request past the middleware acts for the user its handler goes on     *)
(* with; one that signs in has no bearer and acts for nobody yet.          *)
ActsFor(r) ==
    IF pc[r] \in InHandler /\ tok[r] # NoToken THEN who[r].user ELSE NoUser

Acc == INSTANCE Account WITH
           Session <- Req,
           phase   <- [u \in User |-> AccountPhase(u)],
           acting  <- [r \in Req |-> ActsFor(r)]

(* An account that is gone stays gone, whatever fills, rotations and       *)
(* sign-ins were under way when it was deleted, and no request is let in   *)
(* in its name any more (handlers.go 422-494, 841-886, 1050-1081).         *)
ImplementsAccount == Acc!Spec
=============================================================================
