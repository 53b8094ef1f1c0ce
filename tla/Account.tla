------------------------------- MODULE Account -------------------------------
(***************************************************************************)
(* What the parts of the server take an account for. It is made, it is     *)
(* live, it is deleted, requests in its name may then go on arriving for a *)
(* while (it lingers), and in the end it is gone for good. A request that  *)
(* has been let in acts for the account until it is answered, whatever     *)
(* becomes of the account in the meantime.                                 *)
(***************************************************************************)
CONSTANTS User, Session, NoUser

VARIABLES
    phase,    \* phase[u]: "none", "live", "lingering" or "gone"
    acting    \* acting[s]: the user session s acts for

avars == <<phase, acting>>

Init ==
    /\ phase \in [User -> {"none", "live"}]
    /\ acting = [s \in Session |-> NoUser]

(* Requests in the name of u are let in. *)
Reachable(u) == phase[u] \in {"live", "lingering"}

(* Along with any step sessions end, and sessions open, for accounts that  *)
(* could be reached before it.                                             *)
SessionsMove ==
    /\ acting' \in [Session -> User \cup {NoUser}]
    /\ \A s \in Session :
          \/ acting'[s] \in {acting[s], NoUser}
          \/ acting[s] = NoUser /\ Reachable(acting'[s])

Moves(u, from, to) ==
    /\ phase[u] = from
    /\ phase' = [phase EXCEPT ![u] = to]
    /\ SessionsMove

Join(u) == Moves(u, "none", "live")

(* No token of it is cached, or one is. *)
Delete(u) == Moves(u, "live", "gone") \/ Moves(u, "live", "lingering")

Lapse(u) == Moves(u, "lingering", "gone")

Serve ==
    /\ UNCHANGED phase
    /\ SessionsMove

Next ==
    \/ \E u \in User : Join(u) \/ Delete(u) \/ Lapse(u)
    \/ Serve

Spec == Init /\ [][Next]_avars
=============================================================================
