----------------------------- MODULE Credential -----------------------------
(***************************************************************************)
(* What the server promises about a credential, without the table, the     *)
(* cache and the requests in flight that keep the promise. A token is      *)
(* issued, is live, is revoked, may then still be accepted for a while     *)
(* (it lingers), and ends up dead; a dead token is never accepted again.   *)
(***************************************************************************)
CONSTANTS User, Kind, Token, Session, NoToken, NoGrant

VARIABLES
    status,   \* status[t]: "none", "live", "lingering" or "dead"
    owner,    \* owner[t]: the user and kind t was issued for
    session   \* session[s]: the token session s has been accepted with

cvars == <<status, owner, session>>

Grants == [user : User, kind : Kind]
Live == {t \in Token : status[t] = "live"}
Usable == {t \in Token : status[t] \in {"live", "lingering"}}

Init ==
    /\ status = [t \in Token |-> "none"]
    /\ owner = [t \in Token |-> NoGrant]
    /\ session = [s \in Session |-> NoToken]

(* Along with any step, sessions end, and sessions open, with the token    *)
(* that was usable when they did.                                          *)
SessionsMove ==
    /\ session' \in [Session -> Token \cup {NoToken}]
    /\ \A s \in Session :
          \/ session'[s] \in {session[s], NoToken}
          \/ session[s] = NoToken /\ session'[s] \in Usable

(* Every token of S is revoked; those of D are refused from now on. *)
Revoke(S, D) ==
    [t \in Token |-> IF t \in D THEN "dead"
                     ELSE IF t \in S THEN "lingering" ELSE status[t]]

(* A token is issued for g, in place of earlier ones for g. *)
Issue(t, g) ==
    /\ status[t] = "none"
    /\ owner' = [owner EXCEPT ![t] = g]
    /\ \E S \in SUBSET {s \in Live : owner[s] = g} :
          \E D \in SUBSET S :
              status' = [Revoke(S, D) EXCEPT ![t] = "live"]
    /\ SessionsMove

(* An account goes, with all its tokens. *)
Erase(u) ==
    /\ \E D \in SUBSET Live :
          /\ \A t \in D : owner[t].user = u
          /\ status' = Revoke({t \in Live : owner[t].user = u}, D)
    /\ UNCHANGED owner
    /\ SessionsMove

Lapse(t) ==
    /\ status[t] = "lingering"
    /\ status' = [status EXCEPT ![t] = "dead"]
    /\ UNCHANGED owner
    /\ SessionsMove

Use ==
    /\ UNCHANGED <<status, owner>>
    /\ SessionsMove

Next ==
    \/ \E t \in Token, g \in Grants : Issue(t, g)
    \/ \E u \in User : Erase(u)
    \/ \E t \in Token : Lapse(t)
    \/ Use

Spec == Init /\ [][Next]_cvars

(* No token lingers for ever. *)
Lapses == \A t \in Token : status[t] = "lingering" ~> status[t] = "dead"
=============================================================================
