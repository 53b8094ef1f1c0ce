------------------------------ MODULE AuthAudit ------------------------------
(***************************************************************************)
(* Why a revoked token may still be cached. A history variable records for *)
(* each token the first thing, at a step of Auth, that can keep an entry   *)
(* alive past its revocation; the claim is that the list is complete.      *)
(***************************************************************************)
EXTENDS AuthCredential

VARIABLE excuse   \* excuse[t]: what happened to t first, until t is refused

Excuse == {"fill_in_flight", "not_collected", "del_lost", "evicted_early"}

(* Request q revokes t in this step, by its commit or its account deletion. *)
RotatedBy(q, t) ==
    /\ t \in rows \ rows'
    /\ pc[q] = "commit" /\ pc'[q] = "purge" /\ t \in snap[q]
ErasedBy(q, t) ==
    /\ t \in rows \ rows'
    /\ pc[q] = "erase" /\ pc'[q] = "idle" /\ who[q].user = grant[t].user

(* What this step adds for t. *)
Happens(e, t) ==
    CASE e = "fill_in_flight" ->
            \* a request has read t's row and not yet cached it
            /\ t \in rows \ rows'
            /\ \E r \in Req : pc[r] = "fill" /\ tok[r] = t
      [] e = "not_collected" ->
            \* t was issued after its revoker listed the hashes to Del, or
            \* the listing was cut short
            \E q \in Req : RotatedBy(q, t) /\ t \notin old[q]
      [] e = "del_lost" ->
            \* the Del failed, or its request ended before it
            \E q \in Req : /\ Faulty
                           /\ pc[q] = "purge"
                           /\ t \in old[q] \ old'[q]
                           /\ cache'[t] # NoGrant
      [] e = "evicted_early" ->
            \* DeleteAccount deletes the entries first; t was cached since
            \E q \in Req : ErasedBy(q, t) /\ cache[t] # NoGrant

AuditInit == Init /\ excuse = [t \in Token |-> {}]

AuditNext ==
    /\ Next
    /\ excuse' = [t \in Token |->
                    IF Refused(t)' THEN {}
                    ELSE IF excuse[t] # {} THEN excuse[t]
                    ELSE {e \in Excuse : Happens(e, t)}]

AuditSpec == AuditInit /\ [][AuditNext]_<<vars, excuse>>

FairAuditSpec == AuditSpec /\ Fairness

(* The entry of a revoked token is about to be deleted by the rotation     *)
(* that revoked it, or one of the four known windows was hit: the code has *)
(* no fifth way to accept a revoked token (handlers.go 465, 844, 883,      *)
(* 1054-1076).                                                             *)
StaleEntriesExplained ==
    \A t \in Token :
        Revoked(t) /\ cache[t] # NoGrant =>
            \/ excuse[t] # {}
            \/ \E q \in Req : pc[q] = "purge" /\ t \in old[q]
=============================================================================
