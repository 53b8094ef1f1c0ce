---------------------------- MODULE UserDataAudit ----------------------------
(***************************************************************************)
(* Why a cached receiver may differ from the registered one. A history     *)
(* variable keeps, for an entry that differs, what made it so first; the   *)
(* claim is that the list of reasons is complete.                          *)
(***************************************************************************)
EXTENDS UserData

VARIABLE why    \* why[s]: what made the entry of s differ from its row

Reason == {"late_fill", "error_cached", "del_lost", "evicted_early"}

(* What this step of r does to the entry of s. *)
HappensBy(r, e, s) ==
    CASE e = "late_fill" ->
            \* r caches a row that has changed since it was read
            /\ pc[r] = "fill" /\ pc'[r] # "fill" /\ slot[r] = s
            /\ val[r] \notin {row[s], Failed}
            /\ cache'[s] = val[r]
      [] e = "error_cached" ->
            \* the webhook's SELECT failed
            /\ pc[r] = "fill" /\ pc'[r] # "fill" /\ slot[r] = s
            /\ s = "webhook" /\ val[r] = Failed
            /\ cache'[s] = NoConfig
      [] e = "del_lost" ->
            \* the Del after a change failed, or its request ended before it
            /\ Faulty
            /\ pc[r] = "invalidate" /\ pc'[r] = "idle" /\ slot[r] = s
            /\ cache'[s] = cache[s]
      [] e = "evicted_early" ->
            \* DeleteAccount deletes the entries first; s was cached since,
            \* or the Del failed
            /\ pc[r] = "erase" /\ pc'[r] = "idle"
            /\ row'[s] # row[s]

AuditInit == Init /\ why = [s \in Slot |-> {}]

AuditNext ==
    /\ Next
    /\ why' = [s \in Slot |->
                 IF cache'[s] \in {Absent, row'[s]} THEN {}
                 ELSE IF why[s] # {} THEN why[s]
                 ELSE {e \in Reason : \E r \in Req : HappensBy(r, e, s)}]

AuditSpec == AuditInit /\ [][AuditNext]_<<vars, why>>

FairAuditSpec == AuditSpec /\ Fairness

(* A cached receiver is the registered one, or is about to be deleted by   *)
(* the handler that changed the row, or one of the four known windows was  *)
(* hit (handlers.go 640-645, 728, 832, 1069-1076, 1206).                   *)
StaleConfigExplained ==
    \A s \in Slot :
        cache[s] \notin {Absent, row[s]} =>
            \/ why[s] # {}
            \/ \E q \in Req : pc[q] = "invalidate" /\ slot[q] = s
=============================================================================
