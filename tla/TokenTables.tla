----------------------------- MODULE TokenTables ------------------------------
(***************************************************************************)
(* What Auth takes the transactions of the database for: a rotation sees   *)
(* the rows of its kind at one moment (DeleteOld) and at a later one       *)
(* replaces them by its own, if the user is still there (Commit); deleting *)
(* the user deletes the tokens with it (EraseUser). A row is named by the  *)
(* transaction that inserts it.                                            *)
(***************************************************************************)
CONSTANTS
    Rot,     \* the transactions of rotateToken for one user and kind
    Old      \* rows that were there before

VARIABLES
    user,    \* the user's row is there
    rows,    \* the committed token rows
    seen     \* seen[r]: the rows the DELETE of r saw

tableVars == <<user, rows, seen>>

TablesInit ==
    /\ user = TRUE
    /\ rows \subseteq Old
    /\ seen = [r \in Rot |-> {}]

DeleteOld(r) ==
    /\ seen' = [seen EXCEPT ![r] = rows]
    /\ UNCHANGED <<user, rows>>

Commit(r) ==
    /\ user
    /\ r \notin rows
    /\ rows' = (rows \ seen[r]) \cup {r}
    /\ seen' = [seen EXCEPT ![r] = {}]
    /\ UNCHANGED user

Rollback(r) ==
    /\ seen' = [seen EXCEPT ![r] = {}]
    /\ UNCHANGED <<user, rows>>

EraseUser ==
    /\ user' = FALSE
    /\ rows' = {}
    /\ UNCHANGED seen

TablesNext ==
    \/ \E r \in Rot : DeleteOld(r) \/ Commit(r) \/ Rollback(r)
    \/ EraseUser

TablesSpec == TablesInit /\ [][TablesNext]_tableVars
=============================================================================
