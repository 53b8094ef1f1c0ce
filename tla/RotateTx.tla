------------------------------- MODULE RotateTx -------------------------------
(***************************************************************************)
(* The transactions of rotateToken and of DeleteAccount for one user, over *)
(* Postgres at READ COMMITTED, down to the row locks they wait for:        *)
(*                                                                         *)
(*   DELETE FROM user_tokens   locks the rows its snapshot saw, one by     *)
(*                             one, in the order of its scan; one deleted  *)
(*                             meanwhile is passed over                    *)
(*   INSERT INTO user_tokens   foreign key: FOR KEY SHARE on the user      *)
(*   UPDATE users              FOR NO KEY UPDATE on the user               *)
(*   DELETE FROM users         FOR UPDATE on the user, then the cascade: a *)
(*                             DELETE FROM user_tokens of its own          *)
(*                                                                         *)
(* A transaction keeps its locks to its end. The rules are those of        *)
(* Postgres and external; what is locked in which order is the server's.   *)
(***************************************************************************)
EXTENDS Naturals, FiniteSets

CONSTANTS
    Rot,      \* the transactions of rotateToken, of one kind
    Del,      \* the DELETE FROM users of DeleteAccount
    Old,      \* token rows from before; the others are named by their Rot
    Nobody,   \* no holder of a lock, no row waited for
    Faulty    \* TRUE: clients hang up, connections break

Txn == Rot \cup Del
Row == Old \cup Rot

ASSUME NamesAssumption ==
    /\ Rot \cap Del = {} /\ Old \cap Txn = {}
    /\ Nobody \notin Txn \cup Old
ASSUME FaultyAssumption == Faulty \in BOOLEAN
ASSUME FiniteAssumption == IsFiniteSet(Row)

VARIABLES
    user,     \* the user's row is there (committed)
    rows,     \* the committed token rows
    lock,     \* lock[x]: who has locked token row x to delete it
    share,    \* who holds FOR KEY SHARE on the user's row
    excl,     \* who holds FOR NO KEY UPDATE or FOR UPDATE on it
    pc,       \* pc[t]: the statement t is at
    seen,     \* seen[t]: the rows its DELETE FROM user_tokens saw
    scan,     \* scan[t]: those it has not come to yet
    want      \* want[t]: the row its scan is at

tables == <<user, rows>>
locks == <<lock, share, excl>>
vars == <<user, rows, lock, share, excl, pc, seen, scan, want>>

PC == {"begin", "scan", "insert", "update", "lock", "cascade", "commit", "over"}

TypeOK ==
    /\ user \in BOOLEAN
    /\ rows \subseteq Row
    /\ lock \in [Row -> Txn \cup {Nobody}]
    /\ share \subseteq Rot
    /\ excl \in Txn \cup {Nobody}
    /\ pc \in [Txn -> PC]
    /\ seen \in [Txn -> SUBSET Row]
    /\ scan \in [Txn -> SUBSET Row]
    /\ want \in [Txn -> Row \cup {Nobody}]

Init ==
    /\ user = TRUE
    /\ rows \in SUBSET Old
    /\ lock = [x \in Row |-> Nobody]
    /\ share = {}
    /\ excl = Nobody
    /\ pc = [t \in Txn |-> "begin"]
    /\ seen = [t \in Txn |-> {}]
    /\ scan = [t \in Txn |-> {}]
    /\ want = [t \in Txn |-> Nobody]

Goto(t, l) == pc' = [pc EXCEPT ![t] = l]
Held(t) == {x \in Row : lock[x] = t}

-----------------------------------------------------------------------------
(* Operators named Mut... are faults planted on purpose in the definition  *)
(* that follows them; they are no part of the specification.               *)

(* Who keeps t from FOR KEY SHARE. *)
ShareBlockers(t) == {excl} \cap Del

(* Mutant: SELECT FROM users FOR UPDATE in the place of the UPDATE. *)
MutUpdateBlockers(t) == (({excl} \ {Nobody}) \cup share) \ {t}
(* Who keeps t from FOR NO KEY UPDATE. *)
UpdateBlockers(t) == {excl} \ {Nobody, t}

(* Who keeps t from FOR UPDATE. *)
EraseBlockers(t) == (({excl} \ {Nobody}) \cup share) \ {t}

(* Whom the statement t is at waits for. *)
Blockers(t) ==
    CASE pc[t] = "scan" /\ want[t] # Nobody -> {lock[want[t]]} \ {Nobody, t}
      [] pc[t] = "insert"                   -> ShareBlockers(t)
      [] pc[t] = "update"                   -> UpdateBlockers(t)
      [] pc[t] = "lock"                     -> EraseBlockers(t)
      [] OTHER                              -> {}

(* Mutant: the deferred Rollback is missing; only a commit releases. *)
MutRelease(t) ==
    /\ lock' = [x \in Row |-> IF pc[t] = "commit" /\ lock[x] = t THEN Nobody ELSE lock[x]]
    /\ share' = share \ {q \in {t} : pc[t] = "commit"}
    /\ excl' = IF pc[t] = "commit" /\ excl = t THEN Nobody ELSE excl

Release(t) ==
    /\ lock' = [x \in Row |-> IF lock[x] = t THEN Nobody ELSE lock[x]]
    /\ share' = share \ {t}
    /\ excl' = IF excl = t THEN Nobody ELSE excl

(* The transaction ends, and its locals are forgotten. *)
End(t) ==
    /\ Goto(t, "over")
    /\ Release(t)
    /\ seen' = [seen EXCEPT ![t] = {}]
    /\ scan' = [scan EXCEPT ![t] = {}]
    /\ want' = [want EXCEPT ![t] = Nobody]

(* DELETE FROM user_tokens starts: a snapshot of its own. *)
StartScan(t) ==
    /\ Goto(t, "scan")
    /\ seen' = [seen EXCEPT ![t] = rows]
    /\ scan' = [scan EXCEPT ![t] = rows]
    /\ UNCHANGED <<tables, locks, want>>

(* BeginTx, and the DELETE of the rows of the user and kind. *)
BeginRotation(r) == r \in Rot /\ pc[r] = "begin" /\ StartScan(r)

Reach(t) ==
    /\ pc[t] = "scan"
    /\ want[t] = Nobody
    /\ \E x \in scan[t] :
          /\ want' = [want EXCEPT ![t] = x]
          /\ scan' = [scan EXCEPT ![t] = @ \ {x}]
    /\ UNCHANGED <<tables, locks, pc, seen>>

LockRow(t) ==
    /\ pc[t] = "scan"
    /\ want[t] # Nobody
    /\ Blockers(t) = {}
    /\ lock' = IF want[t] \in rows THEN [lock EXCEPT ![want[t]] = t] ELSE lock
    /\ want' = [want EXCEPT ![t] = Nobody]
    /\ UNCHANGED <<tables, share, excl, pc, seen, scan>>

EndScan(t) ==
    /\ pc[t] = "scan"
    /\ want[t] = Nobody
    /\ scan[t] = {}
    /\ Goto(t, IF t \in Rot THEN "insert" ELSE "commit")
    /\ UNCHANGED <<tables, locks, seen, scan, want>>

Insert(r) ==
    /\ r \in Rot
    /\ pc[r] = "insert"
    /\ Blockers(r) = {}
    /\ \/ /\ user
          /\ share' = share \cup {r}
          /\ Goto(r, "update")
          /\ UNCHANGED <<lock, excl, seen, scan, want>>
       \/ /\ ~user                                 \* foreign key: 500
          /\ End(r)
    /\ UNCHANGED tables

UpdateUser(r) ==
    /\ pc[r] = "update"
    /\ Blockers(r) = {}
    /\ excl' = r
    /\ Goto(r, "commit")
    /\ UNCHANGED <<tables, lock, share, seen, scan, want>>

(* Mutant: the error of the DELETE is ignored. *)
MutCommitRotation(r) ==
    /\ r \in Rot
    /\ pc[r] = "commit"
    /\ \E S \in {Held(r), {}} : rows' = (rows \ S) \cup {r}
    /\ End(r)
    /\ UNCHANGED user

CommitRotation(r) ==
    /\ r \in Rot
    /\ pc[r] = "commit"
    /\ rows' = (rows \ Held(r)) \cup {r}
    /\ End(r)
    /\ UNCHANGED user

(* DELETE FROM users, a transaction of its own. *)
BeginErase(d) ==
    /\ d \in Del
    /\ pc[d] = "begin"
    /\ Goto(d, "lock")
    /\ UNCHANGED <<tables, locks, seen, scan, want>>

LockUser(d) ==
    /\ pc[d] = "lock"
    /\ Blockers(d) = {}
    /\ \/ /\ user
          /\ excl' = d
          /\ Goto(d, "cascade")
          /\ UNCHANGED <<lock, share, seen, scan, want>>
       \/ /\ ~user                                 \* no row: done, 200
          /\ End(d)
    /\ UNCHANGED tables

Cascade(d) == pc[d] = "cascade" /\ StartScan(d)

CommitErase(d) ==
    /\ d \in Del
    /\ pc[d] = "commit"
    /\ user' = FALSE
    /\ rows' = rows \ Held(d)
    /\ End(d)

-----------------------------------------------------------------------------
(* Transactions that wait for one another, and no smaller such set. *)
Waiting(S) == S # {} /\ \A t \in S : Blockers(t) \cap S # {}
Cycle(S) == Waiting(S) /\ \A T \in SUBSET S : Waiting(T) => T = S

Rollback(t) == End(t) /\ UNCHANGED tables

(* deadlock_timeout: Postgres rolls back one of them, which answers 500. *)
Detect(t) ==
    /\ \E S \in SUBSET Txn : t \in S /\ Cycle(S)
    /\ Rollback(t)

Hangup(t) ==
    /\ Faulty
    /\ pc[t] # "over"
    /\ Rollback(t)

Step(t) ==
    \/ BeginRotation(t) \/ Reach(t) \/ LockRow(t) \/ EndScan(t)
    \/ Insert(t) \/ UpdateUser(t) \/ CommitRotation(t)
    \/ BeginErase(t) \/ LockUser(t) \/ Cascade(t) \/ CommitErase(t)
    \/ Detect(t)

Next == \E t \in Txn : Step(t) \/ Hangup(t)

Spec == Init /\ [][Next]_vars

(* A transaction that has begun goes on when nobody is in its way, and is  *)
(* found when it is in a deadlock.                                         *)
Fairness == \A t \in Txn : WF_vars(pc[t] # "begin" /\ Step(t))

FairSpec == Spec /\ Fairness

-----------------------------------------------------------------------------
(* What Auth assumes of the database (Auth: DeleteOld, Commit, RejectInsert, *)
(* EraseUser) holds of these transactions, whatever they wait for and      *)
(* whoever is rolled back (handlers.go 857-879, 1075).                     *)
Tables == INSTANCE TokenTables WITH seen <- [r \in Rot |-> seen[r]]

ImplementsTables == Tables!TablesSpec

(* A deadlock, answered 500, takes a deletion of the account; two          *)
(* rotations deadlock only over two old rows of the kind, which no user    *)
(* has unless two rotations have overlapped before (handlers.go 862-876).  *)
DeadlockExplained ==
    \A S \in SUBSET Txn :
        Cycle(S) => S \cap Del # {} \/ Cardinality(rows) >= 2

(* No lock outlives its transaction (the deferred Rollback, 861): as long  *)
(* as some transaction has begun and not ended, one of them waits for      *)
(* nobody or there is a cycle for Postgres to find. Nobody waits for what  *)
(* will never come (handlers.go 857-879, 1075).                            *)
Live == {t \in Txn : pc[t] \notin {"begin", "over"}}
WaitsAreResolved ==
    Live # {} => \/ \E t \in Live : Blockers(t) = {}
                 \/ \E S \in SUBSET Live : Cycle(S)

(* Every transaction ends, committed or rolled back. *)
TransactionsEnd == \A t \in Txn : pc[t] # "begin" ~> pc[t] = "over"
=============================================================================
