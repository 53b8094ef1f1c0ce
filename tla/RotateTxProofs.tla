---------------------------- MODULE RotateTxProofs ----------------------------
(***************************************************************************)
(* Proofs about RotateTx, for any number of rotations, deletions and old   *)
(* rows: the transactions, with the locks they wait for, do what           *)
(* TokenTables says of them.                                               *)
(***************************************************************************)
EXTENDS RotateTx, FiniteSetTheorems, WellFoundedInduction, TLAPS

USE NamesAssumption

OverRot == {r \in Rot : pc[r] = "over"}

(* What a transaction has seen and not come to yet, and what it holds.     *)
ScanInv(t) ==
    /\ Held(t) \subseteq seen[t] /\ scan[t] \subseteq seen[t]
    /\ want[t] \in seen[t] \cup {Nobody}
    /\ seen[t] \subseteq Old \cup OverRot
    /\ seen[t] \cap rows \subseteq Held(t) \cup scan[t] \cup {want[t]}
    /\ pc[t] # "scan" => scan[t] = {} /\ want[t] = Nobody
    /\ pc[t] \in {"begin", "lock", "cascade", "over"} => seen[t] = {}

(* The lock on the user's row that keeps a rotation and a deletion apart.  *)
UserInv(t) ==
    /\ t \in Rot => /\ pc[t] \notin {"lock", "cascade"}
                    /\ pc[t] \in {"update", "commit"} => t \in share /\ user
    /\ t \in Del => /\ pc[t] \notin {"insert", "update"}
                    /\ pc[t] \in {"cascade", "scan", "commit"} => excl = t
                    /\ pc[t] \in {"scan", "commit"} => rows \subseteq seen[t]

TxnInv(t) == ScanInv(t) /\ UserInv(t)

RotateInv ==
    /\ TypeOK
    /\ rows \subseteq Old \cup OverRot
    /\ excl \in Del => share = {}
    /\ \A t \in Txn : TxnInv(t)

LEMMA InitInv == Init => RotateInv
<1> SUFFICES ASSUME Init PROVE RotateInv
  OBVIOUS
<1>1. TypeOK
  BY DEF Init, TypeOK, Row, PC
<1>2. \A t \in Txn : TxnInv(t)
  BY DEF Init, TxnInv, ScanInv, UserInv, Held, Txn, Row
<1> QED
  BY <1>1, <1>2 DEF Init, RotateInv, Txn

-----------------------------------------------------------------------------
(* What a step of t leaves to the other transactions. *)
Alone(t) ==
    \A q \in Txn : q # t =>
        /\ pc'[q] = pc[q] /\ seen'[q] = seen[q]
        /\ scan'[q] = scan[q] /\ want'[q] = want[q]
        /\ Held(q)' = Held(q)

(* No rotation is past its INSERT while a deletion has the user's row.     *)
LEMMA Apart ==
    ASSUME RotateInv, NEW r \in Rot, NEW d \in Del,
           pc[r] \in {"update", "commit"}, pc[d] \in {"cascade", "scan", "commit"}
    PROVE  FALSE
BY DEF RotateInv, TxnInv, UserInv, Txn

LEMMA OthersInv ==
    ASSUME RotateInv, NEW t \in Txn, Alone(t), pc[t] # "over",
           share \ {t} \subseteq share', excl' = excl \/ excl \in {Nobody, t},
           \/ rows' \subseteq rows
           \/ t \in Rot /\ pc[t] = "commit" /\ rows' \subseteq rows \cup {t},
           user' = user \/ (t \in Del /\ pc[t] = "commit"),
           NEW q \in Txn, q # t
    PROVE  TxnInv(q)'
<1>0. /\ pc'[q] = pc[q] /\ seen'[q] = seen[q]
      /\ scan'[q] = scan[q] /\ want'[q] = want[q]
      /\ Held(q)' = Held(q)
  BY DEF Alone
<1>1. ScanInv(q) /\ UserInv(q)
  BY DEF RotateInv, TxnInv
<1>2. OverRot \subseteq OverRot'
  BY DEF Alone, OverRot, Txn
<1>3. t \in Rot => t \notin seen[q]
  BY <1>1 DEF ScanInv, OverRot, Txn
<1>4. seen[q] \cap rows' \subseteq seen[q] \cap rows
  BY <1>3
<1>5. ScanInv(q)'
  BY <1>0, <1>1, <1>2, <1>4 DEF ScanInv
<1>6. ASSUME q \in Rot, pc[q] \in {"update", "commit"} PROVE q \in share' /\ user'
  <2>1. q \in share /\ user
    BY <1>1, <1>6 DEF UserInv
  <2>2. user' = user
    BY <1>6, Apart
  <2> QED
    BY <2>1, <2>2
<1>7. ASSUME q \in Del, pc[q] \in {"cascade", "scan", "commit"} PROVE excl' = q
  BY <1>1, <1>7 DEF UserInv, Txn
<1>8. ASSUME q \in Del, pc[q] \in {"scan", "commit"} PROVE rows' \subseteq seen[q]
  BY <1>1, <1>8, Apart DEF UserInv
<1>9. UserInv(q)'
  BY <1>0, <1>1, <1>6, <1>7, <1>8 DEF UserInv
<1> QED
  BY <1>5, <1>9 DEF TxnInv

(* Steps that leave the tables alone. *)
LEMMA StepInv ==
    ASSUME RotateInv, NEW t \in Txn, Alone(t), pc[t] # "over", TypeOK',
           share \ {t} \subseteq share', excl' = excl \/ excl \in {Nobody, t},
           UNCHANGED tables, TxnInv(t)', excl' \in Del => share' = {}
    PROVE  RotateInv'
<1>1. OverRot \subseteq OverRot'
  BY DEF Alone, OverRot, Txn
<1>2. \A q \in Txn : TxnInv(q)'
  BY OthersInv DEF tables
<1> QED
  BY <1>1, <1>2 DEF RotateInv, tables

-----------------------------------------------------------------------------
(* A step that touches the locals of t alone. *)
LEMMA LocalStep ==
    ASSUME RotateInv, NEW t \in Txn, NEW l \in PC, Goto(t, l), pc[t] # "over",
           UNCHANGED <<tables, lock>>,
           seen' \in {seen, [seen EXCEPT ![t] = rows]},
           scan' \in {scan, [scan EXCEPT ![t] = rows]}, UNCHANGED want
    PROVE  /\ Alone(t) /\ pc' \in [Txn -> PC] /\ pc'[t] = l
           /\ seen' \in [Txn -> SUBSET Row] /\ scan' \in [Txn -> SUBSET Row]
           /\ Held(t)' = Held(t)
BY DEF RotateInv, TypeOK, Alone, Goto, Held, tables

LEMMA StartScanInv ==
    ASSUME RotateInv, NEW t \in Txn, pc[t] \in {"begin", "cascade"}, StartScan(t),
           t \in Rot => pc[t] = "begin", t \in Del => pc[t] = "cascade"
    PROVE  RotateInv'
<1> USE DEF RotateInv
<1>0. /\ Goto(t, "scan") /\ UNCHANGED <<tables, locks, want>>
      /\ seen' = [seen EXCEPT ![t] = rows] /\ scan' = [scan EXCEPT ![t] = rows]
  BY DEF StartScan
<1>1. /\ Alone(t) /\ pc' \in [Txn -> PC] /\ pc'[t] = "scan"
      /\ seen' \in [Txn -> SUBSET Row] /\ scan' \in [Txn -> SUBSET Row]
      /\ Held(t)' = Held(t)
  BY <1>0, LocalStep DEF PC, locks
<1>2. TypeOK'
  BY <1>0, <1>1 DEF TypeOK, tables, locks
<1>3. Held(t) = {} /\ want[t] = Nobody /\ seen'[t] = rows /\ scan'[t] = rows
  BY <1>0 DEF TxnInv, ScanInv, TypeOK
<1>4. OverRot \subseteq OverRot'
  BY <1>1 DEF Alone, OverRot, Txn
<1>5. TxnInv(t)'
  BY <1>0, <1>1, <1>3, <1>4 DEF TxnInv, ScanInv, UserInv, tables, locks
<1> QED
  BY <1>0, <1>1, <1>2, <1>5, StepInv DEF locks

LEMMA ReachInv ==
    ASSUME RotateInv, NEW t \in Txn, Reach(t) PROVE RotateInv'
<1> USE DEF RotateInv
<1>1. PICK x \in scan[t] :
          /\ want' = [want EXCEPT ![t] = x]
          /\ scan' = [scan EXCEPT ![t] = @ \ {x}]
  BY DEF Reach
<1>2. /\ pc[t] = "scan" /\ want[t] = Nobody /\ UNCHANGED <<tables, locks, pc, seen>>
  BY DEF Reach
<1>3. x \in Row
  BY DEF TypeOK
<1>4. TypeOK'
  BY <1>1, <1>2, <1>3 DEF TypeOK, tables, locks
<1>5. Alone(t) /\ Held(t)' = Held(t) /\ OverRot' = OverRot
  BY <1>1, <1>2 DEF Alone, Held, TypeOK, locks, OverRot
<1>6. want'[t] = x /\ scan'[t] = scan[t] \ {x}
  BY <1>1 DEF TypeOK
<1>7. Nobody \notin seen[t]
  BY DEF TypeOK, Row, Txn
<1>8. TxnInv(t)'
  BY <1>1, <1>2, <1>5, <1>6, <1>7 DEF TxnInv, ScanInv, UserInv, tables, locks
<1> QED
  BY <1>2, <1>4, <1>5, <1>8, StepInv DEF locks

LEMMA LockRowInv ==
    ASSUME RotateInv, NEW t \in Txn, LockRow(t) PROVE RotateInv'
<1> USE DEF RotateInv
<1>0. /\ pc[t] = "scan" /\ want[t] # Nobody /\ Blockers(t) = {}
      /\ lock' = IF want[t] \in rows THEN [lock EXCEPT ![want[t]] = t] ELSE lock
      /\ want' = [want EXCEPT ![t] = Nobody]
      /\ UNCHANGED <<tables, share, excl, pc, seen, scan>>
  BY DEF LockRow
<1>1. want[t] \in Row /\ lock[want[t]] \in {Nobody, t}
  BY <1>0 DEF TypeOK, Blockers
<1>2. TypeOK'
  BY <1>0, <1>1 DEF TypeOK, tables
<1>3. /\ \A q \in Txn : q # t => Held(q)' = Held(q)
      /\ Held(t)' = IF want[t] \in rows THEN Held(t) \cup {want[t]} ELSE Held(t)
  BY <1>0, <1>1 DEF Held, TypeOK, Txn
<1>4. Alone(t) /\ OverRot' = OverRot /\ want'[t] = Nobody
  BY <1>0, <1>3 DEF Alone, OverRot, TypeOK
<1>5. TxnInv(t)'
  BY <1>0, <1>3, <1>4 DEF TxnInv, ScanInv, UserInv, tables
<1> QED
  BY <1>0, <1>2, <1>4, <1>5, StepInv

LEMMA EndScanInv ==
    ASSUME RotateInv, NEW t \in Txn, EndScan(t) PROVE RotateInv'
<1> USE DEF RotateInv
<1>0. /\ pc[t] = "scan" /\ want[t] = Nobody /\ scan[t] = {}
      /\ UNCHANGED <<tables, locks, seen, scan, want>>
  BY DEF EndScan
<1>1. PICK l \in {"insert", "commit"} :
          Goto(t, l) /\ (t \in Rot => l = "insert") /\ (t \in Del => l = "commit")
  BY DEF EndScan
<1>2. /\ Alone(t) /\ pc' \in [Txn -> PC] /\ pc'[t] = l /\ Held(t)' = Held(t)
  BY <1>0, <1>1, LocalStep DEF PC, locks
<1>3. TypeOK'
  BY <1>0, <1>2 DEF TypeOK, tables, locks
<1>4. OverRot \subseteq OverRot'
  BY <1>0, <1>2 DEF Alone, OverRot, Txn
<1>5. TxnInv(t)'
  BY <1>0, <1>1, <1>2, <1>4 DEF TxnInv, ScanInv, UserInv, tables, locks
<1> QED
  BY <1>0, <1>2, <1>3, <1>5, StepInv DEF locks

-----------------------------------------------------------------------------
(* The end of a transaction, whatever it leaves in the tables. *)
LEMMA EndEffect ==
    ASSUME RotateInv, NEW t \in Txn, End(t), pc[t] # "over"
    PROVE  /\ Alone(t) /\ pc' \in [Txn -> PC] /\ pc'[t] = "over"
           /\ seen' \in [Txn -> SUBSET Row] /\ scan' \in [Txn -> SUBSET Row]
           /\ want' \in [Txn -> Row \cup {Nobody}]
           /\ lock' \in [Row -> Txn \cup {Nobody}]
           /\ share' = share \ {t} /\ share' \subseteq Rot
           /\ excl' = IF excl = t THEN Nobody ELSE excl
           /\ excl' \in Txn \cup {Nobody}
           /\ Held(t)' = {} /\ seen'[t] = {} /\ scan'[t] = {} /\ want'[t] = Nobody
<1>1. Alone(t) /\ Held(t)' = {}
  <2>1. \A x \in Row, q \in Txn : q # t => (lock'[x] = q <=> lock[x] = q)
    BY DEF End, Release, RotateInv, TypeOK, Txn
  <2>2. \A x \in Row : lock'[x] # t
    BY DEF End, Release, Txn
  <2> QED
    BY <2>1, <2>2 DEF End, Goto, Held, Alone, RotateInv, TypeOK
<1>2. lock' \in [Row -> Txn \cup {Nobody}]
  BY DEF End, Release, RotateInv, TypeOK
<1> QED
  BY <1>1, <1>2 DEF End, Release, Goto, RotateInv, TypeOK, PC

LEMMA EndInv ==
    ASSUME RotateInv, NEW t \in Txn, End(t), pc[t] # "over", UNCHANGED tables
    PROVE  RotateInv'
<1>1. /\ Alone(t) /\ pc' \in [Txn -> PC] /\ pc'[t] = "over"
      /\ seen' \in [Txn -> SUBSET Row] /\ scan' \in [Txn -> SUBSET Row]
      /\ want' \in [Txn -> Row \cup {Nobody}]
      /\ lock' \in [Row -> Txn \cup {Nobody}]
      /\ share' = share \ {t} /\ share' \subseteq Rot
      /\ excl' = IF excl = t THEN Nobody ELSE excl
      /\ excl' \in Txn \cup {Nobody}
      /\ Held(t)' = {} /\ seen'[t] = {} /\ scan'[t] = {} /\ want'[t] = Nobody
  BY EndEffect
<1>2. TypeOK'
  BY <1>1 DEF TypeOK, tables, RotateInv
<1>3. TxnInv(t)'
  BY <1>1 DEF TxnInv, ScanInv, UserInv
<1>4. excl' \in Del => share' = {}
  BY <1>1 DEF RotateInv, Txn
<1> QED
  BY <1>1, <1>2, <1>3, <1>4, StepInv

LEMMA InsertInv ==
    ASSUME RotateInv, NEW r \in Txn, Insert(r) PROVE RotateInv'
<1> USE DEF RotateInv
<1>0. r \in Rot /\ pc[r] = "insert" /\ Blockers(r) = {} /\ UNCHANGED tables
  BY DEF Insert
<1>1. CASE /\ user /\ share' = share \cup {r} /\ Goto(r, "update")
           /\ UNCHANGED <<lock, excl, seen, scan, want>>
  <2>1. Alone(r) /\ pc' \in [Txn -> PC] /\ pc'[r] = "update" /\ Held(r)' = Held(r)
    BY <1>0, <1>1, LocalStep DEF PC
  <2>2. TypeOK'
    BY <1>0, <1>1, <2>1 DEF TypeOK, tables
  <2>3. excl \notin Del
    BY <1>0 DEF Blockers, ShareBlockers
  <2>4. OverRot \subseteq OverRot'
    BY <1>0, <2>1 DEF Alone, OverRot, Txn
  <2>5. TxnInv(r)'
    BY <1>0, <1>1, <2>1, <2>4 DEF TxnInv, ScanInv, UserInv, tables
  <2> QED
    BY <1>0, <1>1, <2>1, <2>2, <2>3, <2>5, StepInv
<1>2. CASE End(r)
  BY <1>0, <1>2, EndInv
<1> QED
  BY <1>0, <1>1, <1>2 DEF Insert

LEMMA UpdateUserInv ==
    ASSUME RotateInv, NEW r \in Txn, UpdateUser(r) PROVE RotateInv'
<1> USE DEF RotateInv
<1>0. /\ pc[r] = "update" /\ Blockers(r) = {} /\ excl' = r /\ Goto(r, "commit")
      /\ UNCHANGED <<tables, lock, share, seen, scan, want>>
  BY DEF UpdateUser
<1>1. Alone(r) /\ pc' \in [Txn -> PC] /\ pc'[r] = "commit" /\ Held(r)' = Held(r)
  BY <1>0, LocalStep DEF PC
<1>2. r \in Rot /\ r \notin Del /\ excl \in {Nobody, r}
  BY <1>0 DEF Blockers, UpdateBlockers, TxnInv, UserInv, Txn
<1>3. TypeOK'
  BY <1>0, <1>1 DEF TypeOK, tables
<1>4. OverRot \subseteq OverRot'
  BY <1>0, <1>1 DEF Alone, OverRot, Txn
<1>5. TxnInv(r)'
  BY <1>0, <1>1, <1>2, <1>4 DEF TxnInv, ScanInv, UserInv, tables
<1> QED
  BY <1>0, <1>1, <1>2, <1>3, <1>5, StepInv

LEMMA BeginEraseInv ==
    ASSUME RotateInv, NEW d \in Txn, BeginErase(d) PROVE RotateInv'
<1> USE DEF RotateInv
<1>0. /\ d \in Del /\ pc[d] = "begin" /\ Goto(d, "lock")
      /\ UNCHANGED <<tables, locks, seen, scan, want>>
  BY DEF BeginErase
<1>1. Alone(d) /\ pc' \in [Txn -> PC] /\ pc'[d] = "lock" /\ Held(d)' = Held(d)
  BY <1>0, LocalStep DEF PC, locks
<1>2. TypeOK'
  BY <1>0, <1>1 DEF TypeOK, tables, locks
<1>3. OverRot \subseteq OverRot'
  BY <1>0, <1>1 DEF Alone, OverRot, Txn
<1>4. TxnInv(d)'
  BY <1>0, <1>1, <1>3 DEF TxnInv, ScanInv, UserInv, tables, locks
<1> QED
  BY <1>0, <1>1, <1>2, <1>4, StepInv DEF locks

LEMMA LockUserInv ==
    ASSUME RotateInv, NEW d \in Txn, LockUser(d) PROVE RotateInv'
<1> USE DEF RotateInv
<1>0. pc[d] = "lock" /\ Blockers(d) = {} /\ UNCHANGED tables
  BY DEF LockUser
<1>1. d \in Del /\ d \notin Rot
  BY <1>0 DEF TxnInv, UserInv, Txn
<1>2. CASE /\ excl' = d /\ Goto(d, "cascade")
           /\ UNCHANGED <<lock, share, seen, scan, want>>
  <2>1. Alone(d) /\ pc' \in [Txn -> PC] /\ pc'[d] = "cascade" /\ Held(d)' = Held(d)
    BY <1>0, <1>2, LocalStep DEF PC
  <2>2. share = {} /\ excl \in {Nobody, d}
    BY <1>0, <1>1 DEF Blockers, EraseBlockers, TypeOK
  <2>3. TypeOK'
    BY <1>0, <1>2, <2>1 DEF TypeOK, tables
  <2>4. OverRot \subseteq OverRot'
    BY <1>0, <2>1 DEF Alone, OverRot, Txn
  <2>5. TxnInv(d)'
    BY <1>0, <1>1, <1>2, <2>1, <2>4 DEF TxnInv, ScanInv, UserInv, tables
  <2> QED
    BY <1>0, <1>2, <2>1, <2>2, <2>3, <2>5, StepInv
<1>3. CASE End(d)
  BY <1>0, <1>3, EndInv
<1> QED
  BY <1>0, <1>2, <1>3 DEF LockUser

(* The rows a rotation deletes are those it has seen and that are there.   *)
LEMMA CommitRotationFacts ==
    ASSUME RotateInv, NEW r \in Txn, CommitRotation(r)
    PROVE  /\ r \in Rot /\ pc[r] = "commit" /\ End(r) /\ user' = user /\ user
           /\ r \notin rows /\ rows' = (rows \ seen[r]) \cup {r}
<1> USE DEF RotateInv
<1>1. /\ r \in Rot /\ pc[r] = "commit" /\ End(r) /\ user' = user
      /\ rows' = (rows \ Held(r)) \cup {r}
  BY DEF CommitRotation
<1>2. user /\ r \notin rows
  BY <1>1 DEF TxnInv, UserInv, OverRot, Txn
<1>3. seen[r] \cap rows \subseteq Held(r) /\ Held(r) \subseteq seen[r]
  BY <1>1 DEF TxnInv, ScanInv, TypeOK, Row, Txn
<1> QED
  BY <1>1, <1>2, <1>3

LEMMA CommitRotationInv ==
    ASSUME RotateInv, NEW r \in Txn, CommitRotation(r) PROVE RotateInv'
<1> USE DEF RotateInv
<1>0. /\ r \in Rot /\ pc[r] = "commit" /\ End(r) /\ user' = user
      /\ rows' = (rows \ seen[r]) \cup {r}
  BY CommitRotationFacts
<1>1. /\ Alone(r) /\ pc' \in [Txn -> PC] /\ pc'[r] = "over"
      /\ seen' \in [Txn -> SUBSET Row] /\ scan' \in [Txn -> SUBSET Row]
      /\ want' \in [Txn -> Row \cup {Nobody}]
      /\ lock' \in [Row -> Txn \cup {Nobody}]
      /\ share' = share \ {r} /\ share' \subseteq Rot
      /\ excl' = IF excl = r THEN Nobody ELSE excl
      /\ excl' \in Txn \cup {Nobody}
      /\ Held(r)' = {} /\ seen'[r] = {} /\ scan'[r] = {} /\ want'[r] = Nobody
  BY <1>0, EndEffect
<1>2. TypeOK'
  BY <1>0, <1>1 DEF TypeOK, Row
<1>3. OverRot \subseteq OverRot' /\ r \in OverRot'
  BY <1>0, <1>1 DEF Alone, OverRot, Txn
<1>4. rows' \subseteq Old \cup OverRot'
  BY <1>0, <1>3
<1>5. ASSUME NEW q \in Txn PROVE TxnInv(q)'
  <2>1. CASE q = r
    BY <1>0, <1>1, <2>1 DEF TxnInv, ScanInv, UserInv
  <2>2. CASE q # r
    BY <1>0, <1>1, <2>2, OthersInv
  <2> QED
    BY <2>1, <2>2
<1>6. excl' \in Del => share' = {}
  BY <1>1 DEF Txn
<1> QED
  BY <1>2, <1>4, <1>5, <1>6

(* The cascade deletes every token there is.                               *)
LEMMA CommitEraseFacts ==
    ASSUME RotateInv, NEW d \in Txn, CommitErase(d)
    PROVE  d \in Del /\ pc[d] = "commit" /\ End(d) /\ user' = FALSE /\ rows' = {}
<1> USE DEF RotateInv
<1>1. /\ d \in Del /\ pc[d] = "commit" /\ End(d) /\ user' = FALSE
      /\ rows' = rows \ Held(d)
  BY DEF CommitErase
<1>2. rows \subseteq seen[d]
  BY <1>1 DEF TxnInv, UserInv, Txn
<1>3. seen[d] \cap rows \subseteq Held(d)
  BY <1>1 DEF TxnInv, ScanInv, TypeOK, Row, Txn
<1> QED
  BY <1>1, <1>2, <1>3

LEMMA CommitEraseInv ==
    ASSUME RotateInv, NEW d \in Txn, CommitErase(d) PROVE RotateInv'
<1> USE DEF RotateInv
<1>0. d \in Del /\ pc[d] = "commit" /\ End(d) /\ user' = FALSE /\ rows' = {}
  BY CommitEraseFacts
<1>1. /\ Alone(d) /\ pc' \in [Txn -> PC] /\ pc'[d] = "over"
      /\ seen' \in [Txn -> SUBSET Row] /\ scan' \in [Txn -> SUBSET Row]
      /\ want' \in [Txn -> Row \cup {Nobody}]
      /\ lock' \in [Row -> Txn \cup {Nobody}]
      /\ share' = share \ {d} /\ share' \subseteq Rot
      /\ excl' = IF excl = d THEN Nobody ELSE excl
      /\ excl' \in Txn \cup {Nobody}
      /\ Held(d)' = {} /\ seen'[d] = {} /\ scan'[d] = {} /\ want'[d] = Nobody
  BY <1>0, EndEffect
<1>2. TypeOK'
  BY <1>0, <1>1 DEF TypeOK
<1>3. ASSUME NEW q \in Txn PROVE TxnInv(q)'
  <2>1. CASE q = d
    BY <1>0, <1>1, <2>1 DEF TxnInv, ScanInv, UserInv
  <2>2. CASE q # d
    BY <1>0, <1>1, <2>2, OthersInv
  <2> QED
    BY <2>1, <2>2
<1>4. excl' \in Del => share' = {}
  BY <1>1 DEF Txn
<1> QED
  BY <1>0, <1>2, <1>3, <1>4

(* Only a transaction that waits is found in a deadlock.                   *)
LEMMA DetectEnds ==
    ASSUME RotateInv, NEW t \in Txn, Detect(t)
    PROVE  End(t) /\ UNCHANGED tables /\ pc[t] # "over"
<1>1. End(t) /\ UNCHANGED tables
  BY DEF Detect, Rollback
<1>2. Blockers(t) # {}
  BY DEF Detect, Cycle, Waiting
<1> QED
  BY <1>1, <1>2 DEF Blockers

LEMMA SameInv == ASSUME RotateInv, UNCHANGED vars PROVE RotateInv'
<1> USE DEF RotateInv, vars
<1>1. TypeOK'
  BY DEF TypeOK
<1>2. \A t \in Txn : TxnInv(t)'
  BY DEF TxnInv, ScanInv, UserInv, Held, OverRot
<1> QED
  BY <1>1, <1>2 DEF OverRot

LEMMA NextInv == RotateInv /\ [Next]_vars => RotateInv'
<1> SUFFICES ASSUME RotateInv, [Next]_vars PROVE RotateInv'
  OBVIOUS
<1>1. ASSUME NEW t \in Txn, BeginRotation(t) \/ Cascade(t) PROVE RotateInv'
  <2>1. pc[t] \in {"begin", "cascade"} /\ StartScan(t)
    BY <1>1 DEF BeginRotation, Cascade
  <2>2. /\ t \in Rot => pc[t] = "begin"
        /\ t \in Del => pc[t] = "cascade"
    BY <1>1 DEF BeginRotation, Cascade, RotateInv, TxnInv, UserInv
  <2> QED
    BY <2>1, <2>2, StartScanInv
<1>2. ASSUME NEW t \in Txn, Step(t) PROVE RotateInv'
  BY <1>1, <1>2, ReachInv, LockRowInv, EndScanInv, InsertInv, UpdateUserInv,
     CommitRotationInv, BeginEraseInv, LockUserInv, CommitEraseInv,
     DetectEnds, EndInv DEF Step
<1>3. ASSUME NEW t \in Txn, Hangup(t) PROVE RotateInv'
  BY <1>3, EndInv DEF Hangup, Rollback
<1>4. CASE UNCHANGED vars
  BY <1>4, SameInv
<1> QED
  BY <1>2, <1>3, <1>4 DEF Next

(* RotateInv holds for any transactions over any rows, whoever waits for   *)
(* whom and whoever is rolled back (handlers.go 857-879, 1075).            *)
THEOREM RotateInvariance == Spec => []RotateInv
<1>1. Init => RotateInv
  BY InitInv
<1>2. RotateInv /\ [Next]_vars => RotateInv'
  BY NextInv
<1> QED
  BY <1>1, <1>2, PTL DEF Spec

(* Every variable keeps its type (handlers.go 857-879, 1075). *)
THEOREM TypeCorrect == Spec => []TypeOK
<1>1. RotateInv => TypeOK
  BY DEF RotateInv
<1> QED
  BY <1>1, RotateInvariance, PTL

-----------------------------------------------------------------------------
(* The refinement: what a rotation has seen is its own, and only the two   *)
(* commits change the tables.                                              *)
Seen == [r \in Rot |-> seen[r]]
TablesStep == [Tables!TablesNext]_(Tables!tableVars)

LEMMA SameTables ==
    ASSUME UNCHANGED <<tables, seen>> PROVE TablesStep
BY DEF TablesStep, Tables!tableVars, tables

(* A transaction that ends and changes nothing. *)
LEMMA EndTables ==
    ASSUME RotateInv, NEW t \in Txn, End(t), UNCHANGED tables PROVE TablesStep
<1>1. seen' = [seen EXCEPT ![t] = {}]
  BY DEF End
<1>2. CASE t \in Rot
  <2>1. Seen' = [Seen EXCEPT ![t] = {}]
    BY <1>1, <1>2 DEF Seen, RotateInv, TypeOK, Txn
  <2>2. Tables!Rollback(t)
    BY <2>1 DEF Tables!Rollback, Seen, tables
  <2> QED
    BY <1>2, <2>2 DEF TablesStep, Tables!TablesNext
<1>3. CASE t \in Del
  <2>1. Seen' = Seen
    BY <1>1, <1>3 DEF Seen, RotateInv, TypeOK, Txn
  <2> QED
    BY <2>1 DEF TablesStep, Tables!tableVars, tables, Seen
<1> QED
  BY <1>2, <1>3 DEF Txn

LEMMA BeginRotationTables ==
    ASSUME RotateInv, NEW r \in Txn, BeginRotation(r) PROVE TablesStep
<1>1. /\ r \in Rot /\ seen' = [seen EXCEPT ![r] = rows] /\ UNCHANGED tables
  BY DEF BeginRotation, StartScan
<1>2. Seen' = [Seen EXCEPT ![r] = rows]
  BY <1>1 DEF Seen, RotateInv, TypeOK, Txn
<1>3. Tables!DeleteOld(r)
  BY <1>1, <1>2 DEF Tables!DeleteOld, Seen, tables
<1> QED
  BY <1>1, <1>3 DEF TablesStep, Tables!TablesNext

LEMMA CascadeTables ==
    ASSUME RotateInv, NEW d \in Txn, Cascade(d) PROVE TablesStep
<1>1. seen' = [seen EXCEPT ![d] = rows] /\ UNCHANGED tables /\ pc[d] = "cascade"
  BY DEF Cascade, StartScan
<1>2. d \in Del /\ d \notin Rot
  BY <1>1 DEF RotateInv, TxnInv, UserInv, Txn
<1>3. Seen' = Seen
  BY <1>1, <1>2 DEF Seen, RotateInv, TypeOK, Txn
<1> QED
  BY <1>1, <1>3 DEF TablesStep, Tables!tableVars, tables, Seen

LEMMA CommitRotationTables ==
    ASSUME RotateInv, NEW r \in Txn, CommitRotation(r) PROVE TablesStep
<1>1. /\ r \in Rot /\ End(r) /\ user' = user /\ user
      /\ r \notin rows /\ rows' = (rows \ seen[r]) \cup {r}
  BY CommitRotationFacts
<1>2. Seen' = [Seen EXCEPT ![r] = {}] /\ Seen[r] = seen[r]
  BY <1>1 DEF End, Seen, RotateInv, TypeOK, Txn
<1>3. Tables!Commit(r)
  BY <1>1, <1>2 DEF Tables!Commit, Seen
<1> QED
  BY <1>1, <1>3 DEF TablesStep, Tables!TablesNext

LEMMA CommitEraseTables ==
    ASSUME RotateInv, NEW d \in Txn, CommitErase(d) PROVE TablesStep
<1>1. d \in Del /\ End(d) /\ user' = FALSE /\ rows' = {}
  BY CommitEraseFacts
<1>2. Seen' = Seen
  BY <1>1 DEF End, Seen, RotateInv, TypeOK, Txn
<1>3. Tables!EraseUser
  BY <1>1, <1>2 DEF Tables!EraseUser, Seen
<1> QED
  BY <1>3 DEF TablesStep, Tables!TablesNext

LEMMA NextTables == ASSUME RotateInv, [Next]_vars PROVE TablesStep
<1>1. ASSUME NEW t \in Txn, Reach(t) \/ LockRow(t) \/ EndScan(t) \/ UpdateUser(t)
                            \/ BeginErase(t)
      PROVE  TablesStep
  BY <1>1, SameTables DEF Reach, LockRow, EndScan, UpdateUser, BeginErase, tables
<1>2. ASSUME NEW t \in Txn, Insert(t) \/ LockUser(t) PROVE TablesStep
  BY <1>2, SameTables, EndTables DEF Insert, LockUser, tables
<1>3. ASSUME NEW t \in Txn, Detect(t) \/ Hangup(t) PROVE TablesStep
  BY <1>3, EndTables DEF Detect, Hangup, Rollback
<1>4. ASSUME NEW t \in Txn, Step(t) PROVE TablesStep
  BY <1>1, <1>2, <1>3, <1>4, BeginRotationTables, CascadeTables,
     CommitRotationTables, CommitEraseTables DEF Step
<1>5. CASE UNCHANGED vars
  BY <1>5, SameTables DEF vars, tables
<1> QED
  BY <1>3, <1>4, <1>5 DEF Next

LEMMA InitTables == Init => Tables!TablesInit
<1> SUFFICES ASSUME Init PROVE Tables!TablesInit
  OBVIOUS
<1>1. Seen = [r \in Rot |-> {}]
  BY DEF Init, Seen, Txn
<1> QED
  BY <1>1 DEF Init, Tables!TablesInit, Seen

(* What Auth takes a rotation and a deletion for is what the transactions  *)
(* do: a rotation replaces exactly the rows its DELETE saw, and only for a *)
(* user who is still there; a deletion leaves no token behind, whatever    *)
(* was waiting or has failed meanwhile (handlers.go 857-879, 1075).        *)
THEOREM TransactionsImplementTables == Spec => ImplementsTables
<1>1. Init => Tables!TablesInit
  BY InitTables
<1>2. RotateInv /\ [Next]_vars => [Tables!TablesNext]_(Tables!tableVars)
  BY NextTables DEF TablesStep
<1> QED
  BY <1>1, <1>2, RotateInvariance, PTL DEF Spec, ImplementsTables, Tables!TablesSpec

-----------------------------------------------------------------------------
(* Deadlocks. A locked row is one that is there, and a rotation that has   *)
(* the user's row waits for nothing any more.                              *)
LockInv ==
    /\ \A x \in Row : lock[x] # Nobody => x \in rows
    /\ \A r \in Rot : excl = r => pc[r] = "commit"

LEMMA EndLock ==
    ASSUME RotateInv, LockInv, NEW t \in Txn, End(t),
           \A x \in rows : x \in rows' \/ lock[x] = t
    PROVE  LockInv'
<1>1. \A x \in Row : lock'[x] # Nobody => lock[x] # Nobody /\ lock[x] # t
  BY DEF End, Release
<1>2. \A q \in Txn : q # t => pc'[q] = pc[q]
  BY DEF End, Goto, RotateInv, TypeOK
<1>3. excl' # t /\ (excl' # Nobody => excl' = excl)
  BY DEF End, Release, Txn
<1> QED
  BY <1>1, <1>2, <1>3 DEF LockInv, Txn

LEMMA NextLock == ASSUME RotateInv, LockInv, [Next]_vars PROVE LockInv'
<1> USE DEF RotateInv
<1>1. ASSUME NEW t \in Txn, End(t), UNCHANGED tables PROVE LockInv'
  BY <1>1, EndLock DEF tables
<1>2. ASSUME NEW t \in Txn, NEW l \in PC, Goto(t, l), pc[t] # "commit",
             UNCHANGED <<tables, lock, excl>>
      PROVE  LockInv'
  BY <1>2 DEF LockInv, Goto, tables, TypeOK, Txn
<1>3. ASSUME NEW t \in Txn, BeginRotation(t) \/ Cascade(t) \/ EndScan(t) \/ BeginErase(t)
      PROVE  LockInv'
  <2>1. /\ pc[t] # "commit" /\ UNCHANGED <<tables, lock, excl>>
        /\ \E l \in PC : Goto(t, l)
    BY <1>3 DEF BeginRotation, Cascade, StartScan, EndScan, BeginErase, PC, locks
  <2> QED
    BY <1>2, <2>1
<1>4. ASSUME NEW t \in Txn, Reach(t) PROVE LockInv'
  BY <1>4 DEF Reach, LockInv, tables, locks
<1>5. ASSUME NEW t \in Txn, LockRow(t) PROVE LockInv'
  BY <1>5 DEF LockRow, LockInv, tables, TypeOK
<1>6. ASSUME NEW t \in Txn, Insert(t) PROVE LockInv'
  <2>1. CASE End(t)
    BY <1>1, <1>6, <2>1 DEF Insert
  <2>2. CASE Goto(t, "update") /\ UNCHANGED <<lock, excl>>
    BY <1>2, <1>6, <2>2 DEF Insert, PC
  <2> QED
    BY <1>6, <2>1, <2>2 DEF Insert
<1>7. ASSUME NEW t \in Txn, UpdateUser(t) PROVE LockInv'
  <2>1. /\ excl' = t /\ pc' = [pc EXCEPT ![t] = "commit"] /\ UNCHANGED <<tables, lock>>
    BY <1>7 DEF UpdateUser, Goto
  <2>2. pc'[t] = "commit"
    BY <2>1 DEF TypeOK
  <2> QED
    BY <2>1, <2>2 DEF LockInv, tables
<1>8. ASSUME NEW t \in Txn, LockUser(t) PROVE LockInv'
  <2>1. CASE End(t)
    BY <1>1, <1>8, <2>1 DEF LockUser
  <2>2. CASE excl' = t /\ Goto(t, "cascade") /\ UNCHANGED lock
    <3>1. t \notin Rot
      BY <1>8 DEF LockUser, TxnInv, UserInv
    <3> QED
      BY <1>8, <2>2, <3>1 DEF LockUser, LockInv, tables
  <2> QED
    BY <1>8, <2>1, <2>2 DEF LockUser
<1>9. ASSUME NEW t \in Txn, CommitRotation(t) \/ CommitErase(t) PROVE LockInv'
  <2>1. End(t) /\ \A x \in rows : x \in rows' \/ x \in Held(t)
    BY <1>9 DEF CommitRotation, CommitErase
  <2> QED
    BY <2>1, EndLock DEF Held
<1>10. ASSUME NEW t \in Txn, Detect(t) \/ Hangup(t) PROVE LockInv'
  BY <1>1, <1>10 DEF Detect, Hangup, Rollback
<1>11. CASE UNCHANGED vars
  BY <1>11 DEF vars, LockInv
<1> QED
  BY <1>3, <1>4, <1>5, <1>6, <1>7, <1>8, <1>9, <1>10, <1>11 DEF Next, Step

(* A rotation in a deadlock of rotations waits for a row another one has   *)
(* locked, which waits for a row of a third or of the first.               *)
LEMMA WaitsForRow ==
    ASSUME RotateInv, LockInv, NEW S \in SUBSET Rot, Waiting(S), NEW t \in S
    PROVE  /\ want[t] \in rows
           /\ lock[want[t]] \in S /\ lock[want[t]] # t
<1>1. PICK u \in S : u \in Blockers(t)
  BY DEF Waiting
<1>2. Blockers(u) # {} /\ t \in Rot /\ u \in Rot
  BY DEF Waiting
<1>3. pc[u] # "commit"
  BY <1>2 DEF Blockers
<1>4. pc[t] # "insert" /\ pc[t] # "lock"
  BY <1>1, <1>2 DEF Blockers, ShareBlockers, RotateInv, TxnInv, UserInv, Txn
<1>5. pc[t] # "update"
  BY <1>1, <1>2, <1>3 DEF Blockers, UpdateBlockers, LockInv
<1>6. pc[t] = "scan" /\ want[t] # Nobody /\ u = lock[want[t]] /\ u # t /\ u # Nobody
  BY <1>1, <1>4, <1>5 DEF Blockers
<1>7. want[t] \in Row
  BY <1>2, <1>6 DEF RotateInv, TypeOK, Txn
<1> QED
  BY <1>6, <1>7 DEF LockInv

LEMMA TwoRows ==
    ASSUME RotateInv, NEW x \in rows, NEW y \in rows, x # y
    PROVE  Cardinality(rows) >= 2
<1>1. IsFiniteSet(rows)
  BY FiniteAssumption, FS_Subset DEF RotateInv, TypeOK
<1>2. IsFiniteSet({x}) /\ Cardinality({x}) = 1
  BY FS_Singleton
<1>3. Cardinality({x} \cup {y}) = 2
  <2>1. Cardinality({x} \cup {y}) = Cardinality({x}) + 1
    BY <1>2, FS_AddElement
  <2> QED
    BY <1>2, <2>1
<1>4. {x} \cup {y} \subseteq rows
  OBVIOUS
<1>5. Cardinality({x} \cup {y}) <= Cardinality(rows)
  BY <1>1, <1>4, FS_Subset
<1> QED
  BY <1>3, <1>5

LEMMA DeadlockStep == RotateInv /\ LockInv => DeadlockExplained
<1> SUFFICES ASSUME RotateInv, LockInv, NEW S \in SUBSET Txn, Cycle(S), S \cap Del = {}
             PROVE  Cardinality(rows) >= 2
  BY DEF DeadlockExplained
<1>1. S \in SUBSET Rot /\ Waiting(S)
  BY DEF Txn, Cycle
<1>2. PICK t \in S : TRUE
  BY <1>1 DEF Waiting
<1>3. /\ want[t] \in rows
      /\ lock[want[t]] \in S /\ lock[want[t]] # t
  BY <1>1, WaitsForRow
<1> DEFINE u == lock[want[t]]
<1>4. /\ want[u] \in rows
      /\ lock[want[u]] \in S /\ lock[want[u]] # u
  BY <1>1, <1>3, WaitsForRow
<1>5. want[u] # want[t]
  BY <1>4
<1> QED
  BY <1>3, <1>4, <1>5, TwoRows

(* A deadlock, answered 500, takes a deletion of the account or two rows   *)
(* of the kind, for any number of transactions: rotations lock the token   *)
(* rows before the user's, and wait for nothing once they have that        *)
(* (handlers.go 862-876).                                                  *)
THEOREM DeadlocksAreExplained == Spec => []DeadlockExplained
<1>1. Init => LockInv
  BY DEF Init, LockInv, Txn
<1>2. RotateInv /\ LockInv /\ [Next]_vars => LockInv'
  BY NextLock
<1>3. Spec => []LockInv
  BY <1>1, <1>2, RotateInvariance, PTL DEF Spec
<1> QED
  BY <1>3, DeadlockStep, RotateInvariance, PTL

-----------------------------------------------------------------------------
(* Waits. Who holds the user's row is between the statement that took it   *)
(* and the end of its transaction.                                         *)
HolderInv ==
    /\ \A r \in share : pc[r] \in {"update", "commit"}
    /\ \A d \in Del : excl = d => pc[d] \in {"cascade", "scan", "commit"}

LEMMA EndHolder ==
    ASSUME RotateInv, HolderInv, NEW t \in Txn, End(t) PROVE HolderInv'
<1>1. \A q \in Txn : q # t => pc'[q] = pc[q]
  BY DEF End, Goto, RotateInv, TypeOK
<1>2. share' = share \ {t} /\ (excl' # Nobody => excl' = excl /\ excl' # t)
  BY DEF End, Release
<1>3. share \subseteq Txn /\ \A d \in Del : d # Nobody /\ d \in Txn
  BY DEF RotateInv, TypeOK, Txn
<1> QED
  BY <1>1, <1>2, <1>3 DEF HolderInv

LEMMA NextHolder == ASSUME RotateInv, HolderInv, [Next]_vars PROVE HolderInv'
<1> USE DEF RotateInv
<1>1. share \subseteq Txn /\ Del \subseteq Txn /\ Rot \cap Del = {}
  BY DEF TypeOK, Txn
<1>2. ASSUME NEW t \in Txn, NEW l \in PC, Goto(t, l), UNCHANGED <<share, excl>>,
             t \notin share, t \in Del /\ excl = t => l \in {"scan", "commit"}
      PROVE  HolderInv'
  BY <1>1, <1>2 DEF HolderInv, Goto, TypeOK
<1>3. ASSUME NEW t \in Txn, BeginRotation(t) \/ Cascade(t) \/ EndScan(t) \/ BeginErase(t)
      PROVE  HolderInv'
  <2>1. t \notin share
    BY <1>3 DEF BeginRotation, Cascade, EndScan, BeginErase, HolderInv
  <2>2. UNCHANGED <<share, excl>>
    BY <1>3 DEF BeginRotation, Cascade, StartScan, EndScan, BeginErase, locks
  <2>3. PICK l \in PC : /\ Goto(t, l)
                        /\ t \in Del /\ excl = t => l \in {"scan", "commit"}
    BY <1>1, <1>3 DEF BeginRotation, Cascade, StartScan, EndScan, BeginErase,
       PC, HolderInv
  <2> QED
    BY <1>2, <2>1, <2>2, <2>3
<1>4. ASSUME NEW t \in Txn, Reach(t) \/ LockRow(t) PROVE HolderInv'
  BY <1>4 DEF Reach, LockRow, HolderInv, locks
<1>5. ASSUME NEW t \in Txn, Insert(t) PROVE HolderInv'
  <2>1. CASE End(t)
    BY <2>1, EndHolder
  <2>2. CASE share' = share \cup {t} /\ Goto(t, "update") /\ UNCHANGED excl
    <3>1. t \notin Del
      BY <1>1, <1>5 DEF Insert
    <3> QED
      BY <1>1, <2>2, <3>1 DEF HolderInv, Goto, TypeOK
  <2> QED
    BY <1>5, <2>1, <2>2 DEF Insert
<1>6. ASSUME NEW t \in Txn, UpdateUser(t) PROVE HolderInv'
  <2>1. t \notin Del
    BY <1>6 DEF UpdateUser, TxnInv, UserInv
  <2>2. excl' = t /\ Goto(t, "commit") /\ UNCHANGED share
    BY <1>6 DEF UpdateUser
  <2> QED
    BY <1>1, <2>1, <2>2 DEF HolderInv, Goto, TypeOK
<1>7. ASSUME NEW t \in Txn, LockUser(t) PROVE HolderInv'
  <2>1. CASE End(t)
    BY <2>1, EndHolder
  <2>2. CASE excl' = t /\ Goto(t, "cascade") /\ UNCHANGED share
    <3>1. t \notin share
      BY <1>7 DEF LockUser, HolderInv
    <3> QED
      BY <1>1, <2>2, <3>1 DEF HolderInv, Goto, TypeOK
  <2> QED
    BY <1>7, <2>1, <2>2 DEF LockUser
<1>8. ASSUME NEW t \in Txn,
             CommitRotation(t) \/ CommitErase(t) \/ Detect(t) \/ Hangup(t)
      PROVE  HolderInv'
  BY <1>8, EndHolder DEF CommitRotation, CommitErase, Detect, Hangup, Rollback
<1>9. CASE UNCHANGED vars
  BY <1>9 DEF vars, HolderInv
<1> QED
  BY <1>3, <1>4, <1>5, <1>6, <1>7, <1>8, <1>9 DEF Next, Step

(* Among finitely many transactions that wait for one another there is a   *)
(* smallest such set.                                                      *)
LEMMA SmallestCycle ==
    ASSUME NEW S, IsFiniteSet(S), Waiting(S) PROVE \E T \in SUBSET S : Cycle(T)
<1> DEFINE Sizes == {Cardinality(T) : T \in {T \in SUBSET S : Waiting(T)}}
<1>1. \A T \in SUBSET S : Cardinality(T) \in Nat
  BY FS_Subset, FS_CardinalityType
<1>2. Sizes \subseteq Nat /\ Sizes # {}
  BY <1>1
<1>3. PICK least \in Sizes : \A n \in Sizes : ~(<<n, least>> \in OpToRel(<, Nat))
  <2> HIDE DEF Sizes
  <2> QED
    BY <1>2, NatLessThanWellFounded, WFMin
<1>4. PICK T \in SUBSET S : Waiting(T) /\ Cardinality(T) = least
  OBVIOUS
<1>5. ASSUME NEW R \in SUBSET T, Waiting(R) PROVE R = T
  <2>1. Cardinality(R) \in Sizes /\ Cardinality(R) \in Nat /\ least \in Nat
    BY <1>1, <1>2, <1>4, <1>5
  <2>2. ~(Cardinality(R) < least)
    BY <1>3, <2>1 DEF OpToRel
  <2>3. IsFiniteSet(T) /\ Cardinality(R) <= Cardinality(T)
    BY <1>4, FS_Subset
  <2> QED
    BY <1>4, <2>1, <2>2, <2>3, FS_Subset
<1> QED
  BY <1>4, <1>5 DEF Cycle

(* Those that anybody can wait for: the rotations, and the deletion that   *)
(* has the user's row.                                                     *)
Holders == {t \in Live : t \in Rot \/ excl = t}

LEMMA HoldersFinite == ASSUME RotateInv PROVE IsFiniteSet(Holders)
<1>1. IsFiniteSet(Rot)
  BY FiniteAssumption, FS_Subset DEF Row
<1>2. IsFiniteSet(Rot \cup {excl})
  BY <1>1, FS_AddElement
<1>3. Holders \in SUBSET (Rot \cup {excl})
  BY DEF Holders
<1> QED
  BY <1>2, <1>3, FS_Subset

LEMMA WaitsForHolder ==
    ASSUME RotateInv, LockInv, HolderInv, NEW t \in Txn, NEW u \in Blockers(t)
    PROVE  u \in Holders
<1>1. CASE pc[t] = "scan" /\ want[t] # Nobody
  <2>1. u = lock[want[t]] /\ u # Nobody /\ want[t] \in Row
    BY <1>1 DEF Blockers, RotateInv, TypeOK
  <2>2. u \in Txn /\ want[t] \in Held(u) /\ seen[u] # {}
    BY <2>1 DEF Held, RotateInv, TypeOK, TxnInv, ScanInv
  <2>3. pc[u] \notin {"begin", "lock", "cascade", "over"}
    BY <2>2 DEF RotateInv, TxnInv, ScanInv
  <2>4. u \in Del => excl = u
    BY <2>2, <2>3 DEF RotateInv, TypeOK, PC, TxnInv, UserInv
  <2> QED
    BY <2>2, <2>3, <2>4 DEF Holders, Live, Txn
<1>2. CASE u \in share
  BY <1>2 DEF HolderInv, Holders, Live, RotateInv, TypeOK, Txn
<1>3. CASE u = excl /\ u # Nobody
  <2>1. u \in Txn
    BY <1>3 DEF RotateInv, TypeOK
  <2>2. pc[u] \in {"cascade", "scan", "commit"}
    BY <1>3, <2>1 DEF LockInv, HolderInv, Txn
  <2> QED
    BY <1>3, <2>1, <2>2 DEF Holders, Live
<1>4. u \in Del => u # Nobody
  BY DEF Txn
<1> QED
  BY <1>1, <1>2, <1>3, <1>4 DEF Blockers, ShareBlockers, UpdateBlockers, EraseBlockers, Txn

LEMMA WaitsStep == RotateInv /\ LockInv /\ HolderInv => WaitsAreResolved
<1> SUFFICES ASSUME RotateInv, LockInv, HolderInv, NEW t \in Live,
                    \A q \in Live : Blockers(q) # {}
             PROVE  \E S \in SUBSET Live : Cycle(S)
  BY DEF WaitsAreResolved
<1>1. Holders \subseteq Live /\ Live \subseteq Txn
  BY DEF Holders, Live
<1>2. PICK u \in Blockers(t) : TRUE
  OBVIOUS
<1>3. Holders # {}
  BY <1>1, <1>2, WaitsForHolder
<1>4. \A q \in Holders : Blockers(q) \cap Holders # {}
  BY <1>1, WaitsForHolder
<1>5. \E S \in SUBSET Holders : Cycle(S)
  BY <1>3, <1>4, HoldersFinite, SmallestCycle DEF Waiting
<1> QED
  BY <1>1, <1>5

(* No lock is left behind, and no wait is for ever: for any number of      *)
(* rotations and deletions, as long as some transaction is under way one   *)
(* of them is free to go on, or some of them wait in a circle that         *)
(* Postgres breaks (handlers.go 857-879, 1075).                            *)
THEOREM AllWaitsAreResolved == Spec => []WaitsAreResolved
<1>1. Init => LockInv /\ HolderInv
  BY DEF Init, LockInv, HolderInv, Txn
<1>2. RotateInv /\ LockInv /\ [Next]_vars => LockInv'
  BY NextLock
<1>3. RotateInv /\ HolderInv /\ [Next]_vars => HolderInv'
  BY NextHolder
<1>4. Spec => [](LockInv /\ HolderInv)
  BY <1>1, <1>2, <1>3, RotateInvariance, PTL DEF Spec
<1> QED
  BY <1>4, WaitsStep, RotateInvariance, PTL

-----------------------------------------------------------------------------
(* Progress. The statements of either transaction in their order; a scan   *)
(* goes from row to row.                                                   *)
Place(l) ==
    CASE l = "begin" -> 0 [] l = "lock" -> 1 [] l = "cascade" -> 2
      [] l = "scan" -> 3 [] l = "insert" -> 4 [] l = "update" -> 5
      [] l = "commit" -> 6 [] l = "over" -> 7

Advances(t) ==
    \/ Place(pc'[t]) > Place(pc[t])
    \/ /\ pc[t] = "scan" /\ pc'[t] = "scan"
       /\ \/ scan'[t] \subseteq scan[t] /\ scan'[t] # scan[t]
          \/ scan'[t] = scan[t] /\ want[t] # Nobody /\ want'[t] = Nobody

OneAdvances ==
    \E t \in Txn :
        /\ Advances(t)
        /\ \A q \in Txn \ {t} : /\ pc'[q] = pc[q] /\ seen'[q] = seen[q]
                                /\ scan'[q] = scan[q] /\ want'[q] = want[q]

LEMMA GoesOn ==
    ASSUME RotateInv, NEW t \in Txn, NEW l \in PC, Goto(t, l),
           Place(l) > Place(pc[t]),
           UNCHANGED want, seen' \in {seen, [seen EXCEPT ![t] = rows]},
           scan' \in {scan, [scan EXCEPT ![t] = rows]}
    PROVE  OneAdvances
BY DEF OneAdvances, Advances, Goto, RotateInv, TypeOK

LEMMA EndAdvances ==
    ASSUME RotateInv, NEW t \in Txn, End(t), pc[t] # "over"
    PROVE  OneAdvances
<1>1. pc'[t] = "over" /\ pc[t] \in PC
  BY DEF End, Goto, RotateInv, TypeOK
<1>2. Place(pc'[t]) > Place(pc[t])
  BY <1>1 DEF Place, PC
<1> QED
  BY <1>2 DEF OneAdvances, Advances, End, Goto, RotateInv, TypeOK

LEMMA NextAdvances == ASSUME RotateInv, Next PROVE OneAdvances
<1> USE DEF RotateInv
<1>1. ASSUME NEW t \in Txn, BeginRotation(t) \/ Cascade(t) PROVE OneAdvances
  BY <1>1, GoesOn DEF BeginRotation, Cascade, StartScan, Place, PC
<1>2. ASSUME NEW t \in Txn, EndScan(t) \/ BeginErase(t) PROVE OneAdvances
  BY <1>2, GoesOn DEF EndScan, BeginErase, Place, PC
<1>3. ASSUME NEW t \in Txn, Reach(t) PROVE OneAdvances
  BY <1>3 DEF Reach, OneAdvances, Advances, TypeOK
<1>4. ASSUME NEW t \in Txn, LockRow(t) PROVE OneAdvances
  BY <1>4 DEF LockRow, OneAdvances, Advances, TypeOK
<1>5. ASSUME NEW t \in Txn, Insert(t) \/ LockUser(t) PROVE OneAdvances
  <2>1. CASE End(t)
    BY <1>5, <2>1, EndAdvances DEF Insert, LockUser
  <2>2. CASE ~End(t)
    BY <1>5, <2>2, GoesOn DEF Insert, LockUser, Place, PC
  <2> QED
    BY <2>1, <2>2
<1>6. ASSUME NEW t \in Txn, UpdateUser(t) PROVE OneAdvances
  BY <1>6, GoesOn DEF UpdateUser, Place, PC
<1>7. ASSUME NEW t \in Txn, CommitRotation(t) \/ CommitErase(t) \/ Hangup(t)
      PROVE  OneAdvances
  BY <1>7, EndAdvances DEF CommitRotation, CommitErase, Hangup, Rollback
<1>8. ASSUME NEW t \in Txn, Detect(t) PROVE OneAdvances
  BY <1>8, DetectEnds, EndAdvances
<1> QED
  BY <1>1, <1>2, <1>3, <1>4, <1>5, <1>6, <1>7, <1>8 DEF Next, Step

(* Every step, a rollback too, brings one transaction nearer to its end    *)
(* and sets no other one back: none starts over, none scans a row twice    *)
(* (handlers.go 857-879). With AllWaitsAreResolved, all that TransactionsEnd *)
(* needs besides is fairness.                                              *)
THEOREM TransactionsAdvance == Spec => [][OneAdvances]_vars
<1>1. RotateInv /\ [Next]_vars => [OneAdvances]_vars
  BY NextAdvances
<1> QED
  BY <1>1, RotateInvariance, PTL DEF Spec
=============================================================================
