---------------------------- MODULE DeliveryProofs ----------------------------
(***************************************************************************)
(* Proofs about Delivery, for any number of posts, any receivers and with  *)
(* or without faults. DeliveryInv is inductive: a budget of packets for    *)
(* every goroutine, what can be known of a location only after it was      *)
(* stored, and what a calm post may find under way.                        *)
(***************************************************************************)
EXTENDS Delivery, TLAPS

Count(b) == IF b THEN 1 ELSE 0

(* How many packets the goroutine of n and s has sent at most. *)
Sent(s, n) ==
    CASE task[s][n] \in {"off", "none"}  -> 0
      [] task[s][n] = "post"             -> try[s][n] - 1
      [] task[s][n] \in {"wait", "delivered"} -> try[s][n]
      [] task[s][n] = "lost"             -> Tries[s]

(* The packets of the goroutine of n and s that have arrived or may yet. *)
Total(s, n) ==
    copies[s][n] + Count(<<s, n, 1>> \in wire) + Count(<<s, n, 2>> \in wire)

Budget(s, n) ==
    /\ try[s][n] <= Tries[s]
    /\ task[s][n] \in {"off", "none"} => try[s][n] = 1
    /\ Total(s, n) <= Sent(s, n)
    /\ \A k \in 1..2 : <<s, n, k>> \in wire => k <= Sent(s, n)
    /\ s = "openclaw" /\ task[s][n] = "delivered" => copies[s][n] >= 1

BudgetInv == \A s \in Slot, n \in Post : Budget(s, n)

StoredInv ==
    /\ stored # 0 => post[stored] \in Stored
    /\ \A s \in Slot : latest[s] # 0 => post[latest[s]] \in Stored
    /\ \A p \in wire : post[p[2]] \in Stored
    /\ \A s \in Slot, n \in Post : task[s][n] \in Running => post[n] \in Stored

OrderedInv ==
    \A m, n \in Post : n < m /\ post[m] # "unsent" => post[n] # "unsent"

(* n is over for good, but for packets. *)
Over(n) ==
    /\ post[n] \notin Handling
    /\ \A s \in Slot : task[s][n] \notin Running

CalmInv ==
    \A m \in Post : calm[m] =>
        /\ post[m] # "unsent"
        /\ \A n \in Post : n < m => Over(n)
        /\ post[m] \in {"write"} \cup Stored => \A p \in wire : p[2] >= m
        /\ post[m] \in Stored /\ stored # 0 => stored >= m

DeliveryInv == TypeOK /\ BudgetInv /\ StoredInv /\ OrderedInv /\ CalmInv

-----------------------------------------------------------------------------
(* Post is a set of positive integers, and 0 is not a location. *)
LEMMA PostFacts ==
    /\ Post \subseteq Nat \ {0}
    /\ Post \subseteq 0..MaxPost
    /\ \A x \in 0..MaxPost : x # 0 => x \in Post
BY MaxPostAssumption DEF Post

LEMMA TriesFacts == \A s \in Slot : Tries[s] \in 1..2
BY DEF Slot, Tries

LEMMA InitInv == Init => DeliveryInv
<1> SUFFICES ASSUME Init PROVE DeliveryInv
  OBVIOUS
<1> USE MaxPostAssumption DEF Init
<1>0. PICK w \in Setup : task = [s \in Slot |-> [n \in Post |->
                                    IF s \in w THEN "none" ELSE "off"]]
  OBVIOUS
<1>1. TypeOK
  <2>1. task \in [Slot -> [Post -> {"off", "none"} \cup Running \cup Ended]]
    BY <1>0
  <2> QED
    BY <2>1 DEF TypeOK
<1>2. BudgetInv
  <2> SUFFICES ASSUME NEW s \in Slot, NEW n \in Post PROVE Budget(s, n)
    BY DEF BudgetInv
  <2>1. /\ task[s][n] \in {"off", "none"} /\ try[s][n] = 1
        /\ copies[s][n] = 0 /\ wire = {}
    BY <1>0
  <2>2. Sent(s, n) = 0
    BY <2>1 DEF Sent
  <2> QED
    BY <2>1, <2>2, TriesFacts DEF Budget, Total, Count
<1>3. StoredInv
  BY <1>0 DEF StoredInv, Running
<1>4. OrderedInv /\ CalmInv
  BY DEF OrderedInv, CalmInv
<1> QED
  BY <1>1, <1>2, <1>3, <1>4 DEF DeliveryInv

-----------------------------------------------------------------------------
(* What a step does to one goroutine, and leaves to the others. *)
Others(s, n) ==
    \A s2 \in Slot, n2 \in Post : <<s2, n2>> # <<s, n>> =>
        task'[s2][n2] = task[s2][n2] /\ try'[s2][n2] = try[s2][n2]

TaskTypes ==
    /\ task \in [Slot -> [Post -> {"off", "none"} \cup Running \cup Ended]]
    /\ try \in [Slot -> [Post -> 1..2]]

LEMMA SetTaskEffect ==
    ASSUME TypeOK, NEW s \in Slot, NEW n \in Post,
           NEW t \in Running \cup Ended, SetTask(s, n, t), UNCHANGED try
    PROVE  /\ TaskTypes' /\ Others(s, n)
           /\ task'[s][n] = t /\ try'[s][n] = try[s][n]
BY DEF TypeOK, SetTask, TaskTypes, Others

LEMMA GiveUpEffect ==
    ASSUME TypeOK, NEW s \in Slot, NEW n \in Post, GiveUp(s, n)
    PROVE  /\ TaskTypes' /\ Others(s, n)
           /\ task'[s][n] = "lost" /\ try'[s][n] = 1
BY DEF TypeOK, GiveUp, SetTask, TaskTypes, Others, Ended

LEMMA NextTryEffect ==
    ASSUME TypeOK, NEW s \in Slot, NEW n \in Post, NextTry(s, n)
    PROVE  /\ TaskTypes' /\ Others(s, n)
           /\ \/ /\ try[s][n] < Tries[s]
                 /\ task'[s][n] = "post" /\ try'[s][n] = try[s][n] + 1
              \/ task'[s][n] = "lost" /\ try'[s][n] = 1
<1>1. CASE try[s][n] < Tries[s]
  <2>1. SetTask(s, n, "post") /\ try' = [try EXCEPT ![s][n] = @ + 1]
    BY <1>1 DEF NextTry
  <2>2. try[s][n] \in 1..2 /\ try[s][n] + 1 \in 1..2
    BY <1>1, TriesFacts DEF TypeOK
  <2>3. try' \in [Slot -> [Post -> 1..2]] /\ try'[s][n] = try[s][n] + 1
    BY <2>1, <2>2 DEF TypeOK
  <2>4. /\ task' \in [Slot -> [Post -> {"off", "none"} \cup Running \cup Ended]]
        /\ task'[s][n] = "post"
    BY <2>1 DEF TypeOK, SetTask, Running
  <2>5. Others(s, n)
    BY <2>1 DEF TypeOK, SetTask, Others
  <2> QED
    BY <1>1, <2>3, <2>4, <2>5 DEF TaskTypes
<1>2. CASE ~(try[s][n] < Tries[s])
  BY <1>2, GiveUpEffect DEF NextTry
<1> QED
  BY <1>1, <1>2

(* What a step may do to a goroutine: nothing; end it with an answer, the  *)
(* gateway's only to what has just arrived; end an attempt, with a second  *)
(* one to come or without.                                                 *)
Moves(s, n) ==
    \/ /\ task'[s][n] = task[s][n] /\ try'[s][n] = try[s][n]
       /\ copies'[s][n] >= copies[s][n]
    \/ /\ task[s][n] = "wait" /\ try'[s][n] = try[s][n]
       /\ task'[s][n] = "delivered" /\ copies'[s][n] >= copies[s][n]
       /\ s = "openclaw" => copies'[s][n] = copies[s][n] + 1
    \/ /\ task[s][n] \in Running
       /\ \/ /\ try[s][n] < Tries[s]
             /\ task'[s][n] = "post" /\ try'[s][n] = try[s][n] + 1
          \/ task'[s][n] = "lost" /\ try'[s][n] = 1

LEMMA BudgetMove ==
    ASSUME TypeOK, NEW s \in Slot, NEW n \in Post, Budget(s, n), Moves(s, n),
           copies'[s][n] \in Nat, Total(s, n)' <= Total(s, n),
           \A k \in 1..2 : <<s, n, k>> \in wire' => <<s, n, k>> \in wire
    PROVE  Budget(s, n)'
<1>1. try[s][n] \in 1..2 /\ Tries[s] \in 1..2 /\ copies[s][n] \in 0..2
  BY TriesFacts DEF TypeOK
<1>2. Total(s, n) \in Nat /\ Total(s, n)' \in Nat
  BY <1>1 DEF Total, Count
<1>3. /\ Sent(s, n) \in 0..2 /\ try[s][n] <= Tries[s]
      /\ task[s][n] \in Running => Sent(s, n) <= try[s][n]
  BY <1>1, TriesFacts DEF Sent, Budget, Running, TypeOK, Ended
<1>a. CASE /\ task'[s][n] = task[s][n] /\ try'[s][n] = try[s][n]
           /\ copies'[s][n] >= copies[s][n]
  <2>1. Sent(s, n)' = Sent(s, n)
    BY <1>a DEF Sent
  <2> QED
    BY <1>1, <1>2, <1>3, <1>a, <2>1 DEF Budget
<1>b. CASE /\ task[s][n] = "wait" /\ try'[s][n] = try[s][n]
           /\ task'[s][n] = "delivered" /\ copies'[s][n] >= copies[s][n]
           /\ s = "openclaw" => copies'[s][n] = copies[s][n] + 1
  <2>1. Sent(s, n) = try[s][n] /\ Sent(s, n)' = try[s][n]
    BY <1>b DEF Sent
  <2> QED
    BY <1>1, <1>2, <1>b, <2>1 DEF Budget
<1>c. CASE /\ task[s][n] \in Running
           /\ \/ /\ try[s][n] < Tries[s]
                 /\ task'[s][n] = "post" /\ try'[s][n] = try[s][n] + 1
              \/ task'[s][n] = "lost" /\ try'[s][n] = 1
  <2>1. Sent(s, n)' \in Sent(s, n)..2
    <3>1. CASE task'[s][n] = "post" /\ try'[s][n] = try[s][n] + 1 /\ try[s][n] < Tries[s]
      <4>1. Sent(s, n)' = try'[s][n] - 1
        BY <3>1 DEF Sent
      <4> QED
        BY <1>1, <1>3, <1>c, <3>1, <4>1
    <3>2. CASE task'[s][n] = "lost"
      <4>1. Sent(s, n)' = Tries[s]
        BY <3>2 DEF Sent
      <4> QED
        BY <1>1, <1>3, <1>c, <4>1
    <3> QED
      BY <1>c, <3>1, <3>2
  <2> QED
    BY <1>1, <1>2, <1>3, <1>c, <2>1 DEF Budget
<1> QED
  BY <1>a, <1>b, <1>c DEF Moves

(* A goroutine that a step leaves alone, but for packets that get lost. *)
LEMMA BudgetFrame ==
    ASSUME TypeOK, NEW s \in Slot, NEW n \in Post, Budget(s, n),
           task'[s][n] = task[s][n], try'[s][n] = try[s][n],
           copies'[s][n] = copies[s][n],
           \A k \in 1..2 : <<s, n, k>> \in wire' => <<s, n, k>> \in wire
    PROVE  Budget(s, n)'
<1>1. copies[s][n] \in 0..2
  BY DEF TypeOK
<1>2. Total(s, n)' <= Total(s, n)
  BY <1>1 DEF Total, Count
<1> QED
  BY <1>1, <1>2, BudgetMove DEF Moves

LEMMA BudgetSame ==
    ASSUME DeliveryInv, UNCHANGED <<taskVars, copies>>,
           \A s \in Slot, n \in Post, k \in 1..2 :
               <<s, n, k>> \in wire' => <<s, n, k>> \in wire
    PROVE  BudgetInv'
BY BudgetFrame DEF DeliveryInv, BudgetInv, taskVars

(* One goroutine moves, the wire loses nothing but packets. *)
LEMMA BudgetStep ==
    ASSUME DeliveryInv, NEW s \in Slot, NEW n \in Post, Others(s, n),
           \A s2 \in Slot, n2 \in Post : <<s2, n2>> # <<s, n>> =>
               copies'[s2][n2] = copies[s2][n2],
           \A s2 \in Slot, n2 \in Post, k \in 1..2 : <<s2, n2>> # <<s, n>> =>
               (<<s2, n2, k>> \in wire' => <<s2, n2, k>> \in wire),
           Budget(s, n)'
    PROVE  BudgetInv'
<1> SUFFICES ASSUME NEW s2 \in Slot, NEW n2 \in Post, <<s2, n2>> # <<s, n>>
             PROVE  Budget(s2, n2)'
  BY DEF BudgetInv
<1>1. task'[s2][n2] = task[s2][n2] /\ try'[s2][n2] = try[s2][n2]
  BY DEF Others
<1>2. Budget(s2, n2)
  BY DEF DeliveryInv, BudgetInv
<1> QED
  BY <1>1, <1>2, BudgetFrame DEF DeliveryInv

-----------------------------------------------------------------------------
LEMMA ArriveInv ==
    ASSUME DeliveryInv, NEW n \in Post, Arrive(n) PROVE DeliveryInv'
<1> USE DEF DeliveryInv
<1>0. /\ post[n] = "unsent"
      /\ \A m \in Post : m < n => post[m] # "unsent"
      /\ post' = [post EXCEPT ![n] = "write"]
      /\ calm' = [calm EXCEPT ![n] = Quiet]
      /\ UNCHANGED <<stored, taskVars, wire, latest, copies, send>>
  BY DEF Arrive, SetPost
<1>1. TypeOK'
  <2>1. Quiet \in BOOLEAN
    BY DEF Quiet
  <2>2. post' \in [Post -> {"unsent", "failed", "done"} \cup Handling]
    BY <1>0 DEF TypeOK, Handling
  <2>3. calm' \in [Post -> BOOLEAN]
    BY <1>0, <2>1 DEF TypeOK
  <2> QED
    BY <1>0, <2>2, <2>3 DEF TypeOK, taskVars
<1>2. BudgetInv'
  BY <1>0, BudgetSame
<1>3. \A m \in Post : m # n => post'[m] = post[m] /\ calm'[m] = calm[m]
  BY <1>0 DEF TypeOK
<1>4. post'[n] = "write" /\ calm'[n] = Quiet
  BY <1>0 DEF TypeOK
<1>5. StoredInv'
  <2>1. \A m \in Post : post[m] \in Stored => post'[m] \in Stored
    BY <1>0, <1>3 DEF Stored
  <2>2. \A p \in wire : p[2] \in Post
    BY DEF TypeOK, Packet
  <2>3. stored # 0 => stored \in Post
    BY PostFacts DEF TypeOK
  <2>4. \A s \in Slot : latest[s] # 0 => latest[s] \in Post
    BY PostFacts DEF TypeOK
  <2> QED
    BY <1>0, <2>1, <2>2, <2>3, <2>4 DEF StoredInv, taskVars
<1>6. OrderedInv'
  BY <1>0, <1>3, <1>4, PostFacts DEF OrderedInv
<1>7. CalmInv'
  <2> SUFFICES ASSUME NEW m \in Post, calm'[m]
               PROVE  /\ post'[m] # "unsent"
                      /\ \A k \in Post : k < m => Over(k)'
                      /\ post'[m] \in {"write"} \cup Stored => \A p \in wire' : p[2] >= m
                      /\ post'[m] \in Stored /\ stored' # 0 => stored' >= m
    BY DEF CalmInv
  <2>1. CASE m = n
    <3>1. Quiet
      BY <1>4, <2>1
    <3>2. \A k \in Post : Over(k) /\ \A p \in wire : p[2] # k
      BY <3>1 DEF Quiet, Settled, Over
    <3>3. wire = {}
      BY <3>2 DEF TypeOK, Packet
    <3>4. \A k \in Post : k < n => Over(k)'
      BY <1>0, <1>3, <3>2, PostFacts DEF Over, taskVars
    <3> QED
      BY <1>0, <1>4, <2>1, <3>3, <3>4 DEF Stored
  <2>2. CASE m # n
    <3>1. calm[m] /\ post'[m] = post[m] /\ post[m] # "unsent"
      BY <1>3, <2>2 DEF CalmInv
    <3>2. ~(n < m)
      BY <1>0, <3>1 DEF CalmInv, OrderedInv
    <3>3. \A k \in Post : k < m => Over(k)'
      BY <1>0, <1>3, <3>1, <3>2 DEF CalmInv, Over, taskVars
    <3> QED
      BY <1>0, <3>1, <3>3 DEF CalmInv
  <2> QED
    BY <2>1, <2>2
<1> QED
  BY <1>1, <1>2, <1>5, <1>6, <1>7

LEMMA WriteLocationInv ==
    ASSUME DeliveryInv, NEW n \in Post, WriteLocation(n) PROVE DeliveryInv'
<1> USE DEF DeliveryInv
<1>0. /\ post[n] = "write"
      /\ UNCHANGED <<taskVars, wire, latest, copies, send, calm>>
      /\ \/ stored' = n /\ post' = [post EXCEPT ![n] = "webhook"]
         \/ stored' = n /\ post' = [post EXCEPT ![n] = "done"]
         \/ stored' = stored /\ post' = [post EXCEPT ![n] = "failed"]
  BY DEF WriteLocation, SetPost
<1>1. \A m \in Post : m # n => post'[m] = post[m]
  BY <1>0 DEF TypeOK
<1>2. \/ stored' = n /\ post'[n] \in {"webhook", "done"}
      \/ stored' = stored /\ post'[n] = "failed"
  BY <1>0 DEF TypeOK
<1>3. TypeOK'
  <2>1. post' \in [Post -> {"unsent", "failed", "done"} \cup Handling]
    BY <1>0 DEF TypeOK, Handling
  <2>2. stored' \in 0..MaxPost
    BY <1>0, PostFacts DEF TypeOK
  <2> QED
    BY <1>0, <2>1, <2>2 DEF TypeOK, taskVars
<1>4. BudgetInv'
  BY <1>0, BudgetSame
<1>5. StoredInv'
  <2>1. \A m \in Post : post[m] \in Stored => post'[m] \in Stored
    BY <1>0, <1>1 DEF Stored
  <2>2. \A p \in wire : p[2] \in Post
    BY DEF TypeOK, Packet
  <2>3. stored # 0 => stored \in Post
    BY PostFacts DEF TypeOK
  <2>4. \A s \in Slot : latest[s] # 0 => latest[s] \in Post
    BY PostFacts DEF TypeOK
  <2>5. stored' # 0 => post'[stored'] \in Stored
    BY <1>2, <2>1, <2>3 DEF StoredInv, Stored
  <2> QED
    BY <1>0, <2>1, <2>2, <2>4, <2>5 DEF StoredInv, taskVars
<1>6. OrderedInv'
  BY <1>0, <1>1, <1>2 DEF OrderedInv
<1>7. CalmInv'
  <2> SUFFICES ASSUME NEW m \in Post, calm[m]
               PROVE  /\ post'[m] # "unsent"
                      /\ \A k \in Post : k < m => Over(k)'
                      /\ post'[m] \in {"write"} \cup Stored => \A p \in wire' : p[2] >= m
                      /\ post'[m] \in Stored /\ stored' # 0 => stored' >= m
    BY <1>0 DEF CalmInv
  <2>1. /\ post[m] # "unsent" /\ \A k \in Post : k < m => Over(k)
        /\ post[m] \in {"write"} \cup Stored => \A p \in wire : p[2] >= m
        /\ post[m] \in Stored /\ stored # 0 => stored >= m
    BY DEF CalmInv
  <2>2. ~(n < m) /\ n >= m
    <3>1. ~Over(n)
      BY <1>0 DEF Over, Handling
    <3> QED
      BY <2>1, <3>1, PostFacts
  <2>3. \A k \in Post : k < m => Over(k)'
    BY <1>0, <1>1, <2>1, <2>2 DEF Over, taskVars
  <2>4. CASE m = n
    BY <1>0, <1>2, <2>1, <2>3, <2>4, PostFacts DEF Stored
  <2>5. CASE m # n
    BY <1>0, <1>1, <1>2, <2>1, <2>2, <2>3, <2>5
  <2> QED
    BY <2>4, <2>5
<1> QED
  BY <1>3, <1>4, <1>5, <1>6, <1>7

LEMMA HandOverInv ==
    ASSUME DeliveryInv, NEW s \in Slot, NEW n \in Post, HandOver(s, n)
    PROVE  DeliveryInv'
<1> USE DEF DeliveryInv
<1>0. /\ post[n] = s
      /\ post' = [post EXCEPT ![n] = IF s = "webhook" THEN "openclaw" ELSE "done"]
      /\ UNCHANGED <<stored, try, wire, latest, copies, send, calm>>
      /\ \/ task[s][n] = "none" /\ SetTask(s, n, "post")
         \/ UNCHANGED task
  BY DEF HandOver, SetPost
<1>1. /\ \A m \in Post : m # n => post'[m] = post[m]
      /\ post[n] \in Stored /\ post'[n] \in Stored
  BY <1>0 DEF TypeOK, Stored, Slot
<1>2. /\ TaskTypes' /\ Others(s, n) /\ try'[s][n] = try[s][n]
      /\ \/ task[s][n] = "none" /\ task'[s][n] = "post"
         \/ task'[s][n] = task[s][n]
  <2>1. CASE task[s][n] = "none" /\ SetTask(s, n, "post")
    BY <1>0, <2>1, SetTaskEffect DEF Running
  <2>2. CASE UNCHANGED task
    BY <1>0, <2>2 DEF TypeOK, TaskTypes, Others
  <2> QED
    BY <1>0, <2>1, <2>2
<1>3. TypeOK'
  <2>1. post' \in [Post -> {"unsent", "failed", "done"} \cup Handling]
    BY <1>0 DEF TypeOK, Handling
  <2> QED
    BY <1>0, <1>2, <2>1 DEF TypeOK, TaskTypes
<1>4. BudgetInv'
  <2>1. Budget(s, n)
    BY DEF BudgetInv
  <2>2. Budget(s, n)'
    <3>1. CASE task[s][n] = "none" /\ task'[s][n] = "post"
      <4>1. Sent(s, n) = 0 /\ Sent(s, n)' = try[s][n] - 1
        BY <1>2, <3>1 DEF Sent
      <4>2. try[s][n] = 1
        BY <2>1, <3>1 DEF Budget
      <4> QED
        BY <1>0, <1>2, <2>1, <3>1, <4>1, <4>2 DEF Budget, Total, Count
    <3>2. CASE task'[s][n] = task[s][n]
      BY <1>0, <1>2, <2>1, <3>2, BudgetFrame
    <3> QED
      BY <1>2, <3>1, <3>2
  <2> QED
    BY <1>0, <1>2, <2>2, BudgetStep
<1>5. StoredInv'
  <2>1. \A m \in Post : post[m] \in Stored => post'[m] \in Stored
    BY <1>1
  <2>2. \A p \in wire : p[2] \in Post
    BY DEF TypeOK, Packet
  <2>3. stored # 0 => stored \in Post
    BY PostFacts DEF TypeOK
  <2>4. \A s2 \in Slot : latest[s2] # 0 => latest[s2] \in Post
    BY PostFacts DEF TypeOK
  <2>5. \A s2 \in Slot, m \in Post : task'[s2][m] \in Running => post'[m] \in Stored
    BY <1>1, <1>2, <2>1 DEF StoredInv, Others
  <2> QED
    BY <1>0, <2>1, <2>2, <2>3, <2>4, <2>5 DEF StoredInv
<1>6. OrderedInv'
  BY <1>0, <1>1 DEF OrderedInv, Stored
<1>7. CalmInv'
  <2> SUFFICES ASSUME NEW m \in Post, calm[m]
               PROVE  /\ post'[m] # "unsent"
                      /\ \A k \in Post : k < m => Over(k)'
                      /\ post'[m] \in {"write"} \cup Stored => \A p \in wire' : p[2] >= m
                      /\ post'[m] \in Stored /\ stored' # 0 => stored' >= m
    BY <1>0 DEF CalmInv
  <2>1. /\ post[m] # "unsent" /\ \A k \in Post : k < m => Over(k)
        /\ post[m] \in {"write"} \cup Stored => \A p \in wire : p[2] >= m
        /\ post[m] \in Stored /\ stored # 0 => stored >= m
    BY DEF CalmInv
  <2>2. ~(n < m)
    BY <1>0, <2>1 DEF Over, Handling, Slot
  <2>3. \A k \in Post : k < m => Over(k)'
    BY <1>1, <1>2, <2>1, <2>2 DEF Over, Others
  <2>4. /\ post'[m] # "unsent"
        /\ post'[m] \in {"write"} \cup Stored => post[m] \in {"write"} \cup Stored
        /\ post'[m] \in Stored => post[m] \in Stored
    BY <1>1, <2>1 DEF Stored
  <2> QED
    BY <1>0, <2>1, <2>3, <2>4
<1> QED
  BY <1>3, <1>4, <1>5, <1>6, <1>7

-----------------------------------------------------------------------------
(* Steps after which the posts are where they were, the packets are among  *)
(* those there were, or later than every calm post allows, and no further  *)
(* goroutine runs.                                                         *)
LEMMA QuietCalm ==
    ASSUME DeliveryInv, UNCHANGED <<post, stored, calm>>, wire' \subseteq wire,
           \A s \in Slot, n \in Post :
               task'[s][n] \in Running => task[s][n] \in Running
    PROVE  OrderedInv' /\ CalmInv'
BY DEF DeliveryInv, OrderedInv, CalmInv, Over

LEMMA QuietStored ==
    ASSUME DeliveryInv, UNCHANGED <<post, stored, latest>>, wire' \subseteq wire,
           \A s \in Slot, n \in Post :
               task'[s][n] \in Running => task[s][n] \in Running
    PROVE  StoredInv'
BY DEF DeliveryInv, StoredInv

LEMMA AttemptInv ==
    ASSUME DeliveryInv, NEW s \in Slot, NEW n \in Post, Attempt(s, n)
    PROVE  DeliveryInv'
<1> USE DEF DeliveryInv
<1>0. /\ task[s][n] = "post" /\ UNCHANGED <<phoneVars, latest, copies, send, calm>>
  BY DEF Attempt
<1>1. Budget(s, n) /\ try[s][n] \in 1..2 /\ Tries[s] \in 1..2
  BY TriesFacts DEF BudgetInv, TypeOK
<1>2. post[n] \in Stored
  BY <1>0 DEF StoredInv, Running
<1>a. CASE /\ SetTask(s, n, "wait")
           /\ wire' = wire \cup {<<s, n, try[s][n]>>}
           /\ UNCHANGED try
  <2>1. TaskTypes' /\ Others(s, n) /\ task'[s][n] = "wait" /\ try'[s][n] = try[s][n]
    BY <1>a, SetTaskEffect DEF Running
  <2>2. TypeOK'
    <3>1. <<s, n, try[s][n]>> \in Packet
      BY <1>1 DEF Packet
    <3> QED
      BY <1>0, <1>a, <2>1, <3>1 DEF TypeOK, TaskTypes, phoneVars
  <2>3. BudgetInv'
    <3>1. Sent(s, n) = try[s][n] - 1 /\ Sent(s, n)' = try[s][n]
      BY <1>0, <2>1 DEF Sent
    <3>2. <<s, n, try[s][n]>> \notin wire
      BY <1>1, <3>1 DEF Budget
    <3>3. Budget(s, n)'
      <4>0. copies[s][n] \in 0..2 /\ copies'[s][n] = copies[s][n]
        BY <1>0 DEF TypeOK
      <4>1. CASE try[s][n] = 1
        <5>1. <<s, n, 2>> \in wire' <=> <<s, n, 2>> \in wire
          BY <1>a, <4>1
        <5> QED
          BY <1>0, <1>1, <1>a, <2>1, <3>1, <3>2, <4>1, <5>1 DEF Budget, Total, Count, TypeOK
      <4>2. CASE try[s][n] = 2
        <5>1. /\ <<s, n, 1>> \in wire' <=> <<s, n, 1>> \in wire
              /\ <<s, n, 2>> \in wire' /\ <<s, n, 2>> \notin wire
          BY <1>a, <3>2, <4>2
        <5>2. Total(s, n) <= 1
          BY <1>1, <3>1, <4>2 DEF Budget
        <5>3. Total(s, n)' <= 2
          BY <4>0, <5>1, <5>2 DEF Total, Count
        <5> QED
          BY <1>0, <1>1, <2>1, <3>1, <4>0, <4>2, <5>1, <5>3 DEF Budget
      <4> QED
        BY <1>1, <4>1, <4>2
    <3>4. \A s2 \in Slot, n2 \in Post, k \in 1..2 : <<s2, n2>> # <<s, n>> =>
             (<<s2, n2, k>> \in wire' => <<s2, n2, k>> \in wire)
      BY <1>a
    <3> QED
      BY <1>0, <2>1, <3>3, <3>4, BudgetStep
  <2>4. \A p \in wire' : p \in wire \/ p[2] = n
    BY <1>a
  <2>5. \A s2 \in Slot, n2 \in Post : task'[s2][n2] \in Running => task[s2][n2] \in Running
    BY <1>0, <2>1 DEF Others, Running
  <2>6. StoredInv'
    BY <1>0, <1>2, <2>4, <2>5 DEF StoredInv, phoneVars
  <2>7. OrderedInv' /\ CalmInv'
    <3>1. \A m \in Post : calm[m] => ~(n < m)
      BY <1>0 DEF CalmInv, Over, Running
    <3>2. \A m \in Post : calm[m] => n >= m
      BY <3>1, PostFacts
    <3> QED
      BY <1>0, <2>4, <2>5, <3>2 DEF OrderedInv, CalmInv, Over, phoneVars
  <2> QED
    BY <2>2, <2>3, <2>6, <2>7
<1>b. CASE NextTry(s, n) /\ UNCHANGED wire
  <2>1. /\ TaskTypes' /\ Others(s, n)
        /\ \/ /\ try[s][n] < Tries[s]
              /\ task'[s][n] = "post" /\ try'[s][n] = try[s][n] + 1
           \/ task'[s][n] = "lost" /\ try'[s][n] = 1
    BY <1>b, NextTryEffect
  <2>2. TypeOK'
    BY <1>0, <1>b, <2>1 DEF TypeOK, TaskTypes, phoneVars
  <2>3. Budget(s, n)'
    <3>0. copies[s][n] \in 0..2 /\ copies'[s][n] = copies[s][n]
      BY <1>0 DEF DeliveryInv, TypeOK
    <3>1. Total(s, n)' <= Total(s, n) /\ copies'[s][n] \in Nat
      BY <1>b, <3>0 DEF Total, Count
    <3>2. Moves(s, n)
      BY <1>0, <2>1, <3>0 DEF Moves, Running
    <3>3. \A k \in 1..2 : <<s, n, k>> \in wire' => <<s, n, k>> \in wire
      BY <1>b
    <3> QED
      BY <1>1, <3>1, <3>2, <3>3, BudgetMove
  <2>4. BudgetInv'
    BY <1>0, <1>b, <2>1, <2>3, BudgetStep
  <2>5. \A s2 \in Slot, n2 \in Post : task'[s2][n2] \in Running => task[s2][n2] \in Running
    BY <1>0, <2>1 DEF Others, Running
  <2> QED
    BY <1>0, <1>b, <2>2, <2>4, <2>5, QuietCalm, QuietStored DEF phoneVars
<1> QED
  BY <1>a, <1>b DEF Attempt

LEMMA TimeOutInv ==
    ASSUME DeliveryInv, NEW s \in Slot, NEW n \in Post, TimeOut(s, n)
    PROVE  DeliveryInv'
<1> USE DEF DeliveryInv
<1>0. /\ task[s][n] = "wait" /\ NextTry(s, n)
      /\ UNCHANGED <<phoneVars, wire, latest, copies, send, calm>>
  BY DEF TimeOut
<1>1. /\ TaskTypes' /\ Others(s, n)
      /\ \/ /\ try[s][n] < Tries[s]
            /\ task'[s][n] = "post" /\ try'[s][n] = try[s][n] + 1
         \/ task'[s][n] = "lost" /\ try'[s][n] = 1
  BY <1>0, NextTryEffect
<1>2. TypeOK'
  BY <1>0, <1>1 DEF TypeOK, TaskTypes, phoneVars
<1>3. Budget(s, n)'
  <2>1. Total(s, n)' <= Total(s, n) /\ copies'[s][n] \in Nat
    BY <1>0 DEF Total, Count, TypeOK
  <2>2. Moves(s, n)
    BY <1>0, <1>1 DEF Moves, Running
  <2> QED
    BY <1>0, <2>1, <2>2, BudgetMove DEF BudgetInv
<1>4. BudgetInv'
  BY <1>0, <1>1, <1>3, BudgetStep
<1>5. \A s2 \in Slot, n2 \in Post : task'[s2][n2] \in Running => task[s2][n2] \in Running
  BY <1>0, <1>1 DEF Others, Running
<1> QED
  BY <1>0, <1>2, <1>4, <1>5, QuietCalm, QuietStored DEF phoneVars

LEMMA LoseInv ==
    ASSUME DeliveryInv, NEW p \in Packet, Lose(p) PROVE DeliveryInv'
<1> USE DEF DeliveryInv
<1>0. /\ wire' = wire \ {p}
      /\ UNCHANGED <<phoneVars, taskVars, latest, copies, send, calm>>
  BY DEF Lose
<1>1. TypeOK'
  BY <1>0 DEF TypeOK, phoneVars, taskVars
<1>2. BudgetInv'
  BY <1>0, BudgetSame
<1> QED
  BY <1>0, <1>1, <1>2, QuietCalm, QuietStored DEF phoneVars, taskVars

LEMMA ReceiveEffect ==
    ASSUME DeliveryInv, NEW s \in Slot, NEW n \in Post, NEW k \in 0..2,
           Receive(<<s, n, k>>)
    PROVE  /\ <<s, n, k>> \in wire /\ wire' = wire \ {<<s, n, k>>}
           /\ UNCHANGED <<phoneVars, calm>>
           /\ TaskTypes' /\ Others(s, n) /\ Moves(s, n)
           /\ k = 0 => UNCHANGED taskVars
           /\ latest' \in {latest, [latest EXCEPT ![s] = n]}
           /\ \/ UNCHANGED copies
              \/ k > 0 /\ copies' = [copies EXCEPT ![s][n] = @ + 1]
           /\ send' \in {"idle", send}
<1> USE DEF DeliveryInv
<1> DEFINE waiting == IF k = 0 THEN send = "wait"
                               ELSE task[s][n] = "wait" /\ try[s][n] = k
<1>1. PICK a \in Answer, heard \in BOOLEAN :
          /\ heard => waiting
          /\ latest' = IF a.taken THEN [latest EXCEPT ![s] = n] ELSE latest
          /\ copies' = IF a.taken /\ k > 0
                       THEN [copies EXCEPT ![s][n] = @ + 1] ELSE copies
          /\ IF heard /\ k > 0 THEN Hear(s, n, a.status)
                               ELSE UNCHANGED <<task, try>>
          /\ send' = IF heard /\ k = 0 THEN "idle" ELSE send
  BY DEF Receive
<1>2. /\ <<s, n, k>> \in wire /\ wire' = wire \ {<<s, n, k>>}
      /\ UNCHANGED <<phoneVars, calm>>
  BY DEF Receive
<1>3. /\ a.status \in Status /\ a.taken \in BOOLEAN
      /\ a.status = "ok" => a.taken
  BY DEF Answer
<1>4. TaskTypes' /\ Others(s, n) /\ Moves(s, n) /\ (k = 0 => UNCHANGED taskVars)
  <2>1. copies[s][n] \in 0..2 /\ copies'[s][n] \in {copies[s][n], copies[s][n] + 1}
    BY <1>1 DEF TypeOK
  <2>2. CASE ~(heard /\ k > 0)
    BY <1>1, <2>1, <2>2 DEF TypeOK, TaskTypes, Others, Moves, taskVars
  <2>3. CASE heard /\ k > 0 /\ (s = "webhook" \/ a.status = "ok")
    <3>1. task[s][n] = "wait" /\ SetTask(s, n, "delivered") /\ UNCHANGED try
      BY <1>1, <1>3, <2>3 DEF Hear, Delivered
    <3>2. s = "openclaw" => copies'[s][n] = copies[s][n] + 1
      BY <1>1, <1>3, <2>3 DEF TypeOK
    <3> QED
      BY <2>1, <2>3, <3>1, <3>2, SetTaskEffect DEF Ended, Moves
  <2>4. CASE heard /\ k > 0 /\ s = "openclaw" /\ a.status = "rejected"
    <3>1. task[s][n] = "wait" /\ GiveUp(s, n)
      BY <1>1, <2>4 DEF Hear
    <3> QED
      BY <2>4, <3>1, GiveUpEffect DEF Moves, Running
  <2>5. CASE heard /\ k > 0 /\ s = "openclaw" /\ a.status = "error"
    <3>1. task[s][n] = "wait" /\ NextTry(s, n)
      BY <1>1, <2>5 DEF Hear
    <3> QED
      BY <2>5, <3>1, NextTryEffect DEF Moves, Running
  <2> QED
    BY <1>3, <2>2, <2>3, <2>4, <2>5 DEF Status, Slot
<1>5. latest' \in {latest, [latest EXCEPT ![s] = n]}
  BY <1>1
<1>6. \/ UNCHANGED copies
      \/ k > 0 /\ copies' = [copies EXCEPT ![s][n] = @ + 1]
  BY <1>1
<1> QED
  BY <1>1, <1>2, <1>4, <1>5, <1>6

LEMMA ReceiveInv ==
    ASSUME DeliveryInv, NEW s \in Slot, NEW n \in Post, NEW k \in 0..2,
           Receive(<<s, n, k>>)
    PROVE  DeliveryInv'
<1> USE DEF DeliveryInv
<1>0. /\ <<s, n, k>> \in wire /\ wire' = wire \ {<<s, n, k>>}
      /\ UNCHANGED <<phoneVars, calm>>
      /\ TaskTypes' /\ Others(s, n) /\ Moves(s, n)
      /\ k = 0 => UNCHANGED taskVars
      /\ latest' \in {latest, [latest EXCEPT ![s] = n]}
      /\ \/ UNCHANGED copies
         \/ k > 0 /\ copies' = [copies EXCEPT ![s][n] = @ + 1]
      /\ send' \in {"idle", send}
  BY ReceiveEffect
<1>1. /\ \A s2 \in Slot, n2 \in Post :
             <<s2, n2>> # <<s, n>> => copies'[s2][n2] = copies[s2][n2]
      /\ copies'[s][n] \in 0..3 /\ copies'[s][n] <= copies[s][n] + 1
      /\ k = 0 => copies'[s][n] = copies[s][n]
      /\ copies' \in [Slot -> [Post -> 0..3]]
  <2>1. CASE UNCHANGED copies
    BY <2>1 DEF TypeOK
  <2>2. CASE k > 0 /\ copies' = [copies EXCEPT ![s][n] = @ + 1]
    <3>1. copies[s][n] \in 0..2 /\ copies[s][n] + 1 \in 0..3
      BY DEF TypeOK
    <3>2. copies'[s][n] = copies[s][n] + 1
      BY <2>2 DEF TypeOK
    <3>3. copies' \in [Slot -> [Post -> 0..3]]
      BY <2>2, <3>1 DEF TypeOK
    <3> QED
      BY <2>2, <3>1, <3>2, <3>3 DEF TypeOK
  <2> QED
    BY <1>0, <2>1, <2>2
<1>2. Budget(s, n)'
  <2>1. Budget(s, n) /\ copies[s][n] \in 0..2
    BY DEF BudgetInv, TypeOK
  <2>2. Total(s, n)' <= Total(s, n)
    <3>1. CASE k = 0
      BY <1>0, <1>1, <2>1, <3>1 DEF Total, Count
    <3>2. CASE k = 1
      <4>1. /\ <<s, n, 1>> \in wire /\ <<s, n, 1>> \notin wire'
            /\ <<s, n, 2>> \in wire' <=> <<s, n, 2>> \in wire
        BY <1>0, <3>2
      <4> QED
        BY <1>1, <2>1, <4>1 DEF Total, Count
    <3>3. CASE k = 2
      <4>1. /\ <<s, n, 2>> \in wire /\ <<s, n, 2>> \notin wire'
            /\ <<s, n, 1>> \in wire' <=> <<s, n, 1>> \in wire
        BY <1>0, <3>3
      <4> QED
        BY <1>1, <2>1, <4>1 DEF Total, Count
    <3> QED
      BY <3>1, <3>2, <3>3
  <2>3. \A i \in 1..2 : <<s, n, i>> \in wire' => <<s, n, i>> \in wire
    BY <1>0
  <2>4. copies'[s][n] \in Nat
    BY <1>1
  <2> QED
    BY <1>0, <2>1, <2>2, <2>3, <2>4, BudgetMove
<1>3. BudgetInv'
  BY <1>0, <1>1, <1>2, BudgetStep
<1>4. TypeOK'
  <2>1. copies'[s][n] \in 0..2
    <3>1. Total(s, n)' <= Sent(s, n)' /\ try'[s][n] \in 1..2
      BY <1>0, <1>2 DEF Budget, TaskTypes
    <3>2. Sent(s, n)' \in 0..2
      BY <1>0, <3>1, TriesFacts DEF Sent, TaskTypes, Running, Ended
    <3>3. copies'[s][n] <= Total(s, n)'
      BY <1>1 DEF Total, Count
    <3>4. Total(s, n)' \in Int
      BY <1>1 DEF Total, Count
    <3> QED
      BY <1>1, <3>1, <3>2, <3>3, <3>4
  <2>2. copies' \in [Slot -> [Post -> 0..2]]
    <3>1. \A s2 \in Slot, n2 \in Post : copies'[s2][n2] \in 0..2
      <4> SUFFICES ASSUME NEW s2 \in Slot, NEW n2 \in Post
                   PROVE  copies'[s2][n2] \in 0..2
        OBVIOUS
      <4>1. CASE <<s2, n2>> = <<s, n>>
        BY <2>1, <4>1
      <4>2. CASE <<s2, n2>> # <<s, n>>
        BY <1>1, <4>2 DEF TypeOK
      <4> QED
        BY <4>1, <4>2
    <3> QED
      BY <1>1, <3>1
  <2>3. latest' \in [Slot -> 0..MaxPost]
    BY <1>0, PostFacts DEF TypeOK
  <2> QED
    BY <1>0, <2>2, <2>3 DEF TypeOK, TaskTypes, phoneVars
<1>5. \A s2 \in Slot, n2 \in Post : task'[s2][n2] \in Running => task[s2][n2] \in Running
  BY <1>0 DEF Others, Moves, Running
<1>6. StoredInv'
  <2>1. post[n] \in Stored
    BY <1>0 DEF StoredInv
  <2>2. \A s2 \in Slot : latest'[s2] \in {latest[s2], n}
    BY <1>0 DEF TypeOK
  <2> QED
    BY <1>0, <1>5, <2>1, <2>2 DEF StoredInv, phoneVars
<1> QED
  BY <1>0, <1>3, <1>4, <1>5, <1>6, QuietCalm DEF phoneVars

-----------------------------------------------------------------------------
LEMMA StartSendInv == ASSUME DeliveryInv, StartSend PROVE DeliveryInv'
<1> USE DEF DeliveryInv
<1>0. send' = "read" /\ UNCHANGED <<phoneVars, taskVars, wire, latest, copies, calm>>
  BY DEF StartSend
<1>1. TypeOK'
  BY <1>0 DEF TypeOK, phoneVars, taskVars
<1> QED
  BY <1>0, <1>1, BudgetSame, QuietCalm, QuietStored DEF phoneVars, taskVars

LEMMA ReadAndSendInv == ASSUME DeliveryInv, ReadAndSend PROVE DeliveryInv'
<1> USE DEF DeliveryInv
<1>0. /\ calm' = [n \in Post |-> calm[n] /\ post[n] \notin Handling]
      /\ UNCHANGED <<phoneVars, taskVars, latest, copies>>
      /\ send' \in {"wait", "idle"}
      /\ \/ stored # 0 /\ wire' = wire \cup {<<"openclaw", stored, 0>>}
         \/ wire' = wire
  BY DEF ReadAndSend
<1>1. stored # 0 => stored \in Post
  BY PostFacts DEF TypeOK
<1>2. TypeOK'
  <2>1. stored # 0 => <<"openclaw", stored, 0>> \in Packet
    BY <1>1 DEF Packet, Slot
  <2> QED
    BY <1>0, <2>1 DEF TypeOK, phoneVars, taskVars
<1>3. BudgetInv'
  <2>1. \A s \in Slot, n \in Post, k \in 1..2 :
            <<s, n, k>> \in wire' => <<s, n, k>> \in wire
    BY <1>0
  <2> QED
    BY <1>0, <2>1, BudgetSame
<1>4. \A p \in wire' : p \in wire \/ (p[2] = stored /\ stored # 0)
  BY <1>0
<1>5. StoredInv'
  BY <1>0, <1>4 DEF StoredInv, phoneVars, taskVars
<1>6. OrderedInv'
  BY <1>0 DEF OrderedInv, phoneVars
<1>7. CalmInv'
  <2> SUFFICES ASSUME NEW m \in Post, calm'[m]
               PROVE  /\ post'[m] # "unsent"
                      /\ \A k \in Post : k < m => Over(k)'
                      /\ post'[m] \in {"write"} \cup Stored => \A p \in wire' : p[2] >= m
                      /\ post'[m] \in Stored /\ stored' # 0 => stored' >= m
    BY DEF CalmInv
  <2>1. calm[m] /\ post[m] \notin Handling
    BY <1>0
  <2>2. \A k \in Post : k < m => Over(k)'
    BY <1>0, <2>1 DEF CalmInv, Over, phoneVars, taskVars
  <2>3. post[m] \in {"write"} \cup Stored => post[m] \in Stored
    BY <2>1 DEF Handling
  <2> QED
    BY <1>0, <1>4, <2>1, <2>2, <2>3 DEF CalmInv, phoneVars
<1> QED
  BY <1>2, <1>3, <1>5, <1>6, <1>7

LEMMA AbandonSendInv == ASSUME DeliveryInv, AbandonSend PROVE DeliveryInv'
<1> USE DEF DeliveryInv
<1>0. send' = "idle" /\ UNCHANGED <<phoneVars, taskVars, wire, latest, copies, calm>>
  BY DEF AbandonSend
<1>1. TypeOK'
  BY <1>0 DEF TypeOK, phoneVars, taskVars
<1> QED
  BY <1>0, <1>1, BudgetSame, QuietCalm, QuietStored DEF phoneVars, taskVars

LEMMA ExpireInv == ASSUME DeliveryInv, Expire PROVE DeliveryInv'
<1> USE DEF DeliveryInv
<1>0. stored' = 0 /\ UNCHANGED <<post, taskVars, wire, latest, copies, send, calm>>
  BY DEF Expire
<1>1. TypeOK'
  BY <1>0, MaxPostAssumption DEF TypeOK, taskVars
<1>2. BudgetInv'
  BY <1>0, BudgetSame
<1>3. StoredInv'
  BY <1>0 DEF StoredInv, taskVars
<1>4. OrderedInv' /\ CalmInv'
  BY <1>0 DEF OrderedInv, CalmInv, Over, taskVars
<1> QED
  BY <1>1, <1>2, <1>3, <1>4

LEMMA DieInv == ASSUME DeliveryInv, NEW S \in SUBSET Post, Die(S) PROVE DeliveryInv'
<1> USE DEF DeliveryInv
<1> DEFINE Hit(s, n) == n \in S /\ task[s][n] \in Running
<1>0. /\ post' = [n \in Post |->
                    CASE n \notin S \/ post[n] \notin Handling -> post[n]
                      [] post[n] = "write"                      -> "failed"
                      [] OTHER                                  -> "done"]
      /\ task' = [s \in Slot |-> [n \in Post |->
                    IF Hit(s, n) THEN "lost" ELSE task[s][n]]]
      /\ try' = [s \in Slot |-> [n \in Post |->
                   IF Hit(s, n) THEN 1 ELSE try[s][n]]]
      /\ UNCHANGED <<stored, wire, latest, copies, send, calm>>
  BY DEF Die
<1>1. \A n \in Post :
          \/ post'[n] = post[n]
          \/ post[n] = "write" /\ post'[n] = "failed"
          \/ post[n] \in {"webhook", "openclaw"} /\ post'[n] = "done"
  BY <1>0 DEF Handling, TypeOK
<1>2. \A s \in Slot, n \in Post :
          \/ task'[s][n] = task[s][n] /\ try'[s][n] = try[s][n]
          \/ task[s][n] \in Running /\ task'[s][n] = "lost" /\ try'[s][n] = 1
  BY <1>0
<1>3. TypeOK'
  <2>1. /\ post' \in [Post -> {"unsent", "failed", "done"} \cup Handling]
    <3>1. \A n \in Post : post'[n] \in {"unsent", "failed", "done"} \cup Handling
      BY <1>1 DEF TypeOK
    <3> QED
      BY <1>0, <3>1
  <2>2. task' \in [Slot -> [Post -> {"off", "none"} \cup Running \cup Ended]]
    BY <1>0 DEF TypeOK, Ended
  <2>3. try' \in [Slot -> [Post -> 1..2]]
    BY <1>0 DEF TypeOK
  <2> QED
    BY <1>0, <2>1, <2>2, <2>3 DEF TypeOK
<1>4. BudgetInv'
  <2> SUFFICES ASSUME NEW s \in Slot, NEW n \in Post PROVE Budget(s, n)'
    BY DEF BudgetInv
  <2>1. Budget(s, n) /\ copies[s][n] \in 0..2
    BY DEF BudgetInv, TypeOK
  <2>2. Total(s, n)' <= Total(s, n)
    BY <1>0, <2>1 DEF Total, Count
  <2>3. Moves(s, n)
    BY <1>0, <1>2, <2>1 DEF Moves
  <2>4. copies'[s][n] \in Nat /\ wire' = wire
    BY <1>0, <2>1
  <2> QED
    BY <2>1, <2>2, <2>3, <2>4, BudgetMove
<1>5. \A s \in Slot, n \in Post : task'[s][n] \in Running => task[s][n] \in Running
  BY <1>2 DEF Running
<1>6. \A n \in Post : /\ post[n] \in Stored => post'[n] \in Stored
                      /\ post'[n] \in {"write"} \cup Stored => post[n] \in {"write"} \cup Stored
                      /\ post'[n] \in Stored => post[n] \in Stored
                      /\ post'[n] \in Handling => post[n] \in Handling
                      /\ post'[n] = "unsent" <=> post[n] = "unsent"
  BY <1>1 DEF Stored, Handling
<1>7. StoredInv'
  <2>1. \A p \in wire : p[2] \in Post
    BY DEF TypeOK, Packet
  <2>2. stored # 0 => stored \in Post
    BY PostFacts DEF TypeOK
  <2>3. \A s \in Slot : latest[s] # 0 => latest[s] \in Post
    BY PostFacts DEF TypeOK
  <2> QED
    BY <1>0, <1>5, <1>6, <2>1, <2>2, <2>3 DEF StoredInv
<1>8. OrderedInv'
  BY <1>6 DEF OrderedInv
<1>9. CalmInv'
  BY <1>0, <1>5, <1>6 DEF CalmInv, Over
<1> QED
  BY <1>3, <1>4, <1>7, <1>8, <1>9

-----------------------------------------------------------------------------
LEMMA SameInv == ASSUME DeliveryInv, UNCHANGED vars PROVE DeliveryInv'
<1> USE DEF DeliveryInv, vars
<1>1. TypeOK'
  BY DEF TypeOK, phoneVars, taskVars
<1> QED
  BY <1>1, BudgetSame, QuietCalm, QuietStored DEF phoneVars, taskVars

LEMMA PacketParts ==
    ASSUME NEW p \in Packet
    PROVE  \E s \in Slot, n \in Post, k \in 0..2 : p = <<s, n, k>>
BY DEF Packet

LEMMA NextInv == DeliveryInv /\ [Next]_vars => DeliveryInv'
<1> SUFFICES ASSUME DeliveryInv, [Next]_vars PROVE DeliveryInv'
  OBVIOUS
<1>1. CASE \E n \in Post : Arrive(n) \/ WriteLocation(n)
  BY <1>1, ArriveInv, WriteLocationInv
<1>2. CASE \E s \in Slot, n \in Post : HandOver(s, n) \/ Deliver(s, n)
  BY <1>2, HandOverInv, AttemptInv, TimeOutInv DEF Deliver
<1>3. CASE \E p \in Packet : Receive(p) \/ Lose(p)
  BY <1>3, ReceiveInv, LoseInv, PacketParts
<1>4. CASE StartSend \/ ReadAndSend \/ AbandonSend
  BY <1>4, StartSendInv, ReadAndSendInv, AbandonSendInv
<1>5. CASE Expire
  BY <1>5, ExpireInv
<1>6. CASE \E S \in SUBSET Post : Die(S)
  BY <1>6, DieInv
<1>7. CASE UNCHANGED vars
  BY <1>7, SameInv
<1> QED
  BY <1>1, <1>2, <1>3, <1>4, <1>5, <1>6, <1>7 DEF Next

(* DeliveryInv holds in every reachable state, whatever is lost and        *)
(* whichever processes die (handlers.go 569-675, 1226-1300, 1533-1598).    *)
THEOREM DeliveryInvariance == Spec => []DeliveryInv
<1>1. Init => DeliveryInv
  BY InitInv
<1>2. DeliveryInv /\ [Next]_vars => DeliveryInv'
  BY NextInv
<1> QED
  BY <1>1, <1>2, PTL DEF Spec

(* Every variable keeps its type; at most two copies of a location reach a *)
(* receiver (handlers.go 569-675, 1226-1300).                              *)
THEOREM TypeCorrect == Spec => []TypeOK
<1>1. DeliveryInv => TypeOK
  BY DEF DeliveryInv
<1> QED
  BY <1>1, DeliveryInvariance, PTL

(* What deliverToOpenClaw takes for delivered has arrived at the gateway,  *)
(* and once only if its first POST was acknowledged: the budget of the     *)
(* packets it has sent leaves no room for a second copy (handlers.go       *)
(* 1262-1297).                                                             *)
THEOREM AcknowledgedHasArrived == Spec => []AcknowledgedArrived
<1> DEFINE s == "openclaw"
<1>1. DeliveryInv => AcknowledgedArrived
  <2> SUFFICES ASSUME DeliveryInv, NEW n \in Post, task[s][n] = "delivered"
               PROVE  copies[s][n] >= 1 /\ (try[s][n] = 1 => copies[s][n] = 1)
    BY DEF AcknowledgedArrived
  <2>1. Budget(s, n) /\ copies[s][n] \in 0..2 /\ try[s][n] \in 1..2
    BY DEF DeliveryInv, BudgetInv, TypeOK, Slot
  <2>2. Sent(s, n) = try[s][n]
    BY DEF Sent
  <2>3. Total(s, n) >= copies[s][n]
    BY <2>1 DEF Total, Count
  <2>4. Total(s, n) \in Nat
    BY <2>1 DEF Total, Count
  <2> QED
    BY <2>1, <2>2, <2>3, <2>4 DEF Budget
<1> QED
  BY <1>1, DeliveryInvariance, PTL

-----------------------------------------------------------------------------
(* Only a write, the expiry and an arrival move what is stored and what    *)
(* was told last.                                                          *)
LEMMA WhatMoves ==
    ASSUME [Next]_vars
    PROVE  \/ \E n \in Post : WriteLocation(n)
           \/ \E s \in Slot, n \in Post, k \in 0..2 : Receive(<<s, n, k>>)
           \/ Expire
           \/ UNCHANGED <<stored, latest>>
<1>1. CASE \E n \in Post : Arrive(n)
  BY <1>1 DEF Arrive
<1>2. CASE \E s \in Slot, n \in Post : HandOver(s, n) \/ Deliver(s, n)
  BY <1>2 DEF HandOver, Deliver, Attempt, TimeOut, phoneVars
<1>3. CASE \E p \in Packet : Receive(p)
  BY <1>3, PacketParts
<1>4. CASE \E p \in Packet : Lose(p)
  BY <1>4 DEF Lose, phoneVars
<1>5. CASE StartSend \/ ReadAndSend \/ AbandonSend
  BY <1>5 DEF StartSend, ReadAndSend, AbandonSend, phoneVars
<1>6. CASE \E S \in SUBSET Post : Die(S)
  BY <1>6 DEF Die
<1>7. CASE UNCHANGED vars
  BY <1>7 DEF vars
<1> QED
  BY <1>1, <1>2, <1>3, <1>4, <1>5, <1>6, <1>7 DEF Next

OlderOverlaps ==
    /\ stored' # 0 /\ stored' < stored => ~calm[stored]
    /\ \A s \in Slot : latest'[s] < latest[s] => ~calm[latest[s]]

LEMMA OlderStep ==
    ASSUME DeliveryInv, [Next]_vars PROVE OlderOverlaps
<1> USE DEF DeliveryInv
<1>0. stored \in 0..MaxPost /\ \A s \in Slot : latest[s] \in 0..MaxPost
  BY DEF TypeOK
<1>1. ASSUME NEW n \in Post, WriteLocation(n) PROVE OlderOverlaps
  <2>1. latest' = latest /\ stored' \in {n, stored} /\ post[n] = "write"
    BY <1>1 DEF WriteLocation
  <2>2. ASSUME stored' # 0, stored' < stored, calm[stored] PROVE FALSE
    <3>1. stored' = n /\ n < stored /\ stored \in Post
      BY <1>0, <2>1, <2>2, PostFacts
    <3>2. Over(n)
      BY <2>2, <3>1 DEF CalmInv
    <3> QED
      BY <2>1, <3>2 DEF Over, Handling
  <2>3. \A s \in Slot : ~(latest'[s] < latest[s])
    BY <1>0, <2>1, MaxPostAssumption
  <2> QED
    BY <2>2, <2>3 DEF OlderOverlaps
<1>2. ASSUME NEW s \in Slot, NEW n \in Post, NEW k \in 0..2, Receive(<<s, n, k>>)
      PROVE  OlderOverlaps
  <2>1. /\ stored' = stored /\ <<s, n, k>> \in wire
        /\ latest' \in {latest, [latest EXCEPT ![s] = n]}
    BY <1>2, ReceiveEffect DEF phoneVars
  <2>2. ASSUME NEW r \in Slot, latest'[r] < latest[r], calm[latest[r]]
        PROVE  FALSE
    <3>1. latest'[r] \in {latest[r], n}
      BY <2>1 DEF TypeOK
    <3>2. n < latest[r] /\ latest[r] \in Post
      BY <1>0, <2>2, <3>1, PostFacts, MaxPostAssumption
    <3>3. post[latest[r]] \in Stored
      BY <3>2, PostFacts DEF StoredInv
    <3>4. \A p \in wire : p[2] >= latest[r]
      BY <2>2, <3>2, <3>3 DEF CalmInv
    <3>5. n >= latest[r]
      BY <2>1, <3>4
    <3> QED
      BY <1>0, <3>2, <3>5, PostFacts
  <2> QED
    BY <1>0, <2>1, <2>2, MaxPostAssumption DEF OlderOverlaps
<1>3. CASE Expire
  <2>1. stored' = 0 /\ latest' = latest
    BY <1>3 DEF Expire
  <2> QED
    BY <1>0, <2>1, MaxPostAssumption DEF OlderOverlaps
<1>4. CASE UNCHANGED <<stored, latest>>
  BY <1>0, <1>4, MaxPostAssumption DEF OlderOverlaps
<1> QED
  BY <1>1, <1>2, <1>3, <1>4, WhatMoves

(* A location posted when everything before it was settled is never        *)
(* overtaken by an older one, neither in the store nor at a receiver: a    *)
(* late packet, a retry or SendOpenClawLocation would have kept the phone's *)
(* post from being calm (handlers.go 583-609, 1263, 1558-1588).            *)
THEOREM OvertakenOnlyIfOverlapping == Spec => OlderOnlyIfOverlapping
<1>1. DeliveryInv /\ [Next]_vars => [OlderOverlaps]_vars
  BY OlderStep
<1>2. Spec => [][OlderOverlaps]_vars
  BY <1>1, DeliveryInvariance, PTL DEF Spec
<1> QED
  BY <1>2 DEF OlderOnlyIfOverlapping, OlderOverlaps

-----------------------------------------------------------------------------
(* The refinement. A delivery is open or closed once its goroutine has     *)
(* begun, and closed for good when it no longer runs and has no packet.    *)
Begun(s, n) == task[s][n] \notin {"off", "none"}

LEMMA OpenBegun ==
    ASSUME DeliveryInv, NEW s \in Slot, NEW n \in Post, InOpen(s, n)
    PROVE  Begun(s, n)
<1>1. Budget(s, n)
  BY DEF DeliveryInv, BudgetInv
<1> QED
  BY <1>1 DEF InOpen, Begun, Budget, Sent, Running

LEMMA OpenClosed ==
    \A s \in Slot, n \in Post :
        /\ <<s, n>> \in RelayOpen <=> InOpen(s, n)
        /\ <<s, n>> \in RelayClosed <=> Begun(s, n) /\ ~InOpen(s, n)
BY DEF RelayOpen, RelayClosed, Begun

LEMMA RelaySets ==
    /\ RelayOpen \subseteq Slot \X Post /\ RelayClosed \subseteq Slot \X Post
BY DEF RelayOpen, RelayClosed

(* Deliveries begin no more and open no more. *)
OnlyCloses ==
    \A s \in Slot, n \in Post :
        /\ Begun(s, n)' <=> Begun(s, n)
        /\ InOpen(s, n)' => InOpen(s, n)

LEMMA CloseStep ==
    ASSUME DeliveryInv, OnlyCloses, stored' \in {stored, 0},
           Written' = Written, UNCHANGED copies
    PROVE  Promise!RelayNext
<1> DEFINE S == RelayOpen \ RelayOpen'
<1>1. RelayOpen' = RelayOpen \ S
  BY OpenClosed, RelaySets DEF OnlyCloses, RelayOpen
<1>2. RelayClosed' = RelayClosed \cup S
  <2>1. \A s \in Slot, n \in Post :
            <<s, n>> \in RelayClosed' <=> <<s, n>> \in RelayClosed \cup S
    <3> SUFFICES ASSUME NEW s \in Slot, NEW n \in Post
                 PROVE  <<s, n>> \in RelayClosed' <=> <<s, n>> \in RelayClosed \cup S
      OBVIOUS
    <3>1. /\ <<s, n>> \in RelayOpen' <=> InOpen(s, n)'
          /\ <<s, n>> \in RelayClosed' <=> Begun(s, n)' /\ ~InOpen(s, n)'
      BY DEF RelayOpen, RelayClosed, Begun
    <3>2. InOpen(s, n) => Begun(s, n)
      BY OpenBegun
    <3> QED
      BY <3>1, <3>2, OpenClosed DEF OnlyCloses
  <2>2. RelayClosed' \subseteq Slot \X Post
    BY DEF RelayClosed
  <2> HIDE DEF S
  <2>3. S \subseteq Slot \X Post
    BY RelaySets DEF S
  <2> QED
    BY <2>1, <2>2, <2>3, RelaySets
<1>3. Promise!Close(S)
  BY <1>1, <1>2 DEF Promise!Close
<1> QED
  BY <1>3 DEF Promise!RelayNext

(* One delivery begins or closes, the others are what they were. *)
RestSame(s, n) ==
    \A s2 \in Slot, n2 \in Post : <<s2, n2>> # <<s, n>> =>
        /\ Begun(s2, n2)' <=> Begun(s2, n2)
        /\ InOpen(s2, n2)' <=> InOpen(s2, n2)

LEMMA SameSets ==
    ASSUME \A s \in Slot, n \in Post :
               /\ Begun(s, n)' <=> Begun(s, n)
               /\ InOpen(s, n)' <=> InOpen(s, n)
    PROVE  RelayOpen' = RelayOpen /\ RelayClosed' = RelayClosed
<1>1. RelayOpen' = RelayOpen
  BY DEF RelayOpen
<1> QED
  BY <1>1 DEF RelayClosed, Begun

LEMMA OpensSets ==
    ASSUME NEW s \in Slot, NEW n \in Post, RestSame(s, n),
           ~Begun(s, n), InOpen(s, n)'
    PROVE  /\ RelayOpen' = RelayOpen \cup {<<s, n>>}
           /\ RelayClosed' = RelayClosed
<1>1. \A s2 \in Slot, n2 \in Post :
          /\ <<s2, n2>> \in RelayOpen' <=> InOpen(s2, n2)'
          /\ <<s2, n2>> \in RelayClosed' <=> Begun(s2, n2)' /\ ~InOpen(s2, n2)'
  BY DEF RelayOpen, RelayClosed, Begun
<1>2. RelayOpen' \subseteq Slot \X Post /\ RelayClosed' \subseteq Slot \X Post
  BY DEF RelayOpen, RelayClosed
<1>3. RelayOpen' = RelayOpen \cup {<<s, n>>}
  <2>1. \A s2 \in Slot, n2 \in Post :
            <<s2, n2>> \in RelayOpen' <=> <<s2, n2>> \in RelayOpen \cup {<<s, n>>}
    BY <1>1, OpenClosed DEF RestSame
  <2> QED
    BY <1>2, <2>1, RelaySets
<1>4. RelayClosed' = RelayClosed
  <2>1. \A s2 \in Slot, n2 \in Post :
            <<s2, n2>> \in RelayClosed' <=> <<s2, n2>> \in RelayClosed
    BY <1>1, OpenClosed DEF RestSame
  <2> QED
    BY <1>2, <2>1, RelaySets
<1> QED
  BY <1>3, <1>4

LEMMA ClosesSets ==
    ASSUME NEW s \in Slot, NEW n \in Post, RestSame(s, n),
           Begun(s, n), InOpen(s, n), Begun(s, n)', ~InOpen(s, n)'
    PROVE  /\ RelayOpen' = RelayOpen \ {<<s, n>>}
           /\ RelayClosed' = RelayClosed \cup {<<s, n>>}
<1>1. \A s2 \in Slot, n2 \in Post :
          /\ <<s2, n2>> \in RelayOpen' <=> InOpen(s2, n2)'
          /\ <<s2, n2>> \in RelayClosed' <=> Begun(s2, n2)' /\ ~InOpen(s2, n2)'
  BY DEF RelayOpen, RelayClosed, Begun
<1>2. RelayOpen' \subseteq Slot \X Post /\ RelayClosed' \subseteq Slot \X Post
  BY DEF RelayOpen, RelayClosed
<1>3. RelayOpen' = RelayOpen \ {<<s, n>>}
  <2>1. \A s2 \in Slot, n2 \in Post :
            <<s2, n2>> \in RelayOpen' <=> <<s2, n2>> \in RelayOpen \ {<<s, n>>}
    BY <1>1, OpenClosed DEF RestSame
  <2> QED
    BY <1>2, <2>1, RelaySets
<1>4. RelayClosed' = RelayClosed \cup {<<s, n>>}
  <2>1. \A s2 \in Slot, n2 \in Post :
            <<s2, n2>> \in RelayClosed' <=> <<s2, n2>> \in RelayClosed \cup {<<s, n>>}
    BY <1>1, OpenClosed DEF RestSame
  <2> QED
    BY <1>2, <2>1, RelaySets
<1> QED
  BY <1>3, <1>4

-----------------------------------------------------------------------------
(* What the steps look like from outside. *)
RelayStep == [Promise!RelayNext]_(Promise!relayVars)

LEMMA ArriveRelay ==
    ASSUME DeliveryInv, NEW n \in Post, Arrive(n) PROVE RelayStep
<1>0. /\ post[n] = "unsent" /\ post' = [post EXCEPT ![n] = "write"]
      /\ UNCHANGED <<stored, taskVars, wire, latest, copies, send>>
  BY DEF Arrive, SetPost
<1>1. Written' = Written
  BY <1>0 DEF DeliveryInv, TypeOK, Written, Stored
<1>2. RelayOpen' = RelayOpen /\ RelayClosed' = RelayClosed
  BY <1>0, SameSets DEF Begun, InOpen, taskVars
<1> QED
  BY <1>0, <1>1, <1>2 DEF RelayStep, Promise!relayVars

LEMMA WriteLocationRelay ==
    ASSUME DeliveryInv, NEW n \in Post, WriteLocation(n) PROVE RelayStep
<1>0. /\ post[n] = "write"
      /\ UNCHANGED <<taskVars, wire, latest, copies, send, calm>>
      /\ \/ stored' = n /\ post' = [post EXCEPT ![n] = "webhook"]
         \/ stored' = n /\ post' = [post EXCEPT ![n] = "done"]
         \/ stored' = stored /\ post' = [post EXCEPT ![n] = "failed"]
  BY DEF WriteLocation, SetPost
<1>1. RelayOpen' = RelayOpen /\ RelayClosed' = RelayClosed
  BY <1>0, SameSets DEF Begun, InOpen, taskVars
<1>2. CASE stored' = n /\ post'[n] \in {"webhook", "done"}
  <2>1. Written' = Written \cup {n}
    BY <1>0, <1>2 DEF DeliveryInv, TypeOK, Written, Stored
  <2>2. Promise!Store(n)
    BY <1>0, <1>1, <1>2, <2>1 DEF Promise!Store
  <2> QED
    BY <2>2 DEF RelayStep, Promise!RelayNext
<1>3. CASE stored' = stored /\ post' = [post EXCEPT ![n] = "failed"]
  <2>1. Written' = Written
    BY <1>0, <1>3 DEF DeliveryInv, TypeOK, Written, Stored
  <2> QED
    BY <1>0, <1>1, <1>3, <2>1 DEF RelayStep, Promise!relayVars
<1> QED
  BY <1>0, <1>2, <1>3 DEF DeliveryInv, TypeOK

LEMMA HandOverRelay ==
    ASSUME DeliveryInv, NEW s \in Slot, NEW n \in Post, HandOver(s, n)
    PROVE  RelayStep
<1>0. /\ post[n] = s
      /\ post' = [post EXCEPT ![n] = IF s = "webhook" THEN "openclaw" ELSE "done"]
      /\ UNCHANGED <<stored, try, wire, latest, copies, send, calm>>
      /\ \/ task[s][n] = "none" /\ SetTask(s, n, "post")
         \/ UNCHANGED task
  BY DEF HandOver, SetPost
<1>1. Written' = Written /\ n \in Written
  BY <1>0 DEF DeliveryInv, TypeOK, Written, Stored, Slot
<1>2. CASE task[s][n] = "none" /\ SetTask(s, n, "post")
  <2>1. /\ task'[s][n] = "post" /\ Others(s, n)
    BY <1>0, <1>2, SetTaskEffect DEF DeliveryInv, Running
  <2>2. RestSame(s, n) /\ ~Begun(s, n) /\ InOpen(s, n)'
    BY <1>0, <1>2, <2>1 DEF Others, RestSame, Begun, InOpen, Running
  <2>3. /\ RelayOpen' = RelayOpen \cup {<<s, n>>}
        /\ RelayClosed' = RelayClosed
    BY <2>2, OpensSets
  <2>4. <<s, n>> \notin RelayOpen \cup RelayClosed
    BY <2>2, OpenClosed, OpenBegun
  <2>5. Promise!Forward(s, n)
    BY <1>0, <1>1, <2>3, <2>4 DEF Promise!Forward
  <2> QED
    BY <2>5 DEF RelayStep, Promise!RelayNext
<1>3. CASE UNCHANGED task
  <2>1. RelayOpen' = RelayOpen /\ RelayClosed' = RelayClosed
    BY <1>0, <1>3, SameSets DEF Begun, InOpen
  <2> QED
    BY <1>0, <1>1, <2>1 DEF RelayStep, Promise!relayVars
<1> QED
  BY <1>0, <1>2, <1>3

LEMMA AttemptRelay ==
    ASSUME DeliveryInv, NEW s \in Slot, NEW n \in Post, Attempt(s, n)
    PROVE  RelayStep
<1> USE DEF DeliveryInv
<1>0. /\ task[s][n] = "post" /\ UNCHANGED <<phoneVars, latest, copies, send, calm>>
  BY DEF Attempt
<1>1. /\ Others(s, n) /\ Begun(s, n)'
      /\ wire' \in {wire, wire \cup {<<s, n, try[s][n]>>}}
  <2>1. CASE SetTask(s, n, "wait") /\ UNCHANGED try
    BY <1>0, <2>1, SetTaskEffect DEF Attempt, Running, Begun
  <2>2. CASE NextTry(s, n)
    BY <2>2, NextTryEffect DEF Attempt, Begun
  <2> QED
    BY <2>1, <2>2 DEF Attempt
<1>2. OnlyCloses
  BY <1>0, <1>1 DEF OnlyCloses, Others, Begun, InOpen, Running
<1>3. Promise!RelayNext
  BY <1>0, <1>2, CloseStep DEF Written, phoneVars
<1> QED
  BY <1>3 DEF RelayStep

LEMMA TimeOutRelay ==
    ASSUME DeliveryInv, NEW s \in Slot, NEW n \in Post, TimeOut(s, n)
    PROVE  RelayStep
<1> USE DEF DeliveryInv
<1>0. /\ task[s][n] = "wait" /\ NextTry(s, n)
      /\ UNCHANGED <<phoneVars, wire, latest, copies, send, calm>>
  BY DEF TimeOut
<1>1. Others(s, n) /\ Begun(s, n)'
  BY <1>0, NextTryEffect DEF Begun
<1>2. OnlyCloses
  BY <1>0, <1>1 DEF OnlyCloses, Others, Begun, InOpen, Running
<1>3. Promise!RelayNext
  BY <1>0, <1>2, CloseStep DEF Written, phoneVars
<1> QED
  BY <1>3 DEF RelayStep

LEMMA LoseRelay == ASSUME DeliveryInv, NEW p \in Packet, Lose(p) PROVE RelayStep
<1>0. /\ wire' = wire \ {p}
      /\ UNCHANGED <<phoneVars, taskVars, latest, copies, send, calm>>
  BY DEF Lose
<1>1. OnlyCloses
  BY <1>0 DEF OnlyCloses, Begun, InOpen, taskVars
<1>2. Promise!RelayNext
  BY <1>0, <1>1, CloseStep DEF Written, phoneVars
<1> QED
  BY <1>2 DEF RelayStep

(* A copy arrives while its delivery is open, and the budget has room.     *)
LEMMA ReceiveRelay ==
    ASSUME DeliveryInv, NEW s \in Slot, NEW n \in Post, NEW k \in 0..2,
           Receive(<<s, n, k>>)
    PROVE  RelayStep
<1> USE DEF DeliveryInv
<1>0. /\ <<s, n, k>> \in wire /\ wire' = wire \ {<<s, n, k>>}
      /\ UNCHANGED <<phoneVars, calm>>
      /\ TaskTypes' /\ Others(s, n) /\ Moves(s, n)
      /\ k = 0 => UNCHANGED taskVars
      /\ \/ UNCHANGED copies
         \/ k > 0 /\ copies' = [copies EXCEPT ![s][n] = @ + 1]
  BY ReceiveEffect
<1>1. Begun(s, n) <=> Begun(s, n)'
  BY <1>0 DEF Begun, Moves, Running
<1>2. RestSame(s, n) /\ (InOpen(s, n)' => InOpen(s, n))
  BY <1>0, <1>1 DEF RestSame, Others, Begun, InOpen, Moves, Running
<1>3. Written' = Written
  BY <1>0 DEF Written, phoneVars
<1>4. CASE UNCHANGED copies
  <2>1. OnlyCloses
    BY <1>1, <1>2 DEF OnlyCloses, RestSame
  <2>2. Promise!RelayNext
    BY <1>0, <1>3, <1>4, <2>1, CloseStep DEF phoneVars
  <2> QED
    BY <2>2 DEF RelayStep
<1>5. CASE k > 0 /\ copies' = [copies EXCEPT ![s][n] = @ + 1]
  <2>1. InOpen(s, n) /\ Begun(s, n) /\ <<s, n>> \in RelayOpen
    <3>1. k \in 1..2
      BY <1>5
    <3>2. InOpen(s, n)
      BY <1>0, <3>1 DEF InOpen
    <3> QED
      BY <3>2, OpenBegun, OpenClosed
  <2>2. copies[s][n] < Promised[s]
    <3>1. /\ Budget(s, n) /\ copies[s][n] \in 0..2 /\ try[s][n] \in 1..2
          /\ Tries[s] \in 1..2
      BY TriesFacts DEF BudgetInv, TypeOK
    <3>2. Sent(s, n) \in Nat /\ Sent(s, n) <= Tries[s]
      BY <3>1 DEF Budget, Sent, TypeOK, Running, Ended
    <3>3. Total(s, n) >= copies[s][n] + 1
      <4>1. CASE k = 1
        BY <1>0, <3>1, <4>1 DEF Total, Count
      <4>2. CASE k = 2
        BY <1>0, <3>1, <4>2 DEF Total, Count
      <4> QED
        BY <1>5, <4>1, <4>2
    <3>4. Total(s, n) \in Nat
      BY <3>1 DEF Total, Count
    <3>5. Promised[s] = Tries[s]
      BY DEF Promised, Tries, Slot
    <3> QED
      BY <3>1, <3>2, <3>3, <3>4, <3>5 DEF Budget
  <2>3. \/ RelayOpen' = RelayOpen /\ RelayClosed' = RelayClosed
        \/ /\ RelayOpen' = RelayOpen \ {<<s, n>>}
           /\ RelayClosed' = RelayClosed \cup {<<s, n>>}
    <3>1. CASE InOpen(s, n)'
      BY <1>1, <1>2, <2>1, <3>1, SameSets DEF RestSame
    <3>2. CASE ~InOpen(s, n)'
      BY <1>1, <1>2, <2>1, <3>2, ClosesSets
    <3> QED
      BY <3>1, <3>2
  <2>4. Promise!Arrival(s, n)
    BY <1>0, <1>3, <1>5, <2>1, <2>2, <2>3 DEF Promise!Arrival, phoneVars
  <2> QED
    BY <2>4 DEF RelayStep, Promise!RelayNext
<1> QED
  BY <1>0, <1>4, <1>5

LEMMA SendRelay ==
    ASSUME DeliveryInv, StartSend \/ ReadAndSend \/ AbandonSend PROVE RelayStep
<1>1. UNCHANGED <<phoneVars, taskVars, copies>>
  BY DEF StartSend, ReadAndSend, AbandonSend
<1>2. \A s \in Slot, n \in Post, k \in 1..2 :
          <<s, n, k>> \in wire' <=> <<s, n, k>> \in wire
  BY DEF StartSend, ReadAndSend, AbandonSend
<1>3. RelayOpen' = RelayOpen /\ RelayClosed' = RelayClosed
  BY <1>1, <1>2, SameSets DEF Begun, InOpen, taskVars
<1> QED
  BY <1>1, <1>3 DEF RelayStep, Promise!relayVars, Written, phoneVars

LEMMA ExpireRelay == ASSUME DeliveryInv, Expire PROVE RelayStep
<1>1. stored' = 0 /\ UNCHANGED <<post, taskVars, wire, copies>>
  BY DEF Expire
<1>2. OnlyCloses
  BY <1>1 DEF OnlyCloses, Begun, InOpen, taskVars
<1>3. Promise!RelayNext
  BY <1>1, <1>2, CloseStep DEF Written
<1> QED
  BY <1>3 DEF RelayStep

LEMMA DieRelay ==
    ASSUME DeliveryInv, NEW S \in SUBSET Post, Die(S) PROVE RelayStep
<1>1. /\ UNCHANGED <<stored, wire, copies>>
      /\ \A s \in Slot, n \in Post :
             \/ task'[s][n] = task[s][n]
             \/ task[s][n] \in Running /\ task'[s][n] = "lost"
  BY DEF Die
<1>2. OnlyCloses
  BY <1>1 DEF OnlyCloses, Begun, InOpen, Running
<1>3. Written' = Written
  <2>1. \A n \in Post : post'[n] \in Stored <=> post[n] \in Stored
    BY DEF Die, Stored, Handling, DeliveryInv, TypeOK
  <2> QED
    BY <2>1 DEF Written
<1>4. Promise!RelayNext
  BY <1>1, <1>2, <1>3, CloseStep
<1> QED
  BY <1>4 DEF RelayStep

LEMMA NextRelay == ASSUME DeliveryInv, [Next]_vars PROVE RelayStep
<1>1. CASE \E n \in Post : Arrive(n) \/ WriteLocation(n)
  BY <1>1, ArriveRelay, WriteLocationRelay
<1>2. CASE \E s \in Slot, n \in Post : HandOver(s, n) \/ Deliver(s, n)
  BY <1>2, HandOverRelay, AttemptRelay, TimeOutRelay DEF Deliver
<1>3. CASE \E p \in Packet : Receive(p) \/ Lose(p)
  BY <1>3, ReceiveRelay, LoseRelay, PacketParts
<1>4. CASE StartSend \/ ReadAndSend \/ AbandonSend
  BY <1>4, SendRelay
<1>5. CASE Expire
  BY <1>5, ExpireRelay
<1>6. CASE \E S \in SUBSET Post : Die(S)
  BY <1>6, DieRelay
<1>7. CASE UNCHANGED vars
  <2>1. RelayOpen' = RelayOpen /\ RelayClosed' = RelayClosed /\ Written' = Written
    BY <1>7, SameSets DEF vars, Begun, InOpen, Written
  <2> QED
    BY <1>7, <2>1 DEF vars, RelayStep, Promise!relayVars
<1> QED
  BY <1>1, <1>2, <1>3, <1>4, <1>5, <1>6, <1>7 DEF Next

LEMMA InitRelay == Init => Promise!RelayInit
<1> SUFFICES ASSUME Init PROVE Promise!RelayInit
  OBVIOUS
<1>1. \A s \in Slot, n \in Post : task[s][n] \in {"off", "none"} /\ wire = {}
  BY DEF Init
<1>2. RelayOpen = {} /\ RelayClosed = {}
  BY <1>1 DEF RelayOpen, RelayClosed, InOpen, Running
<1>3. Written = {}
  BY DEF Init, Written, Stored
<1> QED
  BY <1>2, <1>3 DEF Init, Promise!RelayInit

(* The server keeps the promise of Relay: only stored locations are        *)
(* forwarded, to each receiver at most Tries times, and never after the    *)
(* delivery is over (handlers.go 583-675, 1226-1300).                      *)
THEOREM DeliveryImplementsRelay == Spec => ImplementsRelay
<1>1. Init => Promise!RelayInit
  BY InitRelay
<1>2. DeliveryInv /\ [Next]_vars => [Promise!RelayNext]_(Promise!relayVars)
  BY NextRelay DEF RelayStep
<1> QED
  BY <1>1, <1>2, DeliveryInvariance, PTL DEF Spec, ImplementsRelay, Promise!RelaySpec

-----------------------------------------------------------------------------
(* Progress. What becomes of the goroutine of n and s: it is started, goes *)
(* from an attempt to its answer, makes one attempt more while it has one  *)
(* left, and ends.                                                         *)
Forward(s, n) ==
    \/ task'[s][n] = task[s][n] /\ try'[s][n] = try[s][n]
    \/ task[s][n] = "none" /\ task'[s][n] = "post" /\ try'[s][n] = try[s][n]
    \/ task[s][n] = "post" /\ task'[s][n] = "wait" /\ try'[s][n] = try[s][n]
    \/ /\ task[s][n] \in Running /\ task'[s][n] = "post"
       /\ try[s][n] < Tries[s] /\ try'[s][n] = try[s][n] + 1
    \/ task[s][n] \in Running /\ task'[s][n] \in Ended

AllForward == \A s \in Slot, n \in Post : Forward(s, n)

LEMMA OneForward ==
    ASSUME DeliveryInv, NEW s \in Slot, NEW n \in Post, Others(s, n), Forward(s, n)
    PROVE  AllForward
BY DEF AllForward, Forward, Others

LEMMA NextTryForward ==
    ASSUME DeliveryInv, NEW s \in Slot, NEW n \in Post, NextTry(s, n),
           task[s][n] \in Running
    PROVE  AllForward
<1>1. Others(s, n) /\ Forward(s, n)
  BY NextTryEffect DEF DeliveryInv, Forward, Ended
<1> QED
  BY <1>1, OneForward

LEMMA NextForward == ASSUME DeliveryInv, Next PROVE AllForward
<1> USE DEF DeliveryInv
<1>1. ASSUME UNCHANGED taskVars PROVE AllForward
  BY <1>1 DEF taskVars, AllForward, Forward
<1>2. CASE \E n \in Post : Arrive(n) \/ WriteLocation(n)
  BY <1>1, <1>2 DEF Arrive, WriteLocation
<1>3. ASSUME NEW s \in Slot, NEW n \in Post, HandOver(s, n) PROVE AllForward
  <2>1. CASE UNCHANGED task
    BY <1>1, <1>3, <2>1 DEF HandOver, taskVars
  <2>2. CASE task[s][n] = "none" /\ SetTask(s, n, "post")
    <3>1. Others(s, n) /\ task'[s][n] = "post" /\ try'[s][n] = try[s][n]
      BY <1>3, <2>2, SetTaskEffect DEF HandOver, Running
    <3> QED
      BY <2>2, <3>1, OneForward DEF Forward
  <2> QED
    BY <1>3, <2>1, <2>2 DEF HandOver
<1>4. ASSUME NEW s \in Slot, NEW n \in Post, Attempt(s, n) PROVE AllForward
  <2>1. CASE SetTask(s, n, "wait") /\ UNCHANGED try
    <3>1. Others(s, n) /\ task'[s][n] = "wait" /\ try'[s][n] = try[s][n]
      BY <2>1, SetTaskEffect DEF Running
    <3> QED
      BY <1>4, <3>1, OneForward DEF Forward, Attempt
  <2>2. CASE NextTry(s, n)
    BY <1>4, <2>2, NextTryForward DEF Attempt, Running
  <2> QED
    BY <1>4, <2>1, <2>2 DEF Attempt
<1>5. ASSUME NEW s \in Slot, NEW n \in Post, TimeOut(s, n) PROVE AllForward
  BY <1>5, NextTryForward DEF TimeOut, Running
<1>6. ASSUME NEW p \in Packet, Receive(p) PROVE AllForward
  <2>1. PICK s \in Slot, n \in Post, k \in 0..2 : p = <<s, n, k>>
    BY PacketParts
  <2>2. Others(s, n) /\ Moves(s, n)
    BY <1>6, <2>1, ReceiveEffect
  <2>3. Forward(s, n)
    BY <2>2 DEF Moves, Forward, Running, Ended
  <2> QED
    BY <2>2, <2>3, OneForward
<1>7. ASSUME NEW p \in Packet, Lose(p) PROVE AllForward
  BY <1>1, <1>7 DEF Lose
<1>8. CASE StartSend \/ ReadAndSend \/ AbandonSend \/ Expire
  BY <1>1, <1>8 DEF StartSend, ReadAndSend, AbandonSend, Expire
<1>9. ASSUME NEW S \in SUBSET Post, Die(S) PROVE AllForward
  <2>1. ASSUME NEW s \in Slot, NEW n \in Post PROVE Forward(s, n)
    <3>1. CASE n \in S /\ task[s][n] \in Running
      BY <1>9, <3>1 DEF Die, Forward, Ended
    <3>2. CASE ~(n \in S /\ task[s][n] \in Running)
      BY <1>9, <3>2 DEF Die, Forward
    <3> QED
      BY <3>1, <3>2
  <2> QED
    BY <2>1 DEF AllForward
<1> QED
  BY <1>2, <1>3, <1>4, <1>5, <1>6, <1>7, <1>8, <1>9 DEF Next, Deliver

(* A delivery is started once and never again, its attempts are counted    *)
(* up to Tries and never back, and it ends for good: whatever is lost,     *)
(* late or heard twice, a goroutine has finitely many steps to make        *)
(* (handlers.go 1260-1300). DeliveriesEnd adds that it makes them.         *)
THEOREM DeliveriesAdvance == Spec => [][AllForward]_vars
<1>1. DeliveryInv /\ [Next]_vars => [AllForward]_vars
  BY NextForward
<1> QED
  BY <1>1, DeliveryInvariance, PTL DEF Spec
=============================================================================
