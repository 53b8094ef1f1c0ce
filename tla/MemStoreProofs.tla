--------------------------- MODULE MemStoreProofs ---------------------------
(***************************************************************************)
(* MemStore implements KVStore for any set of keys and any bounds.         *)
(***************************************************************************)
EXTENDS MemStore, TLAPS

USE BoundsAssumption, NeverAssumption, AbsentAssumption

(* The part of TypeOK the refinement needs. *)
DataOK == data \in [Key -> Entry \cup {Absent}]

LEMMA LeftOK ==
    ASSUME NEW e \in Entry
    PROVE  /\ e # Absent /\ e.value \in Value
           /\ e.left = Never \/ e.left \in -1..MaxTTL
           /\ e = [value |-> e.value, left |-> e.left]
  BY DEF Entry

(* What a method may put is an entry. *)
LEMMA PutOK ==
    ASSUME DataOK, NEW k \in Key, NEW e \in Entry \cup {Absent}, Put(k, e)
    PROVE  DataOK'
  BY DEF DataOK, Put

LEMMA EntryOK ==
    ASSUME NEW v \in Value, NEW l \in (-1..MaxTTL) \cup {Never}
    PROVE  [value |-> v, left |-> l] \in Entry
  BY DEF Entry

LEMMA CallOK ==
    ASSUME DataOK, NEW k \in Key, Call(k)
    PROVE  DataOK'
<1>1. CASE Get(k) \/ GetDel(k) \/ Del(k) \/ TTL(k)
  BY <1>1, PutOK DEF Get, GetDel, Del, TTL, DataOK
<1>2. CASE Incr(k)
  <2>1. CASE Put(k, [value |-> 1, left |-> Never])
    <3>1. 1 \in Value
      BY DEF Value
    <3>2. [value |-> 1, left |-> Never] \in Entry
      BY <3>1, EntryOK
    <3> QED  BY <2>1, <3>2, PutOK
  <2>2. CASE /\ ~Gone(k) /\ data[k].value < MaxValue
             /\ Put(k, [value |-> data[k].value + 1, left |-> data[k].left])
    <3>1. data[k] \in Entry
      BY <2>2 DEF DataOK, Gone
    <3>2. data[k].value + 1 \in Value
      BY <2>2, <3>1, LeftOK DEF Value
    <3>3. [value |-> data[k].value + 1, left |-> data[k].left] \in Entry
      BY <3>1, <3>2, LeftOK, EntryOK
    <3> QED  BY <2>2, <3>3, PutOK
  <2> QED  BY <1>2, <2>1, <2>2 DEF Incr
<1>3. ASSUME NEW v \in Value, NEW ttl \in 0..MaxTTL, Set(k, v, ttl)
      PROVE  DataOK'
  <2> DEFINE l == IF ttl > 0 THEN ttl ELSE Never
  <2>1. l \in (-1..MaxTTL) \cup {Never}
    OBVIOUS
  <2>2. [value |-> v, left |-> l] \in Entry
    BY <2>1, EntryOK
  <2> QED  BY <1>3, <2>2, PutOK DEF Set
<1>4. ASSUME NEW ttl \in 1..MaxTTL, Expire(k, ttl)
      PROVE  DataOK'
  <2>1. CASE UNCHANGED data
    BY <2>1 DEF DataOK
  <2>2. CASE ~Gone(k) /\ Put(k, [value |-> data[k].value, left |-> ttl])
    <3>1. data[k] \in Entry
      BY <2>2 DEF DataOK, Gone
    <3>2. [value |-> data[k].value, left |-> ttl] \in Entry
      BY <3>1, LeftOK, EntryOK
    <3> QED  BY <2>2, <3>2, PutOK
  <2> QED  BY <1>4, <2>1, <2>2 DEF Expire
<1> QED  BY <1>1, <1>2, <1>3, <1>4 DEF Call

LEMMA AgedOK ==
    ASSUME NEW e \in Entry \cup {Absent}
    PROVE  Aged(e) \in Entry \cup {Absent}
<1>1. CASE e = Absent \/ e.left = Never \/ e.left = -1
  BY <1>1 DEF Aged
<1>2. CASE e \in Entry /\ e.left # Never /\ e.left # -1
  <2>1. e.value \in Value /\ e.left \in 0..MaxTTL
    BY <1>2, LeftOK
  <2>2. [value |-> e.value, left |-> e.left - 1] \in Entry
    BY <2>1, EntryOK
  <2> QED  BY <1>2, <2>2, LeftOK DEF Aged
<1> QED  BY <1>1, <1>2

LEMMA NextOK == DataOK /\ [Next]_vars => DataOK'
<1> SUFFICES ASSUME DataOK, [Next]_vars PROVE DataOK'
  OBVIOUS
<1>1. ASSUME NEW k \in Key, Call(k) PROVE DataOK'
  BY <1>1, CallOK
<1>2. CASE Sweep
  BY <1>2 DEF Sweep, DataOK
<1>3. CASE Close
  BY <1>3 DEF Close, DataOK
<1>4. CASE Tick
  BY <1>4, AgedOK DEF Tick, DataOK
<1>5. CASE UNCHANGED vars
  BY <1>5 DEF vars, DataOK
<1> QED  BY <1>1, <1>2, <1>3, <1>4, <1>5 DEF Next

(* What a call answers. *)
LEMMA AnswerOK ==
    ASSUME DataOK, NEW k \in Key, Call(k)
    PROVE  reply' \in [op : {"get", "set", "getdel", "del", "incr",
                               "expire", "ttl"},
                         key : Key,
                         result : (-1..(MaxValue + MaxTTL)) \cup {Absent}]
<1> DEFINE Result == (-1..(MaxValue + MaxTTL)) \cup {Absent}
<1> DEFINE Op == {"get", "set", "getdel", "del", "incr", "expire", "ttl"}
<1>1. ~Gone(k) => /\ data[k].value \in 0..MaxValue
                  /\ data[k].left = Never \/ data[k].left \in -1..MaxTTL
  BY LeftOK DEF DataOK, Gone, Value
<1>2. Absent \in Result /\ 1 \in Result /\ -1 \in Result
  OBVIOUS
<1>3. ~Gone(k) => /\ data[k].value \in Result
                  /\ data[k].left # Never => data[k].left \in Result
                  /\ data[k].value < MaxValue => data[k].value + 1 \in Result
  BY <1>1
<1> SUFFICES reply' \in [op : Op, key : Key, result : Result]
  OBVIOUS
<1> HIDE DEF Result
<1>4. \A op \in Op, x \in Result :
         [op |-> op, key |-> k, result |-> x] \in [op : Op, key : Key, result : Result]
  OBVIOUS
<1> USE DEF Answer
<1>5. CASE Get(k)
  BY <1>2, <1>3, <1>4, <1>5 DEF Get
<1>6. CASE GetDel(k)
  BY <1>2, <1>3, <1>4, <1>6 DEF GetDel
<1>7. CASE Incr(k)
  BY <1>2, <1>3, <1>4, <1>7 DEF Incr
<1>8. CASE TTL(k)
  BY <1>2, <1>3, <1>4, <1>8 DEF TTL
<1>9. CASE \/ Del(k) \/ \E v \in Value, ttl \in 0..MaxTTL : Set(k, v, ttl)
          \/ \E ttl \in 1..MaxTTL : Expire(k, ttl)
  BY <1>2, <1>4, <1>9 DEF Del, Set, Expire
<1> QED  BY <1>5, <1>6, <1>7, <1>8, <1>9 DEF Call

(* Every variable keeps its type, the results of the calls included. *)
THEOREM TypeCorrect == Spec => []TypeOK
<1>1. Init => TypeOK
  BY DEF Init, TypeOK
<1>2. TypeOK /\ [Next]_vars => TypeOK'
  <2> SUFFICES ASSUME TypeOK, [Next]_vars PROVE TypeOK'
    OBVIOUS
  <2>1. DataOK /\ DataOK'
    BY NextOK DEF TypeOK, DataOK
  <2>2. CASE \E k \in Key : Call(k) /\ UNCHANGED closed
    BY <2>1, <2>2, AnswerOK DEF TypeOK, DataOK
  <2>3. CASE Sweep \/ Close \/ Tick \/ UNCHANGED vars
    BY <2>1, <2>3 DEF TypeOK, DataOK, Sweep, Close, Tick, vars
  <2> QED  BY <2>2, <2>3 DEF Next
<1> QED  BY <1>1, <1>2, PTL DEF Spec

-----------------------------------------------------------------------------
(* What the abstract store holds for a key. *)
Seen(k) == IF Gone(k) THEN Absent ELSE data[k]

(* A method that writes key k shows exactly that write. *)
LEMMA PutSeen ==
    ASSUME DataOK, NEW k \in Key, NEW e, Put(k, e),
           e # Absent => ~Expired(e)
    PROVE  [i \in Key |-> Seen(i)'] = [[i \in Key |-> Seen(i)] EXCEPT ![k] = e]
<1>1. Seen(k)' = e
  BY DEF DataOK, Put, Seen, Gone
<1>2. \A i \in Key \ {k} : Seen(i)' = Seen(i)
  BY DEF DataOK, Put, Seen, Gone
<1> QED  BY <1>1, <1>2

LEMMA SameSeen ==
    ASSUME UNCHANGED data
    PROVE  [i \in Key |-> Seen(i)'] = [i \in Key |-> Seen(i)]
  BY DEF Seen, Gone

(* What is there, and is seen. *)
LEMMA SeenEntry ==
    ASSUME DataOK, NEW k \in Key, ~Gone(k)
    PROVE  /\ Seen(k) = data[k] /\ data[k] \in Entry /\ data[k] # Absent
           /\ data[k].left = Never \/ data[k].left \in 0..MaxTTL
<1>1. data[k] \in Entry /\ data[k] # Absent /\ ~Expired(data[k])
  BY DEF DataOK, Gone
<1> QED  BY <1>1, LeftOK DEF Seen, Expired

LEMMA GetRefines ==
    ASSUME DataOK, NEW k \in Key, Get(k) PROVE KV!Get(k)
<1>1. CASE Gone(k) /\ Answer("get", k, Absent) /\ Put(k, Absent)
  <2>1. Seen(k) = Absent
    BY <1>1 DEF Seen
  <2>2. [i \in Key |-> Seen(i)'] = [i \in Key |-> Seen(i)]
    BY <1>1, <2>1, PutSeen
  <2> QED  BY <1>1, <2>1, <2>2 DEF KV!Get, KV!ValueAt, KV!Reply, Answer, Seen
<1>2. CASE ~Gone(k) /\ Answer("get", k, data[k].value) /\ UNCHANGED data
  <2>1. Seen(k) = data[k] /\ data[k] # Absent
    BY <1>2, SeenEntry
  <2> QED  BY <1>2, <2>1, SameSeen DEF KV!Get, KV!ValueAt, KV!Reply, Answer, Seen
<1> QED  BY <1>1, <1>2 DEF Get

LEMMA DelRefines ==
    ASSUME DataOK, NEW k \in Key
    PROVE  /\ GetDel(k) => KV!GetDel(k)
           /\ Del(k) => KV!Del(k)
<1>1. Put(k, Absent) =>
        [i \in Key |-> Seen(i)'] = [[i \in Key |-> Seen(i)] EXCEPT ![k] = Absent]
  BY PutSeen
<1>2. ~Gone(k) => data[k] # Absent
  BY SeenEntry
<1> QED  BY <1>1, <1>2 DEF GetDel, Del, KV!GetDel, KV!Del, KV!ValueAt, KV!Reply,
                           Answer, Seen

LEMMA SetRefines ==
    ASSUME DataOK, NEW k \in Key, NEW v \in Value, NEW ttl \in 0..MaxTTL,
           Set(k, v, ttl)
    PROVE  KV!Set(k, v, ttl)
<1> DEFINE e == [value |-> v, left |-> IF ttl > 0 THEN ttl ELSE Never]
<1>1. ~Expired(e)
  BY DEF Expired
<1>2. [i \in Key |-> Seen(i)'] = [[i \in Key |-> Seen(i)] EXCEPT ![k] = e]
  BY <1>1, PutSeen DEF Set
<1> QED  BY <1>2 DEF Set, KV!Set, KV!LeftOf, KV!Reply, Answer, Seen

LEMMA IncrRefines ==
    ASSUME DataOK, NEW k \in Key, Incr(k) PROVE KV!Incr(k)
<1>1. CASE /\ Gone(k) /\ Answer("incr", k, 1)
           /\ Put(k, [value |-> 1, left |-> Never])
  <2>1. Seen(k) = Absent
    BY <1>1 DEF Seen
  <2>2. ~Expired([value |-> 1, left |-> Never])
    BY DEF Expired
  <2>3. [i \in Key |-> Seen(i)'] =
        [[i \in Key |-> Seen(i)] EXCEPT ![k] = [value |-> 1, left |-> Never]]
    BY <1>1, <2>2, PutSeen
  <2> QED  BY <1>1, <2>1, <2>3 DEF KV!Incr, KV!Reply, Answer, Seen
<1>2. CASE /\ ~Gone(k) /\ data[k].value < MaxValue
           /\ Put(k, [value |-> data[k].value + 1, left |-> data[k].left])
           /\ Answer("incr", k, data[k].value + 1)
  <2> DEFINE e == [value |-> data[k].value + 1, left |-> data[k].left]
  <2>1. /\ Seen(k) = data[k] /\ data[k] # Absent
        /\ data[k].left = Never \/ data[k].left \in 0..MaxTTL
    BY <1>2, SeenEntry
  <2>2. ~Expired(e)
    BY <2>1 DEF Expired
  <2>3. [i \in Key |-> Seen(i)'] = [[i \in Key |-> Seen(i)] EXCEPT ![k] = e]
    BY <1>2, <2>2, PutSeen
  <2> QED  BY <1>2, <2>1, <2>3 DEF KV!Incr, KV!Reply, Answer, Seen
<1> QED  BY <1>1, <1>2 DEF Incr

LEMMA ExpireRefines ==
    ASSUME DataOK, NEW k \in Key, NEW ttl \in 1..MaxTTL, Expire(k, ttl)
    PROVE  KV!Expire(k, ttl)
<1>1. CASE Gone(k) /\ UNCHANGED data
  <2>1. Seen(k) = Absent
    BY <1>1 DEF Seen
  <2>2. [i \in Key |-> Seen(i)'] =
        [[i \in Key |-> Seen(i)] EXCEPT ![k] = Absent]
    BY <1>1, <2>1, SameSeen
  <2> QED  BY <2>1, <2>2 DEF Expire, KV!Expire, KV!Reply, Answer, Seen
<1>2. CASE ~Gone(k) /\ Put(k, [value |-> data[k].value, left |-> ttl])
  <2> DEFINE e == [value |-> data[k].value, left |-> ttl]
  <2>1. Seen(k) = data[k] /\ data[k] # Absent
    BY <1>2, SeenEntry
  <2>2. ~Expired(e)
    BY DEF Expired
  <2>3. [i \in Key |-> Seen(i)'] = [[i \in Key |-> Seen(i)] EXCEPT ![k] = e]
    BY <1>2, <2>2, PutSeen
  <2> QED  BY <2>1, <2>3 DEF Expire, KV!Expire, KV!Reply, Answer, Seen
<1> QED  BY <1>1, <1>2 DEF Expire

LEMMA TTLRefines ==
    ASSUME DataOK, NEW k \in Key, TTL(k) PROVE KV!TTL(k)
<1>1. [i \in Key |-> Seen(i)'] = [i \in Key |-> Seen(i)]
  BY SameSeen DEF TTL
<1>2. ~Gone(k) => data[k] # Absent
  BY SeenEntry
<1> QED  BY <1>1, <1>2 DEF TTL, KV!TTL, KV!Reply, Answer, Seen

(* Sweeping and closing are invisible; a tick ages what is seen. *)
LEMMA SweepRefines ==
    ASSUME DataOK, Sweep PROVE UNCHANGED KV!kvars
<1>1. ASSUME NEW k \in Key PROVE Seen(k)' = Seen(k)
  BY DEF Sweep, Seen, Gone, DataOK
<1> QED  BY <1>1 DEF Sweep, KV!kvars, Seen

LEMMA TickRefines ==
    ASSUME DataOK, Tick PROVE KV!Tick
<1>1. ASSUME NEW k \in Key PROVE Seen(k)' = KV!Aged(Seen(k))
  <2>1. data'[k] = Aged(data[k])
    BY DEF Tick
  <2>2. CASE data[k] = Absent
    BY <2>1, <2>2 DEF Seen, Gone, Aged, KV!Aged
  <2>3. CASE data[k] \in Entry
    <3>1. /\ data[k] # Absent
          /\ data[k].left = Never \/ data[k].left \in -1..MaxTTL
      BY <2>3, LeftOK
    <3>2. CASE data[k].left = Never
      BY <2>1, <3>1, <3>2 DEF Seen, Gone, Expired, Aged, KV!Aged
    <3>3. CASE data[k].left = -1
      BY <2>1, <3>1, <3>3 DEF Seen, Gone, Expired, Aged, KV!Aged
    <3>4. CASE data[k].left \in 0..MaxTTL
      <4>1. data'[k] = [value |-> data[k].value, left |-> data[k].left - 1]
        BY <2>1, <3>1, <3>4 DEF Aged
      <4>2. data'[k] \in Entry
        BY <3>4, <4>1, <2>3, LeftOK, EntryOK
      <4>3. data'[k] # Absent /\ data'[k].left = data[k].left - 1
        BY <4>1, <4>2, LeftOK
      <4>4. Seen(k)' = IF data[k].left = 0 THEN Absent ELSE data'[k]
        BY <3>4, <4>3 DEF Seen, Gone, Expired
      <4>5. Seen(k) = data[k]
        BY <3>1, <3>4 DEF Seen, Gone, Expired
      <4> QED  BY <3>1, <3>4, <4>1, <4>4, <4>5 DEF KV!Aged
    <3> QED  BY <3>1, <3>2, <3>3, <3>4
  <2> QED  BY <2>2, <2>3 DEF DataOK
<1> QED  BY <1>1 DEF Tick, KV!Tick, Seen

LEMMA NextRefines == DataOK /\ [Next]_vars => [KV!Next]_(KV!kvars)
<1> SUFFICES ASSUME DataOK, [Next]_vars PROVE KV!Next \/ UNCHANGED KV!kvars
  OBVIOUS
<1>1. ASSUME NEW k \in Key, Call(k) PROVE KV!Next
  <2>1. CASE Get(k)
    BY <2>1, GetRefines DEF KV!Next
  <2>2. CASE GetDel(k) \/ Del(k)
    BY <2>2, DelRefines DEF KV!Next
  <2>3. CASE Incr(k)
    BY <2>3, IncrRefines DEF KV!Next
  <2>4. CASE TTL(k)
    BY <2>4, TTLRefines DEF KV!Next
  <2>5. ASSUME NEW v \in Value, NEW ttl \in 0..MaxTTL, Set(k, v, ttl)
        PROVE  KV!Next
    BY <2>5, SetRefines DEF KV!Next, KV!Value, Value
  <2>6. ASSUME NEW ttl \in 1..MaxTTL, Expire(k, ttl) PROVE KV!Next
    BY <2>6, ExpireRefines DEF KV!Next
  <2> QED  BY <1>1, <2>1, <2>2, <2>3, <2>4, <2>5, <2>6 DEF Call
<1>2. CASE Sweep
  BY <1>2, SweepRefines
<1>3. CASE Close
  BY <1>3 DEF Close, KV!kvars, Gone
<1>4. CASE Tick
  BY <1>4, TickRefines DEF KV!Next
<1>5. CASE UNCHANGED vars
  BY <1>5 DEF vars, KV!kvars, Gone
<1> QED  BY <1>1, <1>2, <1>3, <1>4, <1>5 DEF Next

(* Expired entries that linger in the map are invisible to every call:     *)
(* MemStore behaves like a store whose keys vanish on time.                *)
THEOREM MemStoreImplementsKVStore == Spec => ImplementsKVStore
<1>1. Init => DataOK
  BY DEF Init, DataOK
<1>2. Init => KV!Init
  BY DEF Init, KV!Init, Gone
<1> QED  BY <1>1, <1>2, NextOK, NextRefines, PTL
         DEF Spec, ImplementsKVStore, KV!Spec
=============================================================================
