------------------------------ MODULE MemStore ------------------------------
(***************************************************************************)
(* MemStore (internal/kvstore/memstore.go), the in-memory KVStore of local *)
(* mode. An expired entry stays in the map until a call trips over it or   *)
(* the cleanup goroutine sweeps it; the claim is that nobody can tell.     *)
(* Every method runs under the mutex, hence in one step. A method reads    *)
(* the clock once here; the two reads of TTL, nanoseconds apart, could     *)
(* straddle a tick and then give a negative result, like an absent key.    *)
(***************************************************************************)
EXTENDS Integers

CONSTANTS
    Key,
    MaxValue,   \* values are 0..MaxValue (a bound)
    MaxTTL,     \* times to live are at most MaxTTL ticks (a bound)
    Absent,     \* no entry, no result
    Never       \* the left of an entry whose expiresAt is zero

VARIABLES
    data,     \* data[k]: the entry of the map, expired or not, or Absent
    closed,   \* Close has been called: the cleanup goroutine is gone
    reply     \* the last call, with its result

vars == <<data, closed, reply>>

Value == 0..MaxValue

(* left is expiresAt - now in ticks; -1 stands for any time in the past. *)
Entry == [value : Value, left : (-1..MaxTTL) \cup {Never}]

ASSUME BoundsAssumption == MaxValue \in Nat \ {0} /\ MaxTTL \in Nat \ {0}
ASSUME NeverAssumption == Never \notin Int
ASSUME AbsentAssumption == Absent \notin Entry

TypeOK ==
    /\ data \in [Key -> Entry \cup {Absent}]
    /\ closed \in BOOLEAN
    /\ reply = Absent \/ reply \in [op : {"get", "set", "getdel", "del", "incr",
                                          "expire", "ttl"},
                                    key : Key,
                                    result : (-1..(MaxValue + MaxTTL)) \cup {Absent}]

Init ==
    /\ data = [k \in Key |-> Absent]
    /\ closed = FALSE
    /\ reply = Absent

(* Mutants stand in for the definition they precede, and make a property   *)
(* fail. This one compares with !Before, so that the last moment is lost.  *)
MutExpiredEarly(e) == e.left # Never /\ e.left <= 0

(* time.Now().After(expiresAt), for an entry that has an expiry. *)
Expired(e) == e.left # Never /\ e.left < 0

(* !ok || e.expired() *)
Gone(k) == IF data[k] = Absent THEN TRUE ELSE Expired(data[k])

Answer(op, k, x) == reply' = [op |-> op, key |-> k, result |-> x]
Put(k, e) == data' = [data EXCEPT ![k] = e]

Get(k) ==
    \/ Gone(k)  /\ Answer("get", k, Absent) /\ Put(k, Absent)
    \/ ~Gone(k) /\ Answer("get", k, data[k].value) /\ UNCHANGED data

Set(k, v, ttl) ==
    /\ Put(k, [value |-> v, left |-> IF ttl > 0 THEN ttl ELSE Never])
    /\ Answer("set", k, Absent)

GetDel(k) ==
    /\ Answer("getdel", k, IF Gone(k) THEN Absent ELSE data[k].value)
    /\ Put(k, Absent)

Del(k) ==
    /\ Answer("del", k, Absent)
    /\ Put(k, Absent)

(* MaxValue bounds the counter, far below 2^63. *)
Incr(k) ==
    \/ /\ Gone(k)
       /\ Put(k, [value |-> 1, left |-> Never])
       /\ Answer("incr", k, 1)
    \/ /\ ~Gone(k)
       /\ data[k].value < MaxValue
       /\ Put(k, [value |-> data[k].value + 1, left |-> data[k].left])
       /\ Answer("incr", k, data[k].value + 1)

(* Mutant: e.expiresAt.Add(ttl) instead of time.Now().Add(ttl). *)
MutExpireAdds(k, ttl) ==
    /\ Answer("expire", k, Absent)
    /\ \/ Gone(k)  /\ UNCHANGED data
       \/ ~Gone(k) /\ Put(k, [value |-> data[k].value,
                              left |-> IF data[k].left = Never THEN ttl
                                       ELSE data[k].left + ttl])

Expire(k, ttl) ==
    /\ Answer("expire", k, Absent)
    /\ \/ Gone(k)  /\ UNCHANGED data
       \/ ~Gone(k) /\ Put(k, [value |-> data[k].value, left |-> ttl])

TTL(k) ==
    /\ Answer("ttl", k, IF Gone(k) \/ data[k].left = Never THEN -1 ELSE data[k].left)
    /\ UNCHANGED data

(* Mutant: the condition of the cleanup is inverted. *)
MutSweepInverted ==
    /\ ~closed
    /\ data' = [k \in Key |-> IF Gone(k) THEN data[k] ELSE Absent]
    /\ UNCHANGED <<closed, reply>>

(* One round of the cleanup goroutine. *)
Sweep ==
    /\ ~closed
    /\ data' = [k \in Key |-> IF Gone(k) THEN Absent ELSE data[k]]
    /\ UNCHANGED <<closed, reply>>

Close ==
    /\ ~closed
    /\ closed' = TRUE
    /\ UNCHANGED <<data, reply>>

(* The clock moves on. *)
Aged(e) ==
    IF e = Absent \/ e.left = Never \/ e.left = -1 THEN e
    ELSE [value |-> e.value, left |-> e.left - 1]

Tick ==
    /\ data' = [k \in Key |-> Aged(data[k])]
    /\ UNCHANGED <<closed, reply>>

Call(k) ==
    \/ Get(k) \/ GetDel(k) \/ Del(k) \/ Incr(k) \/ TTL(k)
    \/ \E v \in Value, ttl \in 0..MaxTTL : Set(k, v, ttl)
    \/ \E ttl \in 1..MaxTTL : Expire(k, ttl)

Next ==
    \/ \E k \in Key : Call(k) /\ UNCHANGED closed
    \/ Sweep \/ Close \/ Tick

Spec == Init /\ [][Next]_vars

(* The ticker of the cleanup goroutine fires again and again. *)
FairSpec == Spec /\ WF_vars(Sweep)

-----------------------------------------------------------------------------
(* Nobody can tell an expired entry that is still in the map from one that *)
(* is gone: MemStore behaves like the Redis it replaces (memstore.go       *)
(* 64-141), whatever the order of calls, sweeps and ticks.                 *)
KV == INSTANCE KVStore WITH
          cell <- [k \in Key |-> IF Gone(k) THEN Absent ELSE data[k]]
ImplementsKVStore == KV!Spec

(* The map does not grow with keys nobody asks for again (memstore.go      *)
(* 45-62): an expired entry is evicted, unless the store has been closed.  *)
ExpiredEvicted ==
    \A k \in Key :
        data[k] # Absent /\ Gone(k) ~> data[k] = Absent \/ ~Gone(k) \/ closed
=============================================================================
