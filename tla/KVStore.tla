------------------------------- MODULE KVStore -------------------------------
(***************************************************************************)
(* What the handlers rely on of a KVStore: every call is atomic, and a key *)
(* is gone the moment its time to live is over. This is the Redis behind   *)
(* RedisStore; MemStore, its replacement in local mode, implements it.     *)
(*                                                                         *)
(* Time is relative: an entry carries the ticks it has left. An entry with *)
(* 0 ticks left is still there, for it expires strictly after its time.    *)
(***************************************************************************)
EXTENDS Integers

CONSTANTS
    Key,
    MaxValue,   \* values are 0..MaxValue: opaque strings, or counters
    MaxTTL,     \* times to live are at most MaxTTL ticks
    Absent,     \* no entry, no result
    Never       \* the left of an entry without expiry

Value == 0..MaxValue

VARIABLES
    cell,    \* cell[k]: the entry of k, or Absent
    reply    \* the last call, with its result

kvars == <<cell, reply>>

Reply(op, k, x) == [op |-> op, key |-> k, result |-> x]

Init ==
    /\ cell = [k \in Key |-> Absent]
    /\ reply = Absent

(* The left of an entry set with ttl: a zero TTL means no expiry. *)
LeftOf(ttl) == IF ttl > 0 THEN ttl ELSE Never

ValueAt(k) == IF cell[k] = Absent THEN Absent ELSE cell[k].value

Get(k) ==
    /\ reply' = Reply("get", k, ValueAt(k))
    /\ UNCHANGED cell

Set(k, v, ttl) ==
    /\ reply' = Reply("set", k, Absent)
    /\ cell' = [cell EXCEPT ![k] = [value |-> v, left |-> LeftOf(ttl)]]

GetDel(k) ==
    /\ reply' = Reply("getdel", k, ValueAt(k))
    /\ cell' = [cell EXCEPT ![k] = Absent]

Del(k) ==
    /\ reply' = Reply("del", k, Absent)
    /\ cell' = [cell EXCEPT ![k] = Absent]

(* A counter keeps the expiry it has; a new one has none. *)
Incr(k) ==
    \/ /\ cell[k] = Absent
       /\ reply' = Reply("incr", k, 1)
       /\ cell' = [cell EXCEPT ![k] = [value |-> 1, left |-> Never]]
    \/ /\ cell[k] # Absent
       /\ cell[k].value < MaxValue
       /\ reply' = Reply("incr", k, cell[k].value + 1)
       /\ cell' = [cell EXCEPT ![k] = [value |-> cell[k].value + 1,
                                       left  |-> cell[k].left]]

Expire(k, ttl) ==
    /\ reply' = Reply("expire", k, Absent)
    /\ cell' = [cell EXCEPT ![k] =
                   IF cell[k] = Absent THEN Absent
                   ELSE [value |-> cell[k].value, left |-> ttl]]

(* A negative result: no entry, or no expiry. *)
TTL(k) ==
    /\ reply' = Reply("ttl", k, IF cell[k] = Absent \/ cell[k].left = Never
                                THEN -1 ELSE cell[k].left)
    /\ UNCHANGED cell

(* What becomes of an entry in one tick. *)
Aged(e) ==
    IF e = Absent \/ e.left = Never THEN e
    ELSE IF e.left = 0 THEN Absent
    ELSE [value |-> e.value, left |-> e.left - 1]

Tick ==
    /\ cell' = [k \in Key |-> Aged(cell[k])]
    /\ UNCHANGED reply

Next ==
    \/ \E k \in Key :
          \/ Get(k) \/ GetDel(k) \/ Del(k) \/ Incr(k) \/ TTL(k)
          \/ \E v \in Value, ttl \in 0..MaxTTL : Set(k, v, ttl)
          \/ \E ttl \in 1..MaxTTL : Expire(k, ttl)
    \/ Tick

Spec == Init /\ [][Next]_kvars
=============================================================================
