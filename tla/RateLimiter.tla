----------------------------- MODULE RateLimiter -----------------------------
(***************************************************************************)
(* Limiter.Allow (internal/ratelimit/limiter.go) for one key: concurrent   *)
(* callers count an event with Incr, the first one of a window sets the    *)
(* expiry, one over the limit reads the TTL for its Retry-After. Each call *)
(* of the store is a step; a caller may fail or die between two of them.   *)
(* Time is relative, as in KVStore: the key has some ticks left, and is    *)
(* still there with 0.                                                     *)
(***************************************************************************)
EXTENDS Integers

CONSTANTS
    Caller,      \* concurrent calls of Allow, over all server processes
    Max,         \* max, the events allowed per window
    Window,      \* the window, in ticks
    Absent,      \* the key does not exist
    Never        \* the left of a key without expiry

ASSUME LimitAssumption == Max \in Nat \ {0}
ASSUME WindowAssumption == Window \in Nat \ {0}

VARIABLES
    key,     \* the counter: [count, left], or Absent
    pc,      \* pc[c]: "idle", "expire" or "ttl"
    lost,    \* history: the call that sets the expiry of this counter failed,
             \* or its caller died before it
    recent   \* history: recent[a], the events allowed in this tick and the
             \* a ticks before it, by the time they were counted

vars == <<key, pc, lost, recent>>

(* Counts beyond the limit are all alike: the counter saturates one above. *)
Count == 1..(Max + 1)
Left == (0..Window) \cup {Never}
Ages == 0..(Window - 1)

ASSUME NeverAssumption == Never \notin Int
ASSUME AbsentAssumption == Absent \notin [count : Count, left : Left]

TypeOK ==
    /\ key \in [count : Count, left : Left] \cup {Absent}
    /\ pc \in [Caller -> {"idle", "expire", "ttl"}]
    /\ lost \in BOOLEAN
    /\ recent \in [Ages -> Nat]

Init ==
    /\ key = Absent
    /\ pc = [c \in Caller |-> "idle"]
    /\ lost = FALSE
    /\ recent = [a \in Ages |-> 0]

Goto(c, l) == pc' = [pc EXCEPT ![c] = l]

(* Mutant: count-1 <= max. *)
MutWithinOneMore(n) == n <= Max + 1

(* count <= int64(max) *)
Within(n) == n <= Max

(* The event with count n is part of every stretch that ends now. *)
Record(n) ==
    recent' = IF Within(n) THEN [a \in Ages |-> recent[a] + 1] ELSE recent

(* The count after this Incr. *)
NextCount == IF key = Absent THEN 1
             ELSE IF key.count > Max THEN key.count ELSE key.count + 1

(* Mutant: the expiry is set again by every event. *)
MutIncrRenews(c) ==
    /\ pc[c] = "idle"
    /\ key' = [count |-> NextCount, left |-> Window]
    /\ Goto(c, IF Within(NextCount) THEN "idle" ELSE "ttl")
    /\ Record(NextCount)
    /\ UNCHANGED lost

(* Mutant: the expiry is set by the first event over the limit. *)
MutExpireWhenOver(c) ==
    /\ pc[c] = "idle"
    /\ key' = [count |-> NextCount,
               left  |-> IF key = Absent THEN Never ELSE key.left]
    /\ Goto(c, IF ~Within(NextCount) THEN "expire" ELSE "idle")
    /\ Record(NextCount)
    /\ UNCHANGED lost

(* Incr keeps the expiry of a counter and creates one without. The event   *)
(* is dated here, when it is counted.                                      *)
Incr(c) ==
    /\ pc[c] = "idle"
    /\ key' = [count |-> NextCount,
               left  |-> IF key = Absent THEN Never ELSE key.left]
    /\ Goto(c, IF NextCount = 1 THEN "expire"
               ELSE IF Within(NextCount) THEN "idle" ELSE "ttl")
    /\ Record(NextCount)
    /\ UNCHANGED lost

(* The first event sets the window; the error of Expire is ignored. Its    *)
(* count is 1, within every limit (cfg defaults keep limits above 0).      *)
SetWindow(c) ==
    /\ pc[c] = "expire"
    /\ \/ /\ key' = IF key = Absent THEN Absent ELSE [key EXCEPT !.left = Window]
          /\ UNCHANGED lost
       \/ /\ lost' = TRUE
          /\ UNCHANGED key
    /\ Goto(c, "idle")
    /\ UNCHANGED recent

(* A denied call reads the TTL for its Retry-After, or falls back to the   *)
(* window; the seconds it makes of it are not modelled.                    *)
Deny(c) ==
    /\ pc[c] = "ttl"
    /\ Goto(c, "idle")
    /\ UNCHANGED <<key, lost, recent>>

(* The process of c dies in the middle of Allow. *)
Die(c) ==
    /\ pc[c] # "idle"
    /\ lost' = (lost \/ pc[c] = "expire")
    /\ Goto(c, "idle")
    /\ UNCHANGED <<key, recent>>

(* A counter that expires takes its history along. *)
Tick ==
    /\ key' = IF key = Absent THEN Absent
              ELSE IF key.left = Never THEN key
              ELSE IF key.left = 0 THEN Absent
              ELSE [key EXCEPT !.left = @ - 1]
    /\ lost' = (lost /\ key' # Absent)
    /\ recent' = [a \in Ages |-> IF a = 0 THEN 0 ELSE recent[a - 1]]
    /\ UNCHANGED pc

Next ==
    \/ \E c \in Caller : Incr(c) \/ SetWindow(c) \/ Deny(c) \/ Die(c)
    \/ Tick

Spec == Init /\ [][Next]_vars

(* Time passes, and a call of Allow comes to its end. *)
FairSpec ==
    /\ Spec
    /\ WF_vars(Tick)
    /\ \A c \in Caller : WF_vars(SetWindow(c)) /\ WF_vars(Deny(c))

-----------------------------------------------------------------------------
(* A fixed window is "accurate enough" (limiter.go 12-15): whatever the    *)
(* interleaving, lost expiries and deaths included, any stretch of time as *)
(* long as the window sees at most twice the limit allowed. (Events let    *)
(* through because Incr failed, limiter.go 39-41, are outside the limit.)  *)
TwiceTheLimit == recent[Window - 1] <= 2 * Max

(* A counter is without expiry only while the caller that created it is    *)
(* about to set it, or if that one call was lost (limiter.go 42-47):       *)
(* nothing other callers do in between takes its duty away.                *)
ExpiryUnderWay ==
    key # Absent /\ key.left = Never =>
        lost \/ \E c \in Caller : pc[c] = "expire"

(* Nobody is locked out for good: a counter over the limit is reset, even  *)
(* if callers keep trying, unless its expiry was lost, which the code puts *)
(* up with (limiter.go 43-45).                                             *)
Blocked == IF key = Absent THEN FALSE ELSE ~Within(key.count)
BlockedUntilReset == Blocked ~> ~Blocked \/ lost
=============================================================================
