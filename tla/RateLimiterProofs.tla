------------------------- MODULE RateLimiterProofs -------------------------
(***************************************************************************)
(* Proofs about RateLimiter for any number of callers, any limit and any   *)
(* window: types, whose duty the expiry of a counter is, that no window is *)
(* ever extended, and how much a fixed window lets through.                *)
(***************************************************************************)
EXTENDS RateLimiter, TLAPS

USE LimitAssumption, WindowAssumption, NeverAssumption, AbsentAssumption

LEMMA InitType == Init => TypeOK
<1> SUFFICES ASSUME Init PROVE TypeOK
  OBVIOUS
<1>1. key \in [count : Count, left : Left] \cup {Absent} /\ lost \in BOOLEAN
  BY DEF Init
<1>2. pc \in [Caller -> {"idle", "expire", "ttl"}]
  BY DEF Init
<1>3. recent \in [Ages -> Nat]
  BY DEF Init
<1> QED  BY <1>1, <1>2, <1>3 DEF TypeOK

(* A counter and its expiry stay in range. *)
LEMMA IncrType ==
    ASSUME TypeOK, NEW c \in Caller, Incr(c)
    PROVE  TypeOK'
<1>1. NextCount \in Count
  BY DEF TypeOK, NextCount, Count
<1>2. key = Absent \/ key.left \in Left
  BY DEF TypeOK
<1>3. key' \in [count : Count, left : Left] \cup {Absent}
  BY <1>1, <1>2 DEF Incr, Left
<1>4. pc' \in [Caller -> {"idle", "expire", "ttl"}]
  BY DEF TypeOK, Incr, Goto
<1>5. recent' \in [Ages -> Nat]
  BY DEF TypeOK, Incr, Record
<1> QED  BY <1>3, <1>4, <1>5 DEF TypeOK, Incr

LEMMA SetWindowType ==
    ASSUME TypeOK, NEW c \in Caller, SetWindow(c)
    PROVE  TypeOK'
<1>1. key' \in [count : Count, left : Left] \cup {Absent}
  BY DEF TypeOK, SetWindow, Left
<1> QED  BY <1>1 DEF TypeOK, SetWindow, Goto

LEMMA TickType ==
    ASSUME TypeOK, Tick
    PROVE  TypeOK'
<1>1. key' \in [count : Count, left : Left] \cup {Absent}
  <2>1. CASE key = Absent \/ key.left = Never \/ key.left = 0
    BY <2>1 DEF TypeOK, Tick
  <2>2. CASE key # Absent /\ key.left # Never /\ key.left # 0
    <3>1. key.left - 1 \in Left
      BY <2>2 DEF TypeOK, Left
    <3> QED  BY <2>2, <3>1 DEF TypeOK, Tick
  <2> QED  BY <2>1, <2>2
<1>2. recent' \in [Ages -> Nat]
  BY DEF TypeOK, Tick, Ages
<1> QED  BY <1>1, <1>2 DEF TypeOK, Tick

LEMMA TypeKept ==
    ASSUME TypeOK, [Next]_vars
    PROVE  TypeOK'
<1>1. ASSUME NEW c \in Caller, Deny(c) \/ Die(c) PROVE TypeOK'
  BY <1>1 DEF TypeOK, Deny, Die, Goto
<1>2. CASE UNCHANGED vars
  BY <1>2 DEF TypeOK, vars
<1> QED  BY <1>1, <1>2, IncrType, SetWindowType, TickType DEF Next

(* The counter saturates and the history has a cell for every tick of the  *)
(* window, and no more.                                                    *)
THEOREM TypeCorrect == Spec => []TypeOK
<1>1. Init => TypeOK
  BY InitType
<1> QED  BY <1>1, TypeKept, PTL DEF Spec

-----------------------------------------------------------------------------
(* Every step keeps the duty with the caller that created the counter, or  *)
(* records that it was lost.                                               *)
LEMMA DutyKept ==
    ASSUME TypeOK, ExpiryUnderWay, [Next]_vars
    PROVE  ExpiryUnderWay'
<1> SUFFICES ASSUME key' # Absent, key'.left = Never
             PROVE  lost' \/ \E c \in Caller : pc'[c] = "expire"
  BY DEF ExpiryUnderWay
<1>1. ASSUME NEW c \in Caller, Incr(c)
      PROVE  lost' \/ \E d \in Caller : pc'[d] = "expire"
  <2>1. CASE key = Absent
    <3>1. pc'[c] = "expire"
      BY <1>1, <2>1 DEF TypeOK, Incr, Goto, NextCount
    <3> QED  BY <3>1
  <2>2. CASE key # Absent
    <3>1. lost \/ \E d \in Caller : pc[d] = "expire"
      BY <1>1, <2>2 DEF ExpiryUnderWay, Incr
    <3> QED  BY <1>1, <3>1 DEF TypeOK, Incr, Goto
  <2> QED  BY <2>1, <2>2
<1>2. ASSUME NEW c \in Caller, SetWindow(c)
      PROVE  lost'
  <2>1. key'.left = Window \/ lost' = TRUE
    BY <1>2 DEF TypeOK, SetWindow
  <2>2. Window # Never
    OBVIOUS
  <2> QED  BY <2>1, <2>2
<1>3. ASSUME NEW c \in Caller, Deny(c)
      PROVE  lost' \/ \E d \in Caller : pc'[d] = "expire"
  BY <1>3 DEF TypeOK, ExpiryUnderWay, Deny, Goto
<1>4. ASSUME NEW c \in Caller, Die(c)
      PROVE  lost' \/ \E d \in Caller : pc'[d] = "expire"
  <2>1. /\ UNCHANGED key /\ pc' = [pc EXCEPT ![c] = "idle"]
        /\ lost' = (lost \/ pc[c] = "expire")
    BY <1>4 DEF Die, Goto
  <2>2. lost \/ \E d \in Caller : pc[d] = "expire"
    BY <2>1 DEF ExpiryUnderWay
  <2>3. CASE lost \/ pc[c] = "expire"
    BY <2>1, <2>3
  <2>4. CASE \E d \in Caller \ {c} : pc[d] = "expire"
    BY <2>1, <2>4 DEF TypeOK
  <2> QED  BY <2>2, <2>3, <2>4
<1>5. CASE Tick
  <2>1. key # Absent /\ key.left = Never
    BY <1>5 DEF TypeOK, Tick, Left
  <2>2. lost \/ \E d \in Caller : pc[d] = "expire"
    BY <2>1 DEF ExpiryUnderWay
  <2>3. UNCHANGED pc /\ (lost => lost')
    BY <1>5 DEF Tick
  <2> QED  BY <2>2, <2>3
<1>6. CASE UNCHANGED vars
  BY <1>6 DEF ExpiryUnderWay, vars
<1> QED  BY <1>1, <1>2, <1>3, <1>4, <1>5, <1>6 DEF Next

(* Nothing that other callers do between Incr and Expire takes the duty to *)
(* set the expiry away from the caller that created the counter.           *)
THEOREM ExpiryIsUnderWay == Spec => []ExpiryUnderWay
<1>1. Init => TypeOK /\ ExpiryUnderWay
  BY InitType DEF Init, ExpiryUnderWay
<1>2. TypeOK /\ ExpiryUnderWay /\ [Next]_vars => TypeOK' /\ ExpiryUnderWay'
  BY TypeKept, DutyKept
<1> QED  BY <1>1, <1>2, PTL DEF Spec

-----------------------------------------------------------------------------
(* The caller that owes a counter its expiry is the only one that does, and *)
(* the counter is still there, without expiry: it cannot have expired.     *)
DutyInv ==
    \A c \in Caller : pc[c] = "expire" =>
        /\ key # Absent /\ key.left = Never
        /\ \A d \in Caller : pc[d] = "expire" => d = c

LEMMA DutyInvKept ==
    ASSUME TypeOK, ExpiryUnderWay, DutyInv, [Next]_vars
    PROVE  DutyInv'
<1>1. ASSUME NEW c \in Caller, Incr(c) PROVE DutyInv'
  <2>1. CASE key = Absent
    <3>1. \A d \in Caller : pc[d] # "expire"
      BY <2>1 DEF DutyInv
    <3>2. key' = [count |-> NextCount, left |-> Never]
      BY <1>1, <2>1 DEF Incr
    <3>3. key' # Absent /\ key'.left = Never
      <4>1. NextCount \in Count
        BY DEF TypeOK, NextCount, Count
      <4> QED  BY <3>2, <4>1 DEF Left
    <3> QED  BY <1>1, <3>1, <3>3 DEF TypeOK, Incr, Goto, DutyInv
  <2>2. CASE key # Absent
    <3>1. NextCount # 1 /\ NextCount \in Count
      BY <2>2 DEF TypeOK, NextCount, Count
    <3>2. key' \in [count : Count, left : Left] /\ key'.left = key.left
      BY <1>1, <2>2, <3>1 DEF TypeOK, Incr
    <3>3. \A d \in Caller : pc'[d] = "expire" => pc[d] = "expire"
      BY <1>1, <3>1 DEF TypeOK, Incr, Goto
    <3> QED  BY <3>2, <3>3 DEF DutyInv
  <2> QED  BY <2>1, <2>2
<1>2. ASSUME NEW c \in Caller, SetWindow(c) \/ Die(c), pc[c] = "expire"
      PROVE  DutyInv'
  <2>1. \A d \in Caller : pc'[d] # "expire"
    BY <1>2 DEF TypeOK, SetWindow, Die, Goto, DutyInv
  <2> QED  BY <2>1 DEF DutyInv
<1>3. ASSUME NEW c \in Caller, Deny(c) \/ Die(c), pc[c] # "expire"
      PROVE  DutyInv'
  <2>1. /\ UNCHANGED key
        /\ \A d \in Caller : pc'[d] = "expire" => pc[d] = "expire"
    BY <1>3 DEF TypeOK, Deny, Die, Goto
  <2> QED  BY <2>1 DEF DutyInv
<1>4. CASE Tick
  BY <1>4 DEF TypeOK, Tick, DutyInv
<1>5. CASE UNCHANGED vars
  BY <1>5 DEF vars, DutyInv
<1> QED
  BY <1>1, <1>2, <1>3, <1>4, <1>5 DEF Next, SetWindow, Deny

(* A window, once set, only runs down: the expiry that a caller sets is    *)
(* always the first of its counter (limiter.go 42-47).                     *)
NoRenewal ==
    key # Absent /\ key.left # Never /\ key' # Absent =>
        key'.left \in Int /\ key'.left <= key.left

(* However slow the caller that owes the expiry, no window is extended by  *)
(* events that keep coming, and no later window is cut short: Expire never *)
(* reaches a counter that has an expiry.                                   *)
THEOREM NoWindowIsRenewed == Spec => [][NoRenewal]_vars
<1>1. Init => TypeOK /\ ExpiryUnderWay /\ DutyInv
  BY InitType DEF Init, ExpiryUnderWay, DutyInv
<1>2. TypeOK /\ ExpiryUnderWay /\ DutyInv /\ [Next]_vars =>
        TypeOK' /\ ExpiryUnderWay' /\ DutyInv'
  BY TypeKept, DutyKept, DutyInvKept
<1>3. TypeOK /\ DutyInv /\ [Next]_vars => [NoRenewal]_vars
  <2> SUFFICES ASSUME TypeOK, DutyInv, Next,
                      key # Absent, key.left # Never, key' # Absent
               PROVE  key'.left \in Int /\ key'.left <= key.left
    BY DEF NoRenewal
  <2>1. key.left \in Int
    BY DEF TypeOK, Left
  <2>2. ASSUME NEW c \in Caller, Incr(c) PROVE key'.left = key.left
    BY <2>2 DEF Incr
  <2>3. ASSUME NEW c \in Caller, SetWindow(c) PROVE FALSE
    BY <2>3 DEF SetWindow, DutyInv
  <2>4. ASSUME NEW c \in Caller, Deny(c) \/ Die(c) PROVE key'.left = key.left
    BY <2>4 DEF Deny, Die
  <2>5. CASE Tick
    <3>1. key' = [key EXCEPT !.left = @ - 1]
      BY <2>5 DEF Tick
    <3>2. key'.left = key.left - 1
      BY <3>1 DEF TypeOK
    <3> QED  BY <2>1, <3>2
  <2> QED  BY <2>1, <2>2, <2>3, <2>4, <2>5 DEF Next
<1> QED  BY <1>1, <1>2, <1>3, PTL DEF Spec

-----------------------------------------------------------------------------
(* What the counter has let through: it stops at the limit. *)
Used == IF key.count > Max THEN Max ELSE key.count

(* The inductive invariant behind the bound. Longer stretches saw more; a  *)
(* stretch that began after the window did saw no more than the counter    *)
(* let through; and what is older, of the window before, adds at most one  *)
(* limit, because a counter starts only when the one before it has gone.   *)
WindowInv ==
    /\ \A a, b \in Ages : a <= b => recent[a] <= recent[b]
    /\ key = Absent => recent[Window - 1] <= Max
    /\ key # Absent => recent[Window - 1] <= Max + Used
    /\ key # Absent /\ key.left # Never =>
          \A a \in Ages : a < Window - key.left => recent[a] <= Used

LEMMA LastAge == Window - 1 \in Ages
BY DEF Ages

(* An event that is allowed is one more in every stretch and in the        *)
(* counter; one that is denied is in neither.                              *)
LEMMA WindowIncr ==
    ASSUME TypeOK, WindowInv, NEW c \in Caller, Incr(c)
    PROVE  WindowInv'
<1>1. NextCount \in Count
  BY DEF TypeOK, NextCount, Count
<1>2. recent \in [Ages -> Nat]
  BY DEF TypeOK
<1>3. key' \in [count : Count, left : Left] /\ key' # Absent /\ key'.count = NextCount
  BY <1>1 DEF TypeOK, Incr, Left
<1>4. \A a, b \in Ages : a <= b => recent'[a] <= recent'[b]
  BY <1>2 DEF Incr, Record, WindowInv
<1>5. CASE key = Absent
  <2>1. NextCount = 1 /\ Used' = 1 /\ key'.left = Never
    BY <1>3, <1>5 DEF Used, NextCount, Incr
  <2>2. recent' = [a \in Ages |-> recent[a] + 1]
    BY <2>1 DEF Incr, Record, Within
  <2>3. recent'[Window - 1] <= Max + 1
    BY <1>2, <1>5, <2>2, LastAge DEF WindowInv
  <2> QED  BY <1>3, <1>4, <2>1, <2>3 DEF WindowInv
<1>6. CASE key # Absent
  <2>1. key.count \in Count /\ Used \in Nat
    BY <1>6 DEF TypeOK, Used, Count
  <2>2. key'.left = key.left
    BY <1>6 DEF Incr
  <2>3. CASE key.count < Max
    <3>1. Used' = Used + 1
      BY <1>3, <1>6, <2>1, <2>3 DEF Used, NextCount, Count
    <3>2. \A a \in Ages : recent'[a] = recent[a] + 1
      BY <1>6, <2>1, <2>3 DEF Incr, Record, Within, NextCount, Count
    <3>3. recent'[Window - 1] <= Max + Used'
      BY <1>2, <1>6, <2>1, <3>1, <3>2, LastAge DEF WindowInv
    <3>4. key.left # Never =>
            \A a \in Ages : a < Window - key.left => recent'[a] <= Used'
      BY <1>2, <1>6, <2>1, <3>1, <3>2 DEF WindowInv
    <3> QED  BY <1>3, <1>4, <2>2, <3>3, <3>4 DEF WindowInv
  <2>4. CASE ~(key.count < Max)
    <3>1. Used' = Used
      BY <1>3, <1>6, <2>1, <2>4 DEF Used, NextCount, Count
    <3>2. recent' = recent
      BY <1>6, <2>1, <2>4 DEF Incr, Record, Within, NextCount, Count
    <3> QED  BY <1>3, <1>4, <1>6, <2>2, <3>1, <3>2 DEF WindowInv
  <2> QED  BY <2>3, <2>4
<1> QED  BY <1>5, <1>6

LEMMA WindowSet ==
    ASSUME TypeOK, WindowInv, NEW c \in Caller, SetWindow(c)
    PROVE  WindowInv'
<1>1. CASE key' = key
  BY <1>1 DEF SetWindow, WindowInv, Used
<1>2. CASE key # Absent /\ key' = [key EXCEPT !.left = Window]
  <2>1. /\ key' \in [count : Count, left : Left] /\ key' # Absent
        /\ key'.left = Window /\ key'.count = key.count
    BY <1>2 DEF TypeOK, Left
  <2>2. Used' = Used
    BY <2>1 DEF Used
  <2>3. \A a \in Ages : ~(a < Window - Window)
    BY DEF Ages
  <2> QED  BY <1>2, <2>1, <2>2, <2>3 DEF SetWindow, WindowInv
<1> QED  BY <1>1, <1>2 DEF SetWindow

(* A tick moves every stretch back; the last tick of a window leaves the   *)
(* next counter at most what the window let through.                       *)
LEMMA WindowTick ==
    ASSUME TypeOK, WindowInv, Tick
    PROVE  WindowInv'
<1>1. recent \in [Ages -> Nat] /\ recent' \in [Ages -> Nat]
  BY TickType DEF TypeOK
<1>2. \A a \in Ages : a = 0 => recent'[a] = 0
  BY DEF Tick
<1>3. \A a \in Ages : a # 0 => a - 1 \in Ages /\ recent'[a] = recent[a - 1]
  BY DEF Tick, Ages
<1>4. \A a, b \in Ages : a <= b => recent'[a] <= recent'[b]
  <2> SUFFICES ASSUME NEW a \in Ages, NEW b \in Ages, a <= b
               PROVE  recent'[a] <= recent'[b]
    OBVIOUS
  <2>1. a \in Nat /\ b \in Nat
    BY DEF Ages
  <2>2. CASE a = 0
    BY <1>1, <1>2, <2>2
  <2>3. CASE a # 0
    <3>1. b # 0 /\ a - 1 <= b - 1
      BY <2>1, <2>3
    <3>2. recent[a - 1] <= recent[b - 1]
      BY <1>3, <2>3, <3>1 DEF WindowInv
    <3> QED  BY <1>3, <2>3, <3>1, <3>2
  <2> QED  BY <2>2, <2>3
<1>5. recent'[Window - 1] <= recent[Window - 1]
  <2>1. CASE Window = 1
    BY <1>1, <1>2, <2>1, LastAge
  <2>2. CASE Window # 1
    <3>1. Window - 1 # 0 /\ (Window - 1) - 1 <= Window - 1
      BY <2>2
    <3>2. (Window - 1) - 1 \in Ages
      BY <1>3, <3>1, LastAge
    <3> QED  BY <1>3, <3>1, <3>2, LastAge DEF WindowInv
  <2> QED  BY <2>1, <2>2
<1>6. recent[Window - 1] \in Nat /\ recent'[Window - 1] \in Nat
  BY <1>1, LastAge
<1>7. CASE key = Absent
  BY <1>4, <1>5, <1>6, <1>7 DEF Tick, WindowInv
<1>8. CASE key # Absent /\ key.left = Never
  <2>1. key' = key /\ Used \in Nat /\ Used' = Used
    BY <1>8 DEF Tick, Used, TypeOK, Count
  <2> QED  BY <1>4, <1>5, <1>6, <1>8, <2>1 DEF WindowInv
<1>9. CASE key # Absent /\ key.left = 0
  <2>1. key' = Absent /\ 0 # Never
    BY <1>9 DEF Tick
  <2>2. key.count \in Count /\ Used \in Nat /\ Used <= Max
    BY <1>9 DEF TypeOK, Used, Count
  <2>3. recent[Window - 1] <= Used
    BY <1>9, <2>1, LastAge DEF WindowInv
  <2> QED  BY <1>4, <1>5, <1>6, <2>1, <2>2, <2>3 DEF WindowInv
<1>10. CASE key # Absent /\ key.left # Never /\ key.left # 0
  <2>1. /\ key.left \in Nat /\ key.left - 1 \in Left /\ key.left - 1 # Never
        /\ key.count \in Count /\ Used \in Nat
    BY <1>10 DEF TypeOK, Left, Used, Count
  <2>2. /\ key' \in [count : Count, left : Left] /\ key' # Absent
        /\ key'.left = key.left - 1 /\ key'.count = key.count
    BY <1>10, <2>1 DEF TypeOK, Tick
  <2>3. Used' = Used
    BY <2>2 DEF Used
  <2>4. ASSUME NEW a \in Ages, a < Window - key'.left PROVE recent'[a] <= Used
    <3>1. CASE a = 0
      BY <1>2, <2>1, <3>1
    <3>2. CASE a # 0
      <4>1. a - 1 \in Ages /\ a - 1 < Window - key.left
        BY <1>3, <2>1, <2>2, <2>4, <3>2 DEF Ages
      <4> QED  BY <1>3, <1>10, <3>2, <4>1 DEF WindowInv
    <3> QED  BY <3>1, <3>2
  <2> QED  BY <1>4, <1>5, <1>6, <1>10, <2>1, <2>2, <2>3, <2>4 DEF WindowInv
<1> QED  BY <1>7, <1>8, <1>9, <1>10

LEMMA WindowKept ==
    ASSUME TypeOK, WindowInv, [Next]_vars
    PROVE  WindowInv'
<1>1. ASSUME NEW c \in Caller, Deny(c) \/ Die(c) PROVE WindowInv'
  BY <1>1 DEF Deny, Die, WindowInv, Used
<1>2. CASE UNCHANGED vars
  BY <1>2 DEF vars, WindowInv, Used
<1> QED
  BY <1>1, <1>2, WindowIncr, WindowSet, WindowTick DEF Next

(* The bound of a fixed window for every limit, window and number of       *)
(* callers, lost expiries and deaths between two calls of the store        *)
(* included: any stretch as long as the window sees at most twice the      *)
(* limit (limiter.go 12-15, 37-57).                                        *)
THEOREM AtMostTwiceTheLimit == Spec => []TwiceTheLimit
<1>1. Init => TypeOK /\ WindowInv
  BY InitType, LastAge DEF Init, WindowInv
<1>2. TypeOK /\ WindowInv /\ [Next]_vars => TypeOK' /\ WindowInv'
  BY TypeKept, WindowKept
<1>3. TypeOK /\ WindowInv => TwiceTheLimit
  <2> SUFFICES ASSUME TypeOK, WindowInv PROVE TwiceTheLimit
    OBVIOUS
  <2>1. recent[Window - 1] \in Nat
    BY LastAge DEF TypeOK
  <2>2. CASE key = Absent
    BY <2>1, <2>2 DEF WindowInv, TwiceTheLimit
  <2>3. CASE key # Absent
    <3>1. Used \in Nat /\ Used <= Max
      BY <2>3 DEF TypeOK, Used, Count
    <3> QED  BY <2>1, <2>3, <3>1 DEF WindowInv, TwiceTheLimit
  <2> QED  BY <2>2, <2>3
<1> QED  BY <1>1, <1>2, <1>3, PTL DEF Spec
=============================================================================
