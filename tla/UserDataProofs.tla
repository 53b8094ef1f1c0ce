---------------------------- MODULE UserDataProofs ----------------------------
(***************************************************************************)
(* Proofs about UserData and UserDataAudit, for any number of requests and *)
(* any configurations, with or without faults: why a cached receiver may   *)
(* differ from the registered one.                                         *)
(***************************************************************************)
EXTENDS UserDataAudit, TLAPS

USE SentinelsAssumption

ReqTypes ==
    /\ pc \in [Req -> PC]
    /\ route \in [Req -> Route]
    /\ slot \in [Req -> Slot]
    /\ val \in [Req -> Config \cup {NoConfig, Failed}]

(* Only the webhook's lookup goes on with a SELECT that failed. *)
FailedAt(r) == pc[r] = "fill" /\ val[r] = Failed => slot[r] = "webhook"

UserDataInv == TypeOK /\ \A r \in Req : FailedAt(r)

LEMMA InitInv == Init => UserDataInv
<1> SUFFICES ASSUME Init PROVE UserDataInv
  OBVIOUS
<1>1. TypeOK
  BY DEF Init, TypeOK, Slot, PC, Route
<1> QED
  BY <1>1 DEF Init, UserDataInv, FailedAt

-----------------------------------------------------------------------------
(* What a step of r leaves to the other requests. *)
Others(r) ==
    \A q \in Req : q # r =>
        pc'[q] = pc[q] /\ slot'[q] = slot[q] /\ val'[q] = val[q]

(* What every step of r amounts to. *)
StepOf(r) == ReqTypes' /\ Others(r) /\ FailedAt(r)'

LEMMA GotoEffect ==
    ASSUME TypeOK, NEW r \in Req, NEW l \in PC, Goto(r, l),
           route' \in [Req -> Route], UNCHANGED <<slot, val>>, l # "fill"
    PROVE  StepOf(r) /\ pc'[r] = l
BY DEF TypeOK, Goto, StepOf, ReqTypes, Others, FailedAt

LEMMA FinishEffect ==
    ASSUME TypeOK, NEW r \in Req, Finish(r)
    PROVE  StepOf(r) /\ pc'[r] = "idle"
BY DEF TypeOK, Finish, Goto, StepOf, ReqTypes, Others, FailedAt, PC, Route, Slot

LEMMA NextLookupEffect ==
    ASSUME TypeOK, NEW r \in Req, NextLookup(r)
    PROVE  StepOf(r) /\ pc'[r] \in {"get", "idle"}
<1>1. CASE /\ Goto(r, "get")
           /\ slot' = [slot EXCEPT ![r] = "openclaw"]
           /\ val' = [val EXCEPT ![r] = NoConfig]
           /\ UNCHANGED route
  BY <1>1 DEF TypeOK, Goto, StepOf, ReqTypes, Others, FailedAt, PC, Slot
<1>2. CASE Finish(r)
  BY <1>2, FinishEffect
<1> QED
  BY <1>1, <1>2 DEF NextLookup

LEMMA LookedUpEffect ==
    ASSUME TypeOK, NEW r \in Req, NEW c, LookedUp(r, c)
    PROVE  StepOf(r) /\ pc'[r] \in {"record", "get", "idle"}
<1>1. CASE /\ Goto(r, "record")
           /\ val' = [val EXCEPT ![r] = NoConfig]
           /\ UNCHANGED <<route, slot>>
  BY <1>1 DEF TypeOK, Goto, StepOf, ReqTypes, Others, FailedAt, PC
<1>2. CASE NextLookup(r)
  BY <1>2, NextLookupEffect
<1> QED
  BY <1>1, <1>2 DEF LookedUp

LEMMA StepInv ==
    ASSUME UserDataInv, NEW r \in Req, StepOf(r),
           account' \in {"live", "lingering", "gone"},
           row' \in [Slot -> Config \cup {NoConfig}],
           cache' \in [Slot -> Config \cup {NoConfig, Absent}],
           loc' \in BOOLEAN, intg' \in BOOLEAN
    PROVE  UserDataInv'
<1>1. TypeOK'
  BY DEF TypeOK, StepOf, ReqTypes
<1>2. \A q \in Req : FailedAt(q)'
  BY DEF UserDataInv, StepOf, Others, FailedAt
<1> QED
  BY <1>1, <1>2 DEF UserDataInv

-----------------------------------------------------------------------------
(* The steps that change neither a row nor a cached entry, and by no       *)
(* request that is about to delete one.                                    *)
Still(r) ==
    /\ StepOf(r) /\ UNCHANGED <<row, cache>>
    /\ pc[r] # "invalidate"

(* What the other steps do to the entry of s. *)
Fills(r) ==
    /\ StepOf(r) /\ UNCHANGED row
    /\ pc[r] = "fill" /\ pc'[r] # "fill"
    /\ \/ cache' = [cache EXCEPT ![slot[r]] = Cached(val[r])]
       \/ UNCHANGED cache
Writes(r) ==
    /\ StepOf(r) /\ UNCHANGED cache
    /\ pc[r] = "write_row" /\ pc'[r] = "invalidate" /\ slot'[r] = slot[r]
    /\ \E c \in Config \cup {NoConfig} : row' = [row EXCEPT ![slot[r]] = c]
Clears(r) ==
    /\ StepOf(r) /\ UNCHANGED row
    /\ \/ cache' = [cache EXCEPT ![slot[r]] = Absent]
       \/ Faulty /\ UNCHANGED cache
    /\ pc[r] = "invalidate" => pc'[r] = "idle"
Erases(r) ==
    /\ StepOf(r) /\ UNCHANGED cache
    /\ pc[r] = "erase" /\ pc'[r] = "idle"
    /\ row' = [s \in Slot |-> NoConfig] \/ UNCHANGED row
Expires ==
    /\ UNCHANGED <<row, reqVars>>
    /\ \/ \E s \in Slot : cache' = [cache EXCEPT ![s] = Absent]
       \/ UNCHANGED cache

Kinds ==
    \/ \E r \in Req : Still(r) \/ Fills(r) \/ Writes(r) \/ Clears(r) \/ Erases(r)
    \/ Expires

LEMMA CachedOK ==
    ASSUME NEW v \in Config \cup {NoConfig, Failed}
    PROVE  Cached(v) \in Config \cup {NoConfig}
BY DEF Cached

LEMMA ArriveKind ==
    ASSUME UserDataInv, NEW r \in Req, NEW o \in Route, NEW s \in Slot, Arrive(r, o, s)
    PROVE  UserDataInv' /\ Still(r)
<1> USE DEF UserDataInv
<1>0. /\ pc[r] = "idle" /\ Goto(r, Entry(o, s))
      /\ route' = [route EXCEPT ![r] = o] /\ slot' = [slot EXCEPT ![r] = s]
      /\ UNCHANGED <<account, row, cache, loc, intg, val>>
  BY DEF Arrive
<1>1. Entry(o, s) \in PC /\ Entry(o, s) # "fill"
  BY DEF Entry, PC, Route, Slot
<1>2. StepOf(r)
  BY <1>0, <1>1 DEF TypeOK, Goto, StepOf, ReqTypes, Others, FailedAt
<1> QED
  BY <1>0, <1>2, StepInv DEF Still, TypeOK

LEMMA LookupKind ==
    ASSUME UserDataInv, NEW r \in Req,
           WriteLocation(r) \/ Record(r) \/ CacheHit(r) \/ CacheMiss(r) \/ Probe(r)
    PROVE  UserDataInv' /\ Still(r)
<1> USE DEF UserDataInv
<1>1. /\ UNCHANGED <<account, row, cache>> /\ loc' \in BOOLEAN /\ intg' \in BOOLEAN
      /\ pc[r] # "invalidate"
  BY DEF TypeOK, WriteLocation, Record, CacheHit, CacheMiss, Probe
<1>2. StepOf(r)
  <2>1. CASE \E l \in {"get", "select", "write_row"} :
                 Goto(r, l) /\ UNCHANGED <<route, slot, val>>
    BY <2>1, GotoEffect DEF PC, TypeOK
  <2>2. CASE Finish(r)
    BY <2>2, FinishEffect
  <2>3. CASE NextLookup(r)
    BY <2>3, NextLookupEffect
  <2>4. CASE LookedUp(r, cache[slot[r]])
    BY <2>4, LookedUpEffect
  <2> QED
    BY <2>1, <2>2, <2>3, <2>4 DEF WriteLocation, Record, CacheHit, CacheMiss, Probe
<1> QED
  BY <1>1, <1>2, StepInv DEF Still, TypeOK

LEMMA SelectConfigKind ==
    ASSUME UserDataInv, NEW r \in Req, SelectConfig(r)
    PROVE  UserDataInv' /\ Still(r)
<1> USE DEF UserDataInv
<1>0. pc[r] = "select" /\ UNCHANGED <<account, row, cache, loc, intg>>
  BY DEF SelectConfig
<1>1. slot[r] \in Slot /\ row[slot[r]] \in Config \cup {NoConfig}
  BY DEF TypeOK
<1>2. StepOf(r)
  <2>1. CASE /\ val' = [val EXCEPT ![r] = row[slot[r]]]
             /\ Goto(r, "fill") /\ UNCHANGED <<route, slot>>
    BY <1>1, <2>1 DEF TypeOK, Goto, StepOf, ReqTypes, Others, FailedAt, PC
  <2>2. CASE /\ slot[r] = "webhook" /\ val' = [val EXCEPT ![r] = Failed]
             /\ Goto(r, "fill") /\ UNCHANGED <<route, slot>>
    BY <2>2 DEF TypeOK, Goto, StepOf, ReqTypes, Others, FailedAt, PC
  <2>3. CASE NextLookup(r)
    BY <2>3, NextLookupEffect
  <2> QED
    BY <2>1, <2>2, <2>3 DEF SelectConfig
<1> QED
  BY <1>0, <1>2, StepInv DEF Still, TypeOK

LEMMA FillCacheKind ==
    ASSUME UserDataInv, NEW r \in Req, FillCache(r)
    PROVE  UserDataInv' /\ Fills(r)
<1> USE DEF UserDataInv
<1>0. /\ pc[r] = "fill" /\ UNCHANGED <<account, row, loc, intg>>
      /\ \/ cache' = [cache EXCEPT ![slot[r]] = Cached(val[r])]
         \/ UNCHANGED cache
  BY DEF FillCache
<1>1. StepOf(r) /\ pc'[r] # "fill"
  BY LookedUpEffect DEF FillCache
<1>2. cache' \in [Slot -> Config \cup {NoConfig, Absent}]
  <2>1. slot[r] \in Slot /\ Cached(val[r]) \in Config \cup {NoConfig}
    BY CachedOK DEF TypeOK
  <2> QED
    BY <1>0, <2>1 DEF TypeOK
<1> QED
  BY <1>0, <1>1, <1>2, StepInv DEF Fills, TypeOK

LEMMA WriteRowKind ==
    ASSUME UserDataInv, NEW r \in Req, WriteRow(r)
    PROVE  UserDataInv' /\ (Writes(r) \/ Still(r))
<1> USE DEF UserDataInv
<1>0. pc[r] = "write_row" /\ UNCHANGED <<account, cache, loc, intg>>
  BY DEF WriteRow
<1>1. CASE Finish(r) /\ UNCHANGED row
  BY <1>0, <1>1, FinishEffect, StepInv DEF Still, TypeOK
<1>2. CASE /\ Goto(r, "invalidate") /\ UNCHANGED <<route, slot, val>>
           /\ \E c \in Config \cup {NoConfig} : row' = [row EXCEPT ![slot[r]] = c]
  <2>1. StepOf(r) /\ pc'[r] = "invalidate"
    BY <1>2, GotoEffect DEF PC, TypeOK
  <2>2. row' \in [Slot -> Config \cup {NoConfig}]
    BY <1>2 DEF TypeOK
  <2> QED
    BY <1>0, <1>2, <2>1, <2>2, StepInv DEF Writes, TypeOK
<1> QED
  BY <1>1, <1>2 DEF WriteRow

LEMMA ClearKind ==
    ASSUME UserDataInv, NEW r \in Req, Invalidate(r) \/ Evict(r)
    PROVE  UserDataInv' /\ Clears(r)
<1> USE DEF UserDataInv
<1>0. /\ DelEntry(r) /\ UNCHANGED <<account, row, loc, intg>>
      /\ pc[r] \in {"invalidate", "evict"}
  BY DEF Invalidate, Evict
<1>1. cache' \in [Slot -> Config \cup {NoConfig, Absent}]
  BY <1>0 DEF DelEntry, TypeOK
<1>2. CASE Invalidate(r)
  <2>1. StepOf(r) /\ pc'[r] = "idle"
    BY <1>2, FinishEffect DEF Invalidate
  <2> QED
    BY <1>0, <1>1, <2>1, StepInv DEF Clears, DelEntry, TypeOK
<1>3. CASE Evict(r)
  <2>1. StepOf(r)
    <3>1. CASE slot' = [slot EXCEPT ![r] = "openclaw"] /\ UNCHANGED pc
      BY <1>3, <3>1 DEF Evict, TypeOK, StepOf, ReqTypes, Others, FailedAt, Slot
    <3>2. CASE Goto(r, "drop_loc") /\ UNCHANGED slot
      BY <1>3, <3>2, GotoEffect DEF Evict, TypeOK, PC
    <3> QED
      BY <1>3, <3>1, <3>2 DEF Evict
  <2> QED
    BY <1>0, <1>1, <1>3, <2>1, StepInv DEF Clears, DelEntry, TypeOK, Evict
<1> QED
  BY <1>2, <1>3

LEMMA RemoveKind ==
    ASSUME UserDataInv, NEW r \in Req, DropLocation(r) \/ EraseUser(r) \/ Abort(r)
    PROVE  UserDataInv' /\ (Still(r) \/ Erases(r) \/ Clears(r))
<1> USE DEF UserDataInv
<1>1. CASE DropLocation(r)
  <2>1. StepOf(r)
    BY <1>1, GotoEffect DEF DropLocation, PC, TypeOK
  <2> QED
    BY <1>1, <2>1, StepInv DEF DropLocation, Still, TypeOK
<1>2. CASE EraseUser(r)
  <2>1. StepOf(r) /\ pc'[r] = "idle"
    BY <1>2, FinishEffect DEF EraseUser
  <2>2. /\ row' = [s \in Slot |-> NoConfig] \/ UNCHANGED row
        /\ account' \in {"live", "lingering", "gone"}
    BY <1>2 DEF EraseUser, TypeOK
  <2>3. row' \in [Slot -> Config \cup {NoConfig}]
    BY <2>2 DEF TypeOK
  <2> QED
    BY <1>2, <2>1, <2>2, <2>3, StepInv DEF EraseUser, Erases, TypeOK
<1>3. CASE Abort(r)
  <2>1. StepOf(r) /\ pc'[r] = "idle"
    BY <1>3, FinishEffect DEF Abort
  <2> QED
    BY <1>3, <2>1, StepInv DEF Abort, Still, Clears, TypeOK
<1> QED
  BY <1>1, <1>2, <1>3

LEMMA ExpireKind ==
    ASSUME UserDataInv,
           \/ \E s \in Slot : Expire(s)
           \/ ExpireLocation \/ ExpireRecord \/ Lapse \/ UNCHANGED vars
    PROVE  UserDataInv' /\ Expires
<1> USE DEF UserDataInv
<1>1. /\ UNCHANGED <<row, reqVars>>
      /\ \/ \E s \in Slot : cache' = [cache EXCEPT ![s] = Absent]
         \/ UNCHANGED cache
      /\ loc' \in BOOLEAN /\ intg' \in BOOLEAN
      /\ account' \in {"live", "lingering", "gone"}
  BY DEF Expire, ExpireLocation, ExpireRecord, Lapse, vars, reqVars, TypeOK
<1>2. TypeOK'
  BY <1>1 DEF TypeOK, reqVars
<1> QED
  BY <1>1, <1>2 DEF Expires, FailedAt, reqVars

LEMMA NextInv ==
    ASSUME UserDataInv, [Next]_vars PROVE UserDataInv' /\ Kinds
<1>1. CASE \E r \in Req, o \in Route, s \in Slot : Arrive(r, o, s)
  BY <1>1, ArriveKind DEF Kinds
<1>2. CASE \E r \in Req : Step(r)
  BY <1>2, LookupKind, SelectConfigKind, FillCacheKind, WriteRowKind, ClearKind,
     RemoveKind DEF Step, Kinds
<1>3. CASE \E r \in Req : Abort(r)
  BY <1>3, RemoveKind DEF Kinds
<1>4. CASE \/ \E s \in Slot : Expire(s)
           \/ ExpireLocation \/ ExpireRecord \/ Lapse \/ UNCHANGED vars
  BY <1>4, ExpireKind DEF Kinds
<1> QED
  BY <1>1, <1>2, <1>3, <1>4 DEF Next

-----------------------------------------------------------------------------
(* The bookkeeping of the audit. *)
Recorded(s) ==
    why'[s] = IF cache'[s] \in {Absent, row'[s]} THEN {}
              ELSE IF why[s] # {} THEN why[s]
              ELSE {e \in Reason : \E r \in Req : HappensBy(r, e, s)}

Differs(s) == cache[s] \notin {Absent, row[s]}
Explained(s) ==
    Differs(s) => why[s] # {} \/ \E q \in Req : pc[q] = "invalidate" /\ slot[q] = s

(* An entry that differs has a reason once something happens to it that is *)
(* one, and keeps the reason it has.                                       *)
LEMMA ReasonKept ==
    ASSUME NEW s \in Slot, Recorded(s), Differs(s)',
           \/ why[s] # {}
           \/ \E e \in Reason, r \in Req : HappensBy(r, e, s)
    PROVE  why'[s] # {}
BY DEF Recorded, Differs

LEMMA StillExplained ==
    ASSUME UserDataInv, NEW s \in Slot, Explained(s), Recorded(s),
           NEW r \in Req, Still(r)
    PROVE  Explained(s)'
<1> SUFFICES ASSUME Differs(s)'
             PROVE  why'[s] # {} \/ \E q \in Req : pc'[q] = "invalidate" /\ slot'[q] = s
  BY DEF Explained
<1>1. Differs(s)
  BY DEF Still, Differs
<1>2. CASE why[s] # {}
  BY <1>2, ReasonKept
<1>3. ASSUME NEW q \in Req, pc[q] = "invalidate", slot[q] = s
      PROVE  pc'[q] = "invalidate" /\ slot'[q] = s
  BY <1>3 DEF Still, StepOf, Others
<1> QED
  BY <1>1, <1>2, <1>3 DEF Explained

LEMMA FillExplained ==
    ASSUME UserDataInv, NEW s \in Slot, Explained(s), Recorded(s),
           NEW r \in Req, Fills(r)
    PROVE  Explained(s)'
<1> SUFFICES ASSUME Differs(s)'
             PROVE  why'[s] # {} \/ \E q \in Req : pc'[q] = "invalidate" /\ slot'[q] = s
  BY DEF Explained
<1>1. slot[r] \in Slot /\ val[r] \in Config \cup {NoConfig, Failed}
  BY DEF UserDataInv, TypeOK
<1>2. CASE cache'[s] = cache[s]
  <2>1. Differs(s)
    BY <1>2 DEF Fills, Differs
  <2>2. ASSUME NEW q \in Req, pc[q] = "invalidate", slot[q] = s
        PROVE  pc'[q] = "invalidate" /\ slot'[q] = s
    BY <2>2 DEF Fills, StepOf, Others
  <2> QED
    BY <2>1, <2>2, ReasonKept DEF Explained
<1>3. CASE cache'[s] # cache[s]
  <2>1. slot[r] = s /\ cache'[s] = Cached(val[r]) /\ row'[s] = row[s]
    BY <1>1, <1>3 DEF Fills, UserDataInv, TypeOK
  <2>2. CASE val[r] = Failed
    <3>1. s = "webhook"
      BY <2>1, <2>2 DEF UserDataInv, FailedAt, Fills
    <3>2. HappensBy(r, "error_cached", s)
      BY <2>1, <2>2, <3>1 DEF HappensBy, Fills, Cached
    <3> QED
      BY <3>2, ReasonKept DEF Reason
  <2>3. CASE val[r] # Failed
    <3>1. cache'[s] = val[r] /\ val[r] # row[s]
      BY <2>1, <2>3 DEF Cached, Differs
    <3>2. HappensBy(r, "late_fill", s)
      BY <2>1, <2>3, <3>1 DEF HappensBy, Fills
    <3> QED
      BY <3>2, ReasonKept DEF Reason
  <2> QED
    BY <2>2, <2>3
<1> QED
  BY <1>2, <1>3

LEMMA WriteExplained ==
    ASSUME UserDataInv, NEW s \in Slot, Explained(s), Recorded(s),
           NEW r \in Req, Writes(r)
    PROVE  Explained(s)'
<1> SUFFICES ASSUME Differs(s)'
             PROVE  why'[s] # {} \/ \E q \in Req : pc'[q] = "invalidate" /\ slot'[q] = s
  BY DEF Explained
<1>1. CASE slot[r] = s
  BY <1>1 DEF Writes
<1>2. CASE slot[r] # s
  <2>1. row'[s] = row[s]
    BY <1>2 DEF Writes, UserDataInv, TypeOK
  <2>2. Differs(s)
    BY <2>1 DEF Writes, Differs
  <2>3. ASSUME NEW q \in Req, pc[q] = "invalidate", slot[q] = s
        PROVE  pc'[q] = "invalidate" /\ slot'[q] = s
    BY <2>3 DEF Writes, StepOf, Others
  <2> QED
    BY <2>2, <2>3, ReasonKept DEF Explained
<1> QED
  BY <1>1, <1>2

LEMMA ClearExplained ==
    ASSUME UserDataInv, NEW s \in Slot, Explained(s), Recorded(s),
           NEW r \in Req, Clears(r)
    PROVE  Explained(s)'
<1> SUFFICES ASSUME Differs(s)'
             PROVE  why'[s] # {} \/ \E q \in Req : pc'[q] = "invalidate" /\ slot'[q] = s
  BY DEF Explained
<1>1. slot[r] \in Slot
  BY DEF UserDataInv, TypeOK
<1>2. cache'[s] = cache[s] /\ row'[s] = row[s]
  BY <1>1 DEF Clears, Differs, UserDataInv, TypeOK
<1>3. slot[r] = s => Faulty
  BY <1>1 DEF Clears, Differs, UserDataInv, TypeOK
<1>4. CASE pc[r] = "invalidate" /\ slot[r] = s
  <2>1. HappensBy(r, "del_lost", s)
    BY <1>2, <1>3, <1>4 DEF HappensBy, Clears
  <2> QED
    BY <2>1, ReasonKept DEF Reason
<1>5. CASE ~(pc[r] = "invalidate" /\ slot[r] = s)
  <2>1. Differs(s)
    BY <1>2 DEF Differs
  <2>2. ASSUME NEW q \in Req, pc[q] = "invalidate", slot[q] = s
        PROVE  pc'[q] = "invalidate" /\ slot'[q] = s
    BY <1>5, <2>2 DEF Clears, StepOf, Others
  <2> QED
    BY <2>1, <2>2, ReasonKept DEF Explained
<1> QED
  BY <1>4, <1>5

LEMMA EraseExplained ==
    ASSUME UserDataInv, NEW s \in Slot, Explained(s), Recorded(s),
           NEW r \in Req, Erases(r)
    PROVE  Explained(s)'
<1> SUFFICES ASSUME Differs(s)'
             PROVE  why'[s] # {} \/ \E q \in Req : pc'[q] = "invalidate" /\ slot'[q] = s
  BY DEF Explained
<1>1. CASE row'[s] # row[s]
  <2>1. HappensBy(r, "evicted_early", s)
    BY <1>1 DEF HappensBy, Erases
  <2> QED
    BY <2>1, ReasonKept DEF Reason
<1>2. CASE row'[s] = row[s]
  <2>1. Differs(s)
    BY <1>2 DEF Differs, Erases
  <2>2. ASSUME NEW q \in Req, pc[q] = "invalidate", slot[q] = s
        PROVE  pc'[q] = "invalidate" /\ slot'[q] = s
    BY <2>2 DEF Erases, StepOf, Others
  <2> QED
    BY <2>1, <2>2, ReasonKept DEF Explained
<1> QED
  BY <1>1, <1>2

LEMMA ExpireExplained ==
    ASSUME UserDataInv, NEW s \in Slot, Explained(s), Recorded(s), Expires
    PROVE  Explained(s)'
<1> SUFFICES ASSUME Differs(s)'
             PROVE  why'[s] # {} \/ \E q \in Req : pc'[q] = "invalidate" /\ slot'[q] = s
  BY DEF Explained
<1>1. cache'[s] = cache[s]
  BY DEF Expires, Differs, UserDataInv, TypeOK
<1>2. Differs(s)
  BY <1>1 DEF Expires, Differs
<1> QED
  BY <1>2, ReasonKept DEF Explained, Expires, reqVars

-----------------------------------------------------------------------------
AuditInv == UserDataInv /\ \A s \in Slot : Explained(s)

LEMMA AuditInitInv == AuditInit => AuditInv
<1> SUFFICES ASSUME AuditInit PROVE AuditInv
  OBVIOUS
<1>1. UserDataInv
  BY InitInv DEF AuditInit
<1> QED
  BY <1>1 DEF AuditInv, Explained, Differs, AuditInit, Init

LEMMA AuditNextInv == AuditInv /\ [AuditNext]_<<vars, why>> => AuditInv'
<1> SUFFICES ASSUME AuditInv, [AuditNext]_<<vars, why>> PROVE AuditInv'
  OBVIOUS
<1>1. CASE AuditNext
  <2>1. UserDataInv' /\ Kinds
    BY <1>1, NextInv DEF AuditNext, AuditInv
  <2>2. \A s \in Slot : Recorded(s)
    BY <1>1 DEF AuditNext, Recorded
  <2>3. ASSUME NEW s \in Slot PROVE Explained(s)'
    <3>1. UserDataInv /\ Explained(s) /\ Recorded(s)
      BY <2>2 DEF AuditInv
    <3> QED
      BY <2>1, <3>1, StillExplained, FillExplained, WriteExplained, ClearExplained,
         EraseExplained, ExpireExplained DEF Kinds
  <2> QED
    BY <2>1, <2>3 DEF AuditInv
<1>2. CASE UNCHANGED <<vars, why>>
  <2>1. UserDataInv'
    BY <1>2, NextInv DEF AuditInv, vars
  <2> QED
    BY <1>2, <2>1 DEF AuditInv, Explained, Differs, vars
<1> QED
  BY <1>1, <1>2

(* AuditInv holds in every reachable state, for any number of requests    *)
(* (handlers.go 569-1208).                                                 *)
THEOREM AuditInvariance == AuditSpec => []AuditInv
<1>1. AuditInit => AuditInv
  BY AuditInitInv
<1>2. AuditInv /\ [AuditNext]_<<vars, why>> => AuditInv'
  BY AuditNextInv
<1> QED
  BY <1>1, <1>2, PTL DEF AuditSpec

(* Every variable keeps its type (handlers.go 569-1208). *)
THEOREM TypeCorrect == AuditSpec => []TypeOK
<1>1. AuditInv => TypeOK
  BY DEF AuditInv, UserDataInv
<1> QED
  BY <1>1, AuditInvariance, PTL

(* A cached receiver that is not the registered one has one of the four    *)
(* known reasons, or its Del is about to run: the list is complete         *)
(* (handlers.go 640-645, 728, 832, 1069-1076, 1206).                       *)
THEOREM StaleConfigIsExplained == AuditSpec => []StaleConfigExplained
<1>1. AuditInv => StaleConfigExplained
  BY DEF AuditInv, Explained, Differs, StaleConfigExplained
<1> QED
  BY <1>1, AuditInvariance, PTL

-----------------------------------------------------------------------------
(* What is left of a deleted account. Place orders the round trips of all  *)
(* routes from the last to the first; the loops of PostLocation and        *)
(* DeleteAccount over the two receivers begin with the webhook.            *)
Place(l) ==
    CASE l = "idle"       -> 0  [] l = "erase"      -> 1
      [] l = "drop_loc"   -> 2  [] l = "evict"      -> 3
      [] l = "record"     -> 4  [] l = "fill"       -> 5
      [] l = "select"     -> 6  [] l = "get"        -> 7
      [] l = "invalidate" -> 8  [] l = "write_row"  -> 9
      [] l = "probe"      -> 10 [] l = "write_loc"  -> 11

Order(l, s) ==
    IF l = "idle" THEN 0 ELSE Place(l) + (IF s = "webhook" THEN 12 ELSE 0)
Left(r) == Order(pc[r], slot[r])

(* Nothing of the user appears that was not there. *)
OnlyVanishes ==
    /\ loc' => loc
    /\ intg' => intg
    /\ \A s \in Slot : cache'[s] \in {cache[s], Absent}

NoRows == account # "live" => row = [s \in Slot |-> NoConfig]

Drains ==
    /\ account # "live" => account' # "live" /\ row' = row
    /\ account = "gone" =>
          /\ account' = "gone"
          /\ \/ OnlyVanishes /\ UNCHANGED reqVars
             \/ \E r \in Req : Left(r)' < Left(r) /\ Others(r)

(* From (l, s) a request goes on to (m, t). *)
LEMMA Lower ==
    ASSUME NEW l \in PC, NEW s \in Slot, NEW m \in PC, NEW t \in Slot,
           l # "idle",
           \/ m = "idle"
           \/ s = t /\ Place(m) < Place(l)
           \/ s = "webhook" /\ t = "openclaw" /\ m = "get"
           \/ s = "webhook" /\ t = "openclaw" /\ m = l
    PROVE  Order(m, t) < Order(l, s)
BY DEF PC, Slot, Order, Place

LEMMA GoesDown ==
    ASSUME TypeOK, NEW r \in Req, StepOf(r), pc[r] # "idle",
           \/ pc'[r] = "idle"
           \/ slot'[r] = slot[r] /\ Place(pc'[r]) < Place(pc[r])
           \/ /\ slot[r] = "webhook" /\ slot'[r] = "openclaw"
              /\ pc'[r] \in {"get", pc[r]}
    PROVE  Left(r)' < Left(r) /\ Others(r)
<1>1. /\ pc[r] \in PC /\ slot[r] \in Slot
      /\ pc'[r] \in PC /\ slot'[r] \in Slot
  BY DEF TypeOK, StepOf, ReqTypes
<1>2. Order(pc'[r], slot'[r]) < Order(pc[r], slot[r])
  BY <1>1, Lower
<1> QED
  BY <1>2 DEF Left, StepOf

(* A lookup is followed by the record, the other receiver or the answer. *)
LEMMA NextLookupDown ==
    ASSUME TypeOK, NEW r \in Req, pc[r] # "idle", NextLookup(r)
    PROVE  Left(r)' < Left(r) /\ Others(r)
<1>1. StepOf(r)
  BY NextLookupEffect
<1>2. \/ pc'[r] = "idle"
      \/ slot[r] = "webhook" /\ slot'[r] = "openclaw" /\ pc'[r] = "get"
  BY DEF NextLookup, Finish, Goto, TypeOK
<1> QED
  BY <1>1, <1>2, GoesDown

LEMMA LookedUpDown ==
    ASSUME TypeOK, NEW r \in Req, NEW c, pc[r] \in {"get", "fill"}, LookedUp(r, c)
    PROVE  Left(r)' < Left(r) /\ Others(r)
<1>1. CASE NextLookup(r)
  BY <1>1, NextLookupDown
<1>2. CASE Goto(r, "record") /\ UNCHANGED slot
  <2>1. StepOf(r)
    BY LookedUpEffect
  <2>2. pc'[r] = "record" /\ slot'[r] = slot[r]
    BY <1>2 DEF Goto, TypeOK
  <2>3. Place("record") < Place(pc[r])
    BY DEF Place
  <2> QED
    BY <2>1, <2>2, <2>3, GoesDown
<1> QED
  BY <1>1, <1>2 DEF LookedUp

LEMMA FinishDown ==
    ASSUME TypeOK, NEW r \in Req, pc[r] # "idle", Finish(r)
    PROVE  Left(r)' < Left(r) /\ Others(r)
BY FinishEffect, GoesDown

(* The next round trip of the same receiver. *)
LEMMA GotoDown ==
    ASSUME TypeOK, NEW r \in Req, NEW l \in PC, Goto(r, l), UNCHANGED slot,
           route' = route, val' \in [Req -> Config \cup {NoConfig, Failed}],
           \A q \in Req : q # r => val'[q] = val[q],
           pc[r] # "idle", l = "fill" /\ val'[r] = Failed => slot[r] = "webhook",
           Place(l) < Place(pc[r])
    PROVE  Left(r)' < Left(r) /\ Others(r)
<1>1. pc'[r] = l /\ slot'[r] = slot[r]
  BY DEF Goto, TypeOK
<1>2. StepOf(r)
  BY <1>1 DEF TypeOK, Goto, StepOf, ReqTypes, Others, FailedAt
<1> QED
  BY <1>1, <1>2, GoesDown

LEMMA StepDown ==
    ASSUME TypeOK, NEW r \in Req, Step(r) \/ Abort(r)
    PROVE  Left(r)' < Left(r) /\ Others(r)
<1> USE DEF PC, Place
<1>1. CASE WriteLocation(r)
  BY <1>1, GotoDown, FinishDown DEF WriteLocation, TypeOK
<1>2. CASE CacheHit(r)
  BY <1>2, LookedUpDown DEF CacheHit
<1>3. CASE CacheMiss(r)
  BY <1>3, GotoDown DEF CacheMiss, TypeOK
<1>4. CASE SelectConfig(r)
  <2>1. CASE NextLookup(r)
    BY <1>4, <2>1, NextLookupDown DEF SelectConfig
  <2>2. CASE /\ Goto(r, "fill") /\ UNCHANGED <<route, slot>>
             /\ \/ val' = [val EXCEPT ![r] = row[slot[r]]]
                \/ slot[r] = "webhook" /\ val' = [val EXCEPT ![r] = Failed]
    <3>1. row[slot[r]] \in Config \cup {NoConfig}
      BY DEF TypeOK
    <3>2. /\ val' \in [Req -> Config \cup {NoConfig, Failed}]
          /\ \A q \in Req : q # r => val'[q] = val[q]
          /\ val'[r] = Failed => slot[r] = "webhook"
      BY <2>2, <3>1 DEF TypeOK
    <3>3. pc[r] = "select"
      BY <1>4 DEF SelectConfig
    <3> QED
      BY <2>2, <3>2, <3>3, GotoDown
  <2> QED
    BY <1>4, <2>1, <2>2 DEF SelectConfig
<1>5. CASE FillCache(r)
  BY <1>5, LookedUpDown DEF FillCache
<1>6. CASE Record(r)
  BY <1>6, NextLookupDown DEF Record
<1>7. CASE Probe(r)
  BY <1>7, GotoDown, FinishDown DEF Probe, TypeOK
<1>8. CASE WriteRow(r)
  BY <1>8, GotoDown, FinishDown DEF WriteRow, TypeOK
<1>9. CASE Invalidate(r)
  BY <1>9, FinishDown DEF Invalidate
<1>10. CASE Evict(r)
  <2>1. CASE slot[r] = "webhook" /\ slot' = [slot EXCEPT ![r] = "openclaw"]
             /\ UNCHANGED pc
    <3>1. StepOf(r)
      BY <1>10, <2>1 DEF Evict, StepOf, ReqTypes, Others, FailedAt, TypeOK, Slot
    <3> QED
      BY <1>10, <2>1, <3>1, GoesDown DEF Evict, TypeOK
  <2>2. CASE Goto(r, "drop_loc") /\ UNCHANGED slot
    BY <1>10, <2>2, GotoDown DEF Evict, TypeOK
  <2> QED
    BY <1>10, <2>1, <2>2 DEF Evict
<1>11. CASE DropLocation(r)
  BY <1>11, GotoDown DEF DropLocation, TypeOK
<1>12. CASE EraseUser(r)
  BY <1>12, FinishDown DEF EraseUser
<1>13. CASE Abort(r)
  BY <1>13, FinishDown DEF Abort
<1> QED
  BY <1>1, <1>2, <1>3, <1>4, <1>5, <1>6, <1>7, <1>8, <1>9, <1>10, <1>11, <1>12,
     <1>13 DEF Step

(* The cascade leaves no row, and the foreign key lets none in. *)
LEMMA RowsStayAway ==
    ASSUME TypeOK, NoRows, [Next]_vars
    PROVE  /\ NoRows'
           /\ account # "live" => account' # "live" /\ row' = row
           /\ account = "gone" => account' = "gone"
<1>1. CASE \E r \in Req : WriteRow(r)
  <2>1. PICK r \in Req : WriteRow(r)
    BY <1>1
  <2>2. CASE UNCHANGED row
    BY <2>1, <2>2 DEF WriteRow, NoRows
  <2>3. CASE account = "live"
    BY <2>1, <2>3 DEF WriteRow, NoRows
  <2>4. CASE account # "live" /\ route[r] = "drop"
             /\ \E c \in IF route[r] = "put" THEN Config ELSE {NoConfig} :
                   row' = [row EXCEPT ![slot[r]] = c]
    <3>1. row' = row
      BY <2>4 DEF NoRows, TypeOK
    <3> QED
      BY <2>1, <2>4, <3>1 DEF WriteRow, NoRows
  <2> QED
    BY <2>1, <2>2, <2>3, <2>4 DEF WriteRow
<1>2. CASE \E r \in Req : EraseUser(r)
  BY <1>2 DEF EraseUser, NoRows
<1>3. CASE Lapse
  BY <1>3 DEF Lapse, NoRows
<1>4. CASE UNCHANGED <<account, row>>
  BY <1>4 DEF NoRows
<1> QED
  BY <1>1, <1>2, <1>3, <1>4
  DEF Next, Step, Arrive, WriteLocation, CacheHit, CacheMiss, SelectConfig,
      FillCache, Record, Probe, Invalidate, Evict, DropLocation, Abort, Expire,
      ExpireLocation, ExpireRecord, vars

LEMMA NextDrains ==
    ASSUME TypeOK, NoRows, [Next]_vars PROVE [Drains]_vars
<1> SUFFICES ASSUME account = "gone", Next
             PROVE  \/ OnlyVanishes /\ UNCHANGED reqVars
                    \/ \E r \in Req : Left(r)' < Left(r) /\ Others(r)
  BY RowsStayAway DEF Drains
<1>1. CASE \E r \in Req : Step(r) \/ Abort(r)
  BY <1>1, StepDown
<1>2. ASSUME NEW s \in Slot, Expire(s) PROVE OnlyVanishes /\ UNCHANGED reqVars
  BY <1>2 DEF Expire, OnlyVanishes, TypeOK
<1>3. CASE ExpireLocation \/ ExpireRecord
  BY <1>3 DEF ExpireLocation, ExpireRecord, OnlyVanishes, TypeOK
<1> QED
  BY <1>1, <1>2, <1>3 DEF Next, Arrive, Lapse

(* A deleted account stays deleted and without a receiver registered, and  *)
(* once its last cached token has run out, whatever was going on can only  *)
(* come to its end: no request begins, each step of one brings it nearer   *)
(* to its answer, and apart from these finitely many steps nothing of the  *)
(* user is written again (handlers.go 94-97, 569-647, 1050-1081).          *)
THEOREM DeletedAccountDrains == Spec => [][Drains]_vars
<1>1. Init => UserDataInv /\ NoRows
  BY InitInv DEF Init, NoRows
<1>2. UserDataInv /\ NoRows /\ [Next]_vars => UserDataInv' /\ NoRows' /\ [Drains]_vars
  BY NextInv, RowsStayAway, NextDrains DEF UserDataInv
<1> QED
  BY <1>1, <1>2, PTL DEF Spec
=============================================================================
