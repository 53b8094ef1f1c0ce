----------------------------- MODULE AuthProofs -----------------------------
(***************************************************************************)
(* Proofs about Auth for every number of users, tokens and requests, over  *)
(* either database, with and without faults, in four parts: AuthInv is     *)
(* inductive, and the safety properties of Auth follow from it; over one   *)
(* connection transactions are alone; Auth implements the safety part of   *)
(* Credential; every stale cache entry has one of the causes of AuthAudit. *)
(***************************************************************************)
EXTENDS Naturals, AuthAudit, AuthAccount, TLAPS

USE NoTokenAssumption, NoGrantAssumption, RouteAssumption

(* The locals of request q are as they were. *)
LocalsKept(q) ==
    /\ pc'[q] = pc[q] /\ route'[q] = route[q] /\ tok'[q] = tok[q]
    /\ who'[q] = who[q] /\ old'[q] = old[q] /\ snap'[q] = snap[q]

GrantsKept == \A t \in Token : grant[t] # NoGrant => grant'[t] = grant[t]

-----------------------------------------------------------------------------
(* The arguments of a handler are a grant of the bearer's user. *)
LEMMA ArgumentsType ==
    ASSUME NEW o \in AllRoutes, NEW g \in Grant
    PROVE  /\ Arguments(o, g) \in Grant
           /\ Arguments(o, g).user = g.user
  BY DEF Arguments, Grant, Kind

(* A request that does not move keeps its invariant: grants never change. *)
LEMMA Frame ==
    ASSUME NEW q \in Req, TypeOK, RequestInv(q), LocalsKept(q), GrantsKept
    PROVE  RequestInv(q)'
<1>1. tok[q] # NoToken => tok[q] \in Token /\ grant'[tok[q]] = grant[tok[q]]
  BY DEF TypeOK, RequestInv, BearerKnown, GrantsKept
<1>2. pc[q] \in Authenticating => tok[q] # NoToken
  BY DEF RequestInv, BearerKnown
<1>3. BearerKnown(q)'
  BY <1>1 DEF RequestInv, BearerKnown, LocalsKept
<1>4. LocalsSound(q)'
  BY <1>1, <1>2 DEF RequestInv, LocalsSound, LocalsKept, Authenticating
<1>5. StageSound(q)'
  BY DEF RequestInv, StageSound, LocalsKept
<1>6. SnapshotSound(q)'
  <2>1. \A t \in snap[q] : t \in Token /\ grant[t] = who[q]
    BY DEF TypeOK, RequestInv, SnapshotSound
  <2>2. snap[q] # {} => who[q] # NoGrant
    BY DEF RequestInv, SnapshotSound, LocalsSound, InHandler
  <2> QED  BY <2>1, <2>2 DEF RequestInv, SnapshotSound, LocalsKept, GrantsKept
<1> QED  BY <1>3, <1>4, <1>5, <1>6 DEF RequestInv

(* A request that is over satisfies its invariant trivially. *)
LEMMA FinishSound ==
    ASSUME TypeOK, NEW r \in Req, Finish(r)
    PROVE  /\ RequestInv(r)'
           /\ pc' \in [Req -> PC]
           /\ route' \in [Req -> AllRoutes]
           /\ tok' \in [Req -> Token \cup {NoToken}]
           /\ who' \in [Req -> Grant \cup {NoGrant}]
           /\ old' \in [Req -> SUBSET Token]
           /\ snap' \in [Req -> SUBSET Token]
           /\ \A q \in Req \ {r} : LocalsKept(q)
<1>1. /\ pc' \in [Req -> PC] /\ route' \in [Req -> AllRoutes]
      /\ tok' \in [Req -> Token \cup {NoToken}]
      /\ who' \in [Req -> Grant \cup {NoGrant}]
      /\ old' \in [Req -> SUBSET Token] /\ snap' \in [Req -> SUBSET Token]
  BY DEF TypeOK, Finish, Goto, PC, AllRoutes
<1>2. /\ pc'[r] = "idle" /\ route'[r] = "me" /\ tok'[r] = NoToken
      /\ snap'[r] = {}
  BY DEF TypeOK, Finish, Goto
<1>3. RequestInv(r)'
  BY <1>2 DEF RequestInv, BearerKnown, LocalsSound, StageSound, SnapshotSound,
              Authenticating, InHandler, Rotating, Deleting
<1>4. \A q \in Req \ {r} : LocalsKept(q)
  BY DEF TypeOK, Finish, Goto, LocalsKept
<1> QED  BY <1>1, <1>3, <1>4

(* The kind check hands a sound request to its handler, or ends it. *)
LEMMA AdmitSound ==
    ASSUME TypeOK, NEW r \in Req, RequestInv(r), pc[r] \in Authenticating,
           grant' = grant, Admit(r, grant[tok[r]])
    PROVE  /\ RequestInv(r)'
           /\ pc' \in [Req -> PC]
           /\ route' \in [Req -> AllRoutes]
           /\ tok' \in [Req -> Token \cup {NoToken}]
           /\ who' \in [Req -> Grant \cup {NoGrant}]
           /\ old' \in [Req -> SUBSET Token]
           /\ snap' \in [Req -> SUBSET Token]
           /\ \A q \in Req \ {r} : LocalsKept(q)
<1> DEFINE g == grant[tok[r]]
<1>1. CASE g.kind \notin Allowed(route[r]) /\ Finish(r)
  BY <1>1, FinishSound
<1>2. CASE /\ g.kind \in Allowed(route[r])
           /\ Goto(r, Entry(route[r]))
           /\ who' = [who EXCEPT ![r] = Arguments(route[r], g)]
           /\ UNCHANGED <<route, tok, old, snap>>
  <2>1. tok[r] # NoToken /\ g \in Grant /\ route[r] \in AllRoutes
    BY DEF TypeOK, RequestInv, BearerKnown
  <2>2. Arguments(route[r], g) \in Grant
    BY <2>1, ArgumentsType
  <2>3. Entry(route[r]) \in {"collect", "list", "serve"}
    BY <2>1 DEF Entry
  <2>4. /\ pc' \in [Req -> PC] /\ route' \in [Req -> AllRoutes]
        /\ tok' \in [Req -> Token \cup {NoToken}]
        /\ who' \in [Req -> Grant \cup {NoGrant}]
        /\ old' \in [Req -> SUBSET Token] /\ snap' \in [Req -> SUBSET Token]
    BY <1>2, <2>2, <2>3 DEF TypeOK, Goto, PC
  <2>5. /\ pc'[r] = Entry(route[r]) /\ who'[r] = Arguments(route[r], g)
        /\ route'[r] = route[r] /\ tok'[r] = tok[r] /\ snap'[r] = snap[r]
    BY <1>2 DEF TypeOK, Goto
  <2>6. BearerKnown(r)'
    BY <2>1, <2>3, <2>5 DEF RequestInv, BearerKnown, Authenticating
  <2>7. LocalsSound(r)'
    BY <1>2, <2>2, <2>3, <2>5 DEF LocalsSound
  <2>8. StageSound(r)'
    BY <2>1, <2>5 DEF StageSound, Entry, Rotating, Deleting, RotateRoute
  <2>9. SnapshotSound(r)'
    BY <2>3, <2>5 DEF RequestInv, SnapshotSound, Authenticating
  <2>10. \A q \in Req \ {r} : LocalsKept(q)
    BY <1>2 DEF TypeOK, Goto, LocalsKept
  <2> QED  BY <2>4, <2>6, <2>7, <2>8, <2>9, <2>10 DEF RequestInv
<1> QED  BY <1>1, <1>2 DEF Admit

(* A step that touches only the locals of r, apart from the stores, keeps  *)
(* the invariant when r and the stores are sound after it.                 *)
LEMMA OneRequestMoves ==
    ASSUME AuthInv, NEW r \in Req, TypeOK', StoresInv', RequestInv(r)',
           \A q \in Req \ {r} : LocalsKept(q), GrantsKept
    PROVE  AuthInv'
<1>1. ASSUME NEW q \in Req \ {r} PROVE RequestInv(q)'
  BY <1>1, Frame DEF AuthInv
<1> QED  BY <1>1 DEF AuthInv

(* Steps that end a request, or pass the kind check, with all stores and   *)
(* rows unchanged.                                                         *)
LEMMA FinishKeeps ==
    ASSUME AuthInv, NEW r \in Req, Finish(r), UNCHANGED <<dbVars, cache>>
    PROVE  AuthInv'
<1>1. TypeOK'
  BY FinishSound DEF AuthInv, TypeOK, dbVars
<1>2. StoresInv' /\ GrantsKept
  BY DEF AuthInv, StoresInv, dbVars, GrantsKept
<1>3. RequestInv(r)' /\ \A q \in Req \ {r} : LocalsKept(q)
  BY FinishSound DEF AuthInv
<1> QED  BY <1>1, <1>2, <1>3, OneRequestMoves

LEMMA AdmitKeeps ==
    ASSUME AuthInv, NEW r \in Req, pc[r] \in Authenticating,
           Admit(r, grant[tok[r]]), UNCHANGED dbVars,
           cache' \in [Token -> Grant \cup {NoGrant}],
           \A t \in Token : cache'[t] \in {NoGrant, grant[t]}
    PROVE  AuthInv'
<1>1. RequestInv(r) /\ TypeOK /\ grant' = grant
  BY DEF AuthInv, dbVars
<1>2. TypeOK'
  BY <1>1, AdmitSound DEF TypeOK, dbVars
<1>3. StoresInv' /\ GrantsKept
  BY DEF AuthInv, StoresInv, dbVars, GrantsKept
<1>4. RequestInv(r)' /\ \A q \in Req \ {r} : LocalsKept(q)
  BY <1>1, AdmitSound
<1> QED  BY <1>2, <1>3, <1>4, OneRequestMoves

(* Steps of r that leave the stores alone and move on inside the handler   *)
(* or the middleware.                                                      *)
LEMMA LocalStepKeeps ==
    ASSUME AuthInv, NEW r \in Req, UNCHANGED dbVars, TypeOK',
           \A t \in Token : cache'[t] \in {NoGrant, cache[t]},
           RequestInv(r)', \A q \in Req \ {r} : LocalsKept(q)
    PROVE  AuthInv'
<1>1. StoresInv' /\ GrantsKept
  BY DEF AuthInv, StoresInv, dbVars, GrantsKept
<1> QED  BY <1>1, OneRequestMoves

-----------------------------------------------------------------------------
(* The middleware. *)
LEMMA ArriveKeeps ==
    ASSUME AuthInv, NEW r \in Req, NEW o \in Route, NEW t \in Token,
           Arrive(r, o, t)
    PROVE  AuthInv'
<1>1. /\ pc' = [pc EXCEPT ![r] = IF o = "mcp" THEN "mcp" ELSE "get"]
      /\ route' = [route EXCEPT ![r] = o]
      /\ tok' = [tok EXCEPT ![r] = t]
      /\ UNCHANGED <<dbVars, cache, who, old, snap>>
      /\ grant[t] # NoGrant /\ o # "sign_in" /\ pc[r] = "idle"
  BY DEF Arrive, Goto
<1>2. TypeOK'
  BY <1>1 DEF AuthInv, TypeOK, PC, dbVars
<1>3. \A q \in Req \ {r} : LocalsKept(q)
  BY <1>1 DEF AuthInv, TypeOK, LocalsKept
<1>4. RequestInv(r)'
  <2>1. /\ pc'[r] \in {"get", "mcp"} /\ route'[r] = o /\ tok'[r] = t
        /\ snap'[r] = snap[r] /\ grant' = grant
    BY <1>1 DEF AuthInv, TypeOK, dbVars
  <2>2. snap[r] = {}
    BY <1>1 DEF AuthInv, RequestInv, SnapshotSound
  <2>3. BearerKnown(r)' /\ SnapshotSound(r)'
    BY <1>1, <2>1, <2>2, NoTokenAssumption DEF BearerKnown, SnapshotSound
  <2>4. LocalsSound(r)' /\ StageSound(r)'
    BY <2>1 DEF LocalsSound, StageSound, InHandler, Rotating, Deleting
  <2> QED  BY <2>3, <2>4 DEF RequestInv
<1> QED  BY <1>1, <1>2, <1>3, <1>4, LocalStepKeeps

LEMMA CacheHitKeeps ==
    ASSUME AuthInv, NEW r \in Req, CacheHit(r)
    PROVE  AuthInv'
<1>1. tok[r] \in Token /\ pc[r] \in Authenticating
  BY DEF AuthInv, TypeOK, CacheHit, RequestInv, BearerKnown, Authenticating
<1>2. cache[tok[r]] = grant[tok[r]]
  BY <1>1 DEF AuthInv, StoresInv, CacheHit
<1>3. Admit(r, grant[tok[r]]) /\ UNCHANGED <<dbVars, cache>>
  BY <1>2 DEF CacheHit
<1> QED  BY <1>1, <1>3, AdmitKeeps DEF AuthInv, TypeOK, StoresInv

LEMMA CacheMissKeeps ==
    ASSUME AuthInv, NEW r \in Req, CacheMiss(r)
    PROVE  AuthInv'
<1>1. /\ pc[r] = "get" /\ pc' = [pc EXCEPT ![r] = "select"]
      /\ UNCHANGED <<dbVars, cache, route, tok, who, old, snap>>
  BY DEF CacheMiss, Goto
<1>2. TypeOK' /\ \A q \in Req \ {r} : LocalsKept(q)
  BY <1>1 DEF AuthInv, TypeOK, PC, dbVars, LocalsKept
<1>3. pc'[r] = "select"
  BY <1>1 DEF AuthInv, TypeOK
<1>4. RequestInv(r)'
  BY <1>1, <1>3 DEF AuthInv, RequestInv, BearerKnown, LocalsSound, StageSound,
     SnapshotSound, Authenticating, InHandler, Rotating, Deleting, dbVars
<1> QED  BY <1>1, <1>2, <1>4, LocalStepKeeps

LEMMA SelectRowKeeps ==
    ASSUME AuthInv, NEW r \in Req, SelectRow(r)
    PROVE  AuthInv'
<1>1. pc[r] = "select" /\ UNCHANGED <<dbVars, cache>>
  BY DEF SelectRow
<1>2. CASE Finish(r)
  BY <1>1, <1>2, FinishKeeps
<1>3. CASE /\ tok[r] \in rows
           /\ Goto(r, "fill")
           /\ who' = [who EXCEPT ![r] = grant[tok[r]]]
           /\ UNCHANGED <<route, tok, old, snap>>
  <2>1. TypeOK' /\ \A q \in Req \ {r} : LocalsKept(q)
    BY <1>1, <1>3 DEF AuthInv, TypeOK, PC, dbVars, LocalsKept, Goto
  <2>2. pc'[r] = "fill" /\ who'[r] = grant[tok[r]]
    BY <1>3 DEF AuthInv, TypeOK, Goto
  <2>3. RequestInv(r)'
    BY <1>1, <1>3, <2>2 DEF AuthInv, RequestInv, BearerKnown, LocalsSound,
       StageSound, SnapshotSound, Authenticating, InHandler, Rotating,
       Deleting, dbVars
  <2> QED  BY <1>1, <2>1, <2>3, LocalStepKeeps
<1> QED  BY <1>2, <1>3 DEF SelectRow

LEMMA FillCacheKeeps ==
    ASSUME AuthInv, NEW r \in Req, FillCache(r)
    PROVE  AuthInv'
<1>1. pc[r] = "fill" /\ UNCHANGED dbVars /\ Admit(r, who[r])
  BY DEF FillCache
<1>2. tok[r] \in Token /\ who[r] = grant[tok[r]] /\ pc[r] \in Authenticating
  BY <1>1 DEF AuthInv, TypeOK, RequestInv, BearerKnown, LocalsSound,
              Authenticating
<1>3. /\ cache' \in [Token -> Grant \cup {NoGrant}]
      /\ \A t \in Token : cache'[t] \in {NoGrant, grant[t]}
  BY <1>2 DEF AuthInv, TypeOK, StoresInv, FillCache
<1> QED  BY <1>1, <1>2, <1>3, AdmitKeeps

LEMMA SelectForMCPKeeps ==
    ASSUME AuthInv, NEW r \in Req, SelectForMCP(r)
    PROVE  AuthInv'
<1>1. pc[r] \in Authenticating /\ UNCHANGED <<dbVars, cache>>
  BY DEF SelectForMCP, Authenticating
<1>2. CASE Finish(r)
  BY <1>1, <1>2, FinishKeeps
<1>3. CASE Admit(r, grant[tok[r]])
  BY <1>1, <1>3, AdmitKeeps DEF AuthInv, TypeOK, StoresInv
<1> QED  BY <1>2, <1>3 DEF SelectForMCP

-----------------------------------------------------------------------------
(* Sign-in. *)
LEMMA IssueSound ==
    ASSUME AuthInv, NEW r \in Req, NEW u \in User, NEW k \in Kind,
           pc[r] = "idle", Issue(r, u, k), UNCHANGED <<rows, grant, cache>>,
           users' \in [User -> {"none", "live", "deleted"}]
    PROVE  /\ TypeOK' /\ RequestInv(r)'
           /\ \A q \in Req \ {r} : LocalsKept(q)
<1> DEFINE g == [user |-> u, kind |-> k]
<1>1. g \in Grant /\ g # NoGrant
  BY DEF Grant
<1>2. /\ pc' = [pc EXCEPT ![r] = "collect"]
      /\ route' = [route EXCEPT ![r] = "sign_in"]
      /\ who' = [who EXCEPT ![r] = g]
      /\ UNCHANGED <<tok, old, snap>>
  BY DEF Issue, Goto
<1>3. TypeOK' /\ \A q \in Req \ {r} : LocalsKept(q)
  BY <1>1, <1>2 DEF AuthInv, TypeOK, PC, AllRoutes, LocalsKept
<1>4. pc'[r] = "collect" /\ route'[r] = "sign_in" /\ who'[r] = g
  BY <1>1, <1>2 DEF AuthInv, TypeOK
<1>5. tok[r] = NoToken /\ snap[r] = {}
  BY DEF AuthInv, RequestInv, BearerKnown, SnapshotSound
<1>6. RequestInv(r)'
  BY <1>1, <1>2, <1>4, <1>5 DEF RequestInv, BearerKnown, LocalsSound,
     StageSound, SnapshotSound, Authenticating, Rotating, Deleting
<1> QED  BY <1>3, <1>6

LEMMA SocialAuthKeeps ==
    ASSUME AuthInv, NEW r \in Req, NEW u \in User, NEW k \in Kind,
           SocialAuth(r, u, k)
    PROVE  AuthInv'
<1>1. /\ pc[r] = "idle" /\ users[u] # "deleted"
      /\ users' = [users EXCEPT ![u] = "live"]
      /\ Issue(r, u, k) /\ UNCHANGED <<rows, grant, cache>>
  BY DEF SocialAuth, FoundOrCreated
<1>2. users' \in [User -> {"none", "live", "deleted"}]
  BY <1>1 DEF AuthInv, TypeOK
<1>3. /\ TypeOK' /\ RequestInv(r)'
      /\ \A q \in Req \ {r} : LocalsKept(q)
  BY <1>1, <1>2, IssueSound
<1>4. StoresInv' /\ GrantsKept
  BY <1>1 DEF AuthInv, TypeOK, StoresInv, GrantsKept
<1> QED  BY <1>3, <1>4, OneRequestMoves

LEMMA RedeemCodeKeeps ==
    ASSUME AuthInv, NEW r \in Req, NEW u \in User, NEW k \in Kind,
           RedeemCode(r, u, k)
    PROVE  AuthInv'
<1>1. pc[r] = "idle" /\ Issue(r, u, k) /\ UNCHANGED <<dbVars, cache>>
  BY DEF RedeemCode
<1>2. /\ TypeOK' /\ RequestInv(r)'
      /\ \A q \in Req \ {r} : LocalsKept(q)
  BY <1>1, IssueSound DEF dbVars, AuthInv, TypeOK
<1> QED  BY <1>1, <1>2, LocalStepKeeps

-----------------------------------------------------------------------------
(* rotateToken. *)
LEMMA CollectOldKeeps ==
    ASSUME AuthInv, NEW r \in Req, CollectOld(r)
    PROVE  AuthInv'
<1>1. /\ pc[r] = "collect" /\ pc' = [pc EXCEPT ![r] = "begin"]
      /\ UNCHANGED <<dbVars, cache, route, tok, who, snap>>
      /\ \E s \in SUBSET Token : old' = [old EXCEPT ![r] = s]
  BY DEF CollectOld, Goto, Collected, RowsOf, AuthInv, TypeOK
<1>2. TypeOK' /\ \A q \in Req \ {r} : LocalsKept(q)
  BY <1>1 DEF AuthInv, TypeOK, PC, dbVars, LocalsKept
<1>3. pc'[r] = "begin"
  BY <1>1 DEF AuthInv, TypeOK
<1>4. RequestInv(r)'
  BY <1>1, <1>3 DEF AuthInv, RequestInv, BearerKnown, LocalsSound, StageSound,
     SnapshotSound, Authenticating, InHandler, Rotating, Deleting, dbVars
<1> QED  BY <1>1, <1>2, <1>4, LocalStepKeeps

LEMMA DeleteOldKeeps ==
    ASSUME AuthInv, NEW r \in Req, DeleteOld(r)
    PROVE  AuthInv'
<1>1. /\ pc[r] = "begin" /\ pc' = [pc EXCEPT ![r] = "commit"]
      /\ snap' = [snap EXCEPT ![r] = RowsOf(who[r])]
      /\ UNCHANGED <<dbVars, cache, route, tok, who, old>>
  BY DEF DeleteOld, Goto
<1>2. RowsOf(who[r]) \subseteq Token
  BY DEF RowsOf, AuthInv, TypeOK
<1>3. TypeOK' /\ \A q \in Req \ {r} : LocalsKept(q)
  BY <1>1, <1>2 DEF AuthInv, TypeOK, PC, dbVars, LocalsKept
<1>4. pc'[r] = "commit" /\ snap'[r] = RowsOf(who[r])
  BY <1>1 DEF AuthInv, TypeOK
<1>5. RequestInv(r)'
  BY <1>1, <1>4 DEF AuthInv, RequestInv, BearerKnown, LocalsSound, StageSound,
     SnapshotSound, Authenticating, InHandler, Rotating, Deleting, dbVars, RowsOf
<1> QED  BY <1>1, <1>3, <1>5, LocalStepKeeps

LEMMA CommitKeeps ==
    ASSUME AuthInv, NEW r \in Req, Commit(r)
    PROVE  AuthInv'
<1>1. /\ pc[r] = "commit" /\ pc' = [pc EXCEPT ![r] = "purge"]
      /\ users[who[r].user] = "live" /\ snap' = [snap EXCEPT ![r] = {}]
      /\ UNCHANGED <<users, cache, route, tok, who, old>>
  BY DEF Commit, Goto
<1>2. PICK t \in Token : /\ grant[t] = NoGrant
                         /\ rows' = (rows \ snap[r]) \cup {t}
                         /\ grant' = [grant EXCEPT ![t] = who[r]]
  BY DEF Commit
<1>3. who[r] \in Grant /\ who[r] # NoGrant
  BY <1>1 DEF AuthInv, TypeOK, RequestInv, LocalsSound, InHandler
<1>4. TypeOK' /\ \A q \in Req \ {r} : LocalsKept(q)
  BY <1>1, <1>2, <1>3 DEF AuthInv, TypeOK, PC, LocalsKept
<1>5. GrantsKept /\ grant'[t] = who[r]
  BY <1>2 DEF AuthInv, TypeOK, GrantsKept
<1>6. StoresInv'
  <2>1. ASSUME NEW s \in Token PROVE cache'[s] \in {NoGrant, grant'[s]}
    BY <1>1, <1>2, <1>5 DEF AuthInv, StoresInv, GrantsKept
  <2>2. ASSUME NEW s \in rows'
        PROVE  grant'[s] # NoGrant /\ users'[grant'[s].user] = "live"
    BY <1>1, <1>2, <1>3, <1>5 DEF AuthInv, TypeOK, StoresInv, GrantsKept
  <2> QED  BY <2>1, <2>2 DEF StoresInv
<1>7. RequestInv(r)'
  <2>1. /\ pc'[r] = "purge" /\ snap'[r] = {} /\ tok'[r] = tok[r]
        /\ who'[r] = who[r] /\ route'[r] = route[r]
    BY <1>1 DEF AuthInv, TypeOK
  <2>2. tok[r] # NoToken => grant[tok[r]] # NoGrant
                            /\ grant'[tok[r]] = grant[tok[r]]
    BY <1>5 DEF AuthInv, TypeOK, RequestInv, BearerKnown, GrantsKept
  <2> QED  BY <1>1, <2>1, <2>2 DEF AuthInv, RequestInv, BearerKnown, LocalsSound,
              StageSound, SnapshotSound, Authenticating, InHandler, Rotating,
              Deleting
<1> QED  BY <1>4, <1>5, <1>6, <1>7, OneRequestMoves

(* A Del, lost or not, in either loop. *)
LEMMA DelOneKeeps ==
    ASSUME AuthInv, NEW r \in Req, DelOne(r)
    PROVE  AuthInv'
<1>1. UNCHANGED <<dbVars, pc, route, tok, who, snap>>
  BY DEF DelOne
<1>2. /\ \E s \in SUBSET Token : old' = [old EXCEPT ![r] = s]
      /\ cache' \in [Token -> Grant \cup {NoGrant}]
      /\ \A t \in Token : cache'[t] \in {NoGrant, cache[t]}
  BY DEF DelOne, AuthInv, TypeOK
<1>3. TypeOK' /\ \A q \in Req \ {r} : LocalsKept(q)
  BY <1>1, <1>2 DEF AuthInv, TypeOK, dbVars, LocalsKept
<1>4. RequestInv(r)'
  BY <1>1 DEF AuthInv, RequestInv, BearerKnown, LocalsSound, StageSound,
     SnapshotSound, dbVars
<1> QED  BY <1>1, <1>2, <1>3, <1>4, LocalStepKeeps

-----------------------------------------------------------------------------
(* DeleteAccount. *)
LEMMA ListTokensKeeps ==
    ASSUME AuthInv, NEW r \in Req, ListTokens(r)
    PROVE  AuthInv'
<1>1. /\ pc[r] = "list" /\ pc' = [pc EXCEPT ![r] = "evict"]
      /\ UNCHANGED <<dbVars, cache, route, tok, who, snap>>
      /\ \E s \in SUBSET Token : old' = [old EXCEPT ![r] = s]
  BY DEF ListTokens, Goto, Collected, RowsOfUser, AuthInv, TypeOK
<1>2. TypeOK' /\ \A q \in Req \ {r} : LocalsKept(q)
  BY <1>1 DEF AuthInv, TypeOK, PC, dbVars, LocalsKept
<1>3. pc'[r] = "evict"
  BY <1>1 DEF AuthInv, TypeOK
<1>4. RequestInv(r)'
  BY <1>1, <1>3 DEF AuthInv, RequestInv, BearerKnown, LocalsSound, StageSound,
     SnapshotSound, Authenticating, InHandler, Rotating, Deleting, dbVars
<1> QED  BY <1>1, <1>2, <1>4, LocalStepKeeps

LEMMA CloseListKeeps ==
    ASSUME AuthInv, NEW r \in Req, CloseList(r)
    PROVE  AuthInv'
<1>1. /\ pc[r] = "evict" /\ pc' = [pc EXCEPT ![r] = "erase"]
      /\ UNCHANGED <<dbVars, cache, route, tok, who, old, snap>>
  BY DEF CloseList, Goto
<1>2. TypeOK' /\ \A q \in Req \ {r} : LocalsKept(q)
  BY <1>1 DEF AuthInv, TypeOK, PC, dbVars, LocalsKept
<1>3. pc'[r] = "erase"
  BY <1>1 DEF AuthInv, TypeOK
<1>4. RequestInv(r)'
  BY <1>1, <1>3 DEF AuthInv, RequestInv, BearerKnown, LocalsSound, StageSound,
     SnapshotSound, Authenticating, InHandler, Rotating, Deleting, dbVars
<1> QED  BY <1>1, <1>2, <1>4, LocalStepKeeps

(* The cascade takes exactly the rows whose owner is gone. *)
LEMMA EraseUserKeeps ==
    ASSUME AuthInv, NEW r \in Req, EraseUser(r)
    PROVE  AuthInv'
<1>1. /\ users' = [users EXCEPT ![who[r].user] = "deleted"]
      /\ rows' = rows \ RowsOfUser(who[r].user)
      /\ Finish(r) /\ UNCHANGED <<grant, cache>>
  BY DEF EraseUser
<1>2. /\ RequestInv(r)' /\ \A q \in Req \ {r} : LocalsKept(q)
  BY <1>1, FinishSound DEF AuthInv
<1>3. TypeOK'
  BY <1>1, FinishSound DEF AuthInv, TypeOK
<1>4. StoresInv' /\ GrantsKept
  BY <1>1 DEF AuthInv, TypeOK, StoresInv, GrantsKept, RowsOfUser, Grant
<1> QED  BY <1>2, <1>3, <1>4, OneRequestMoves

LEMMA ExpireKeeps ==
    ASSUME AuthInv, NEW t \in Token, Expire(t)
    PROVE  AuthInv'
<1>1. /\ UNCHANGED <<dbVars, reqVars>>
      /\ cache' = [cache EXCEPT ![t] = NoGrant]
  BY DEF Expire
<1>2. TypeOK' /\ StoresInv' /\ GrantsKept
  BY <1>1 DEF AuthInv, TypeOK, StoresInv, dbVars, reqVars, GrantsKept
<1>3. \A r \in Req : LocalsKept(r)
  BY <1>1 DEF reqVars, LocalsKept
<1> QED  BY <1>2, <1>3, Frame DEF AuthInv

-----------------------------------------------------------------------------
LEMMA StepKeeps ==
    ASSUME AuthInv, NEW r \in Req, Step(r)
    PROVE  AuthInv'
<1>1. CASE CacheHit(r)       BY <1>1, CacheHitKeeps
<1>2. CASE CacheMiss(r)      BY <1>2, CacheMissKeeps
<1>3. CASE SelectRow(r)      BY <1>3, SelectRowKeeps
<1>4. CASE FillCache(r)      BY <1>4, FillCacheKeeps
<1>5. CASE SelectForMCP(r)   BY <1>5, SelectForMCPKeeps
<1>6. CASE Respond(r)        BY <1>6, FinishKeeps DEF Respond
<1>7. CASE CollectOld(r)     BY <1>7, CollectOldKeeps
<1>8. CASE DeleteOld(r)      BY <1>8, DeleteOldKeeps
<1>9. CASE Commit(r)         BY <1>9, CommitKeeps
<1>10. CASE RejectInsert(r)  BY <1>10, FinishKeeps DEF RejectInsert
<1>11. CASE PurgeOld(r)      BY <1>11, DelOneKeeps DEF PurgeOld
<1>12. CASE AnswerRotation(r)  BY <1>12, FinishKeeps DEF AnswerRotation
<1>13. CASE ListTokens(r)    BY <1>13, ListTokensKeeps
<1>14. CASE EvictListed(r)   BY <1>14, DelOneKeeps DEF EvictListed
<1>15. CASE CloseList(r)     BY <1>15, CloseListKeeps
<1>16. CASE EraseUser(r)     BY <1>16, EraseUserKeeps
<1> QED  BY <1>1, <1>2, <1>3, <1>4, <1>5, <1>6, <1>7, <1>8, <1>9, <1>10, <1>11,
            <1>12, <1>13, <1>14, <1>15, <1>16 DEF Step

LEMMA InitSound == Init => AuthInv
<1> SUFFICES ASSUME Init PROVE AuthInv
  OBVIOUS
<1>1. TypeOK
  BY DEF Init, TypeOK, PC, AllRoutes
<1>2. StoresInv
  BY DEF Init, StoresInv
<1>3. ASSUME NEW r \in Req PROVE RequestInv(r)
  BY <1>3 DEF Init, RequestInv, BearerKnown, LocalsSound, StageSound,
     SnapshotSound, Authenticating, InHandler, Rotating, Deleting
<1> QED  BY <1>1, <1>2, <1>3 DEF AuthInv

LEMMA NextKeeps == AuthInv /\ [Next]_vars => AuthInv'
<1> SUFFICES ASSUME AuthInv, [Next]_vars PROVE AuthInv'
  OBVIOUS
<1>1. ASSUME NEW r \in Req, NEW o \in Route, NEW t \in Token, Arrive(r, o, t)
      PROVE  AuthInv'
  BY <1>1, ArriveKeeps
<1>2. ASSUME NEW r \in Req, NEW u \in User, NEW k \in Kind, SocialAuth(r, u, k)
      PROVE  AuthInv'
  BY <1>2, SocialAuthKeeps
<1>3. ASSUME NEW r \in Req, NEW u \in User, NEW k \in Kind, RedeemCode(r, u, k)
      PROVE  AuthInv'
  BY <1>3, RedeemCodeKeeps
<1>4. ASSUME NEW r \in Req, Step(r) PROVE AuthInv'
  BY <1>4, StepKeeps
<1>5. ASSUME NEW r \in Req, Abort(r) PROVE AuthInv'
  BY <1>5, FinishKeeps DEF Abort
<1>6. ASSUME NEW t \in Token, Expire(t) PROVE AuthInv'
  BY <1>6, ExpireKeeps
<1>7. CASE UNCHANGED vars
  <2>1. TypeOK' /\ StoresInv' /\ GrantsKept
    BY <1>7 DEF AuthInv, TypeOK, StoresInv, vars, GrantsKept
  <2>2. \A r \in Req : LocalsKept(r)
    BY <1>7 DEF vars, LocalsKept
  <2> QED  BY <2>1, <2>2, Frame DEF AuthInv
<1> QED  BY <1>1, <1>2, <1>3, <1>4, <1>5, <1>6, <1>7 DEF Next

(* AuthInv is an invariant of every instance of Auth. *)
THEOREM Invariance == Spec => []AuthInv
<1> QED  BY InitSound, NextKeeps, PTL DEF Spec

-----------------------------------------------------------------------------
(* Every variable keeps its type. *)
THEOREM TypeCorrect == Spec => []TypeOK
<1>1. AuthInv => TypeOK
  BY DEF AuthInv
<1> QED  BY <1>1, Invariance, PTL

LEMMA IdentityFromInv == AuthInv => IdentityKept
<1> SUFFICES ASSUME AuthInv PROVE IdentityKept
  OBVIOUS
<1>1. \A t \in Token : cache[t] \in {NoGrant, grant[t]}
  BY DEF AuthInv, StoresInv
<1>2. ASSUME NEW r \in Req, pc[r] \in InHandler, tok[r] # NoToken
      PROVE  who[r].user = grant[tok[r]].user
  <2>1. route[r] \in AllRoutes /\ grant[tok[r]] \in Grant
    BY <1>2 DEF AuthInv, TypeOK, RequestInv, BearerKnown
  <2>2. who[r] = Arguments(route[r], grant[tok[r]])
    BY <1>2 DEF AuthInv, RequestInv, LocalsSound
  <2> QED  BY <2>1, <2>2, ArgumentsType
<1> QED  BY <1>1, <1>2 DEF IdentityKept

(* No interleaving of fills, rotations and deletions mixes two credentials *)
(* up: what is cached for a token, and the user a handler acts for, are    *)
(* those the token was issued with.                                        *)
THEOREM IdentityIsKept == Spec => []IdentityKept
BY IdentityFromInv, Invariance, PTL

(* Tokens and accounts change only on behalf of the kinds of bearer that   *)
(* the routes admit, whatever the cache held.                              *)
THEOREM ChangesAreAuthorised == Spec => []ChangesAuthorised
<1>1. AuthInv => ChangesAuthorised
  <2> SUFFICES ASSUME AuthInv, NEW r \in Req, tok[r] # NoToken,
                      pc[r] \in {"commit", "erase"}
               PROVE  /\ grant[tok[r]].kind # "api_key"
                      /\ pc[r] = "commit" /\ who[r].kind = "pairing_token" =>
                            grant[tok[r]].kind = "web_session"
    BY DEF ChangesAuthorised
  <2>1. /\ grant[tok[r]] \in Grant
        /\ grant[tok[r]].kind \in Allowed(route[r])
        /\ who[r] = Arguments(route[r], grant[tok[r]])
    BY DEF AuthInv, TypeOK, RequestInv, BearerKnown, LocalsSound, InHandler
  <2>2. CASE pc[r] = "commit"
    <3>1. route[r] \in RotateRoute
      BY <2>2 DEF AuthInv, RequestInv, BearerKnown, StageSound, Rotating
    <3>2. CASE route[r] = "rotate_pairing"
      BY <2>1, <3>2 DEF Allowed
    <3>3. CASE route[r] = "rotate_api"
      <4>1. who[r].kind = "api_key"
        BY <2>1, <3>3 DEF Arguments, Grant
      <4> QED  BY <2>1, <3>3, <4>1 DEF Allowed
    <3> QED  BY <3>1, <3>2, <3>3 DEF RotateRoute
  <2>3. CASE pc[r] = "erase"
    <3>1. route[r] = "delete_account"
      BY <2>3 DEF AuthInv, RequestInv, StageSound, Deleting
    <3> QED  BY <2>1, <2>3, <3>1 DEF Allowed
  <2> QED  BY <2>2, <2>3
<1> QED  BY <1>1, Invariance, PTL

(* No token row outlives its account. *)
THEOREM TokensHaveOwners == Spec => []NoOrphanTokens
<1>1. AuthInv => NoOrphanTokens
  BY DEF AuthInv, StoresInv, NoOrphanTokens
<1> QED  BY <1>1, Invariance, PTL

(* A token goes only with its account or in exchange for a successor of    *)
(* the same user and kind.                                                 *)
LEMMA StepReplaces ==
    ASSUME AuthInv, Next, NEW t \in rows \ rows'
    PROVE  \/ users'[grant[t].user] = "deleted"
           \/ \E n \in rows' \ rows : grant'[n] = grant[t]
<1>1. PICK r \in Req : Commit(r) \/ EraseUser(r)
  BY DEF Next, Step, Arrive, SocialAuth, RedeemCode, Abort, Expire, CacheHit,
     CacheMiss, SelectRow, FillCache, SelectForMCP, Respond, CollectOld,
     DeleteOld, RejectInsert, PurgeOld, AnswerRotation, ListTokens,
     EvictListed, CloseList, DelOne, dbVars
<1>2. CASE Commit(r)
  <2>1. PICK n \in Token : /\ grant[n] = NoGrant
                           /\ rows' = (rows \ snap[r]) \cup {n}
                           /\ grant' = [grant EXCEPT ![n] = who[r]]
    BY <1>2 DEF Commit
  <2>2. t \in snap[r] /\ grant[t] = who[r]
    BY <2>1 DEF AuthInv, RequestInv, SnapshotSound
  <2>3. n \in rows' \ rows /\ grant'[n] = who[r]
    BY <2>1 DEF AuthInv, TypeOK, StoresInv
  <2> QED  BY <2>2, <2>3
<1>3. CASE EraseUser(r)
  <2>1. /\ users' = [users EXCEPT ![who[r].user] = "deleted"]
        /\ grant[t].user = who[r].user
    BY <1>3 DEF EraseUser, RowsOfUser
  <2>2. grant[t].user \in User
    BY DEF AuthInv, TypeOK, StoresInv, Grant
  <2> QED  BY <2>1, <2>2 DEF AuthInv, TypeOK
<1> QED  BY <1>1, <1>2, <1>3

THEOREM TokensAreReplacedOrErased == Spec => ReplacedOrErased
<1>1. AuthInv /\ [Next]_vars =>
        [\A t \in rows \ rows' :
            \/ users'[grant[t].user] = "deleted"
            \/ \E n \in rows' \ rows : grant'[n] = grant[t]]_vars
  BY StepReplaces
<1> QED  BY <1>1, Invariance, PTL DEF Spec, ReplacedOrErased

-----------------------------------------------------------------------------
(* Over SQLite a transaction is alone, so its DELETE saw every row that    *)
(* its commit has to replace.                                              *)
LEMMA SerialInit == Init => SerialInv
  BY DEF Init, SerialInv, AloneOnConn, SnapshotCurrent, OneTokenPerKind

(* Steps that change neither table leave the three parts alone, provided   *)
(* they enter neither of the places that hold the connection.              *)
LEMMA SerialFrame ==
    ASSUME AuthInv, SerialInv, UNCHANGED <<rows, grant>>,
           \A q \in Req : pc'[q] \in {"commit", "evict"} =>
              pc[q] = pc'[q] /\ who'[q] = who[q] /\ snap'[q] = snap[q]
    PROVE  SerialInv'
<1>1. AloneOnConn'
  BY DEF SerialInv, AloneOnConn
<1>2. SnapshotCurrent'
  BY DEF SerialInv, SnapshotCurrent, RowsOf
<1>3. OneTokenPerKind'
  BY DEF SerialInv, OneTokenPerKind
<1> QED  BY <1>1, <1>2, <1>3 DEF SerialInv

(* A request takes the connection only when no other one holds it. *)
LEMMA SerialTakesConn ==
    ASSUME SingleConn = TRUE, AuthInv, SerialInv, NEW r \in Req, ConnFree(r),
           UNCHANGED <<rows, grant>>, pc[r] \notin {"commit", "evict"},
           \A q \in Req \ {r} : LocalsKept(q), who'[r] = who[r],
           pc'[r] = "commit" => snap'[r] = RowsOf(who[r])
    PROVE  SerialInv'
<1>1. \A q \in Req \ {r} : pc'[q] \notin {"commit", "evict"}
  BY DEF ConnFree, LocalsKept
<1>2. AloneOnConn'
  BY <1>1 DEF AloneOnConn
<1>3. SnapshotCurrent'
  BY <1>1 DEF SnapshotCurrent, RowsOf
<1>4. OneTokenPerKind'
  BY DEF SerialInv, OneTokenPerKind
<1> QED  BY <1>2, <1>3, <1>4 DEF SerialInv

LEMMA SerialCommit ==
    ASSUME AuthInv, SerialInv, NEW r \in Req, Commit(r)
    PROVE  SerialInv'
<1>1. PICK t \in Token : /\ grant[t] = NoGrant
                         /\ rows' = (rows \ snap[r]) \cup {t}
                         /\ grant' = [grant EXCEPT ![t] = who[r]]
  BY DEF Commit
<1>2. pc[r] = "commit" /\ snap[r] = RowsOf(who[r])
  BY DEF Commit, SerialInv, SnapshotCurrent
<1>3. \A q \in Req : pc'[q] \notin {"commit", "evict"}
  BY <1>2 DEF Commit, Goto, AuthInv, TypeOK, SerialInv, AloneOnConn
<1>4. AloneOnConn' /\ SnapshotCurrent'
  BY <1>3 DEF AloneOnConn, SnapshotCurrent
<1>5. OneTokenPerKind'
  <2>1. /\ grant'[t] = who[r]
        /\ \A s \in rows : s # t /\ grant'[s] = grant[s]
    BY <1>1 DEF AuthInv, TypeOK, StoresInv
  <2>2. \A s \in rows' : s # t => s \in rows /\ grant[s] # who[r]
    BY <1>1, <1>2 DEF RowsOf
  <2> QED  BY <2>1, <2>2 DEF SerialInv, OneTokenPerKind
<1> QED  BY <1>4, <1>5 DEF SerialInv

LEMMA SerialErase ==
    ASSUME SingleConn = TRUE, AuthInv, SerialInv, NEW r \in Req, EraseUser(r)
    PROVE  SerialInv'
<1>1. \A q \in Req : pc'[q] \notin {"commit", "evict"}
  BY DEF EraseUser, ConnFree, Finish, Goto, AuthInv, TypeOK
<1>2. AloneOnConn' /\ SnapshotCurrent'
  BY <1>1 DEF AloneOnConn, SnapshotCurrent
<1>3. OneTokenPerKind'
  BY DEF EraseUser, SerialInv, OneTokenPerKind
<1> QED  BY <1>2, <1>3 DEF SerialInv

(* The steps that end a request, or take it to a place outside the         *)
(* transaction and the open result set.                                    *)
LEMMA SerialLeave ==
    ASSUME AuthInv, SerialInv, NEW r \in Req, UNCHANGED <<rows, grant>>,
           pc'[r] \notin {"commit", "evict"},
           \A q \in Req \ {r} : LocalsKept(q)
    PROVE  SerialInv'
  BY SerialFrame DEF LocalsKept

LEMMA SerialFinish ==
    ASSUME AuthInv, SerialInv, NEW r \in Req, UNCHANGED <<rows, grant>>, Finish(r)
    PROVE  SerialInv'
<1>1. pc'[r] = "idle" /\ \A q \in Req \ {r} : LocalsKept(q)
  BY FinishSound DEF AuthInv, TypeOK, Finish, Goto
<1> QED  BY <1>1, SerialLeave

LEMMA SerialAdmit ==
    ASSUME AuthInv, SerialInv, NEW r \in Req, NEW g, UNCHANGED <<rows, grant>>,
           Admit(r, g)
    PROVE  SerialInv'
<1>1. CASE Finish(r)
  BY <1>1, SerialFinish
<1>2. CASE /\ Goto(r, Entry(route[r]))
           /\ who' = [who EXCEPT ![r] = Arguments(route[r], g)]
           /\ UNCHANGED <<route, tok, old, snap>>
  <2>1. Entry(route[r]) \notin {"commit", "evict"}
    BY DEF Entry
  <2>2. pc'[r] \notin {"commit", "evict"} /\ \A q \in Req \ {r} : LocalsKept(q)
    BY <1>2, <2>1 DEF AuthInv, TypeOK, Goto, LocalsKept
  <2> QED  BY <2>2, SerialLeave
<1> QED  BY <1>1, <1>2 DEF Admit

LEMMA SerialStep ==
    ASSUME SingleConn = TRUE, AuthInv, SerialInv, NEW r \in Req, Step(r)
    PROVE  SerialInv'
<1>1. CASE CacheHit(r) \/ FillCache(r)
  BY <1>1, SerialAdmit DEF CacheHit, FillCache, dbVars
<1>2. CASE CacheMiss(r)
  <2>1. /\ UNCHANGED <<rows, grant>> /\ pc'[r] = "select"
        /\ \A q \in Req \ {r} : LocalsKept(q)
    BY <1>2 DEF CacheMiss, dbVars, Goto, AuthInv, TypeOK, LocalsKept
  <2> QED  BY <2>1, SerialLeave
<1>3. CASE SelectRow(r)
  <2>1. CASE Finish(r)
    BY <1>3, <2>1, SerialFinish DEF SelectRow, dbVars
  <2>2. CASE /\ Goto(r, "fill")
             /\ who' = [who EXCEPT ![r] = grant[tok[r]]]
             /\ UNCHANGED <<route, tok, old, snap>>
    <3>1. /\ UNCHANGED <<rows, grant>> /\ pc'[r] = "fill"
          /\ \A q \in Req \ {r} : LocalsKept(q)
      BY <1>3, <2>2 DEF SelectRow, dbVars, Goto, AuthInv, TypeOK, LocalsKept
    <3> QED  BY <3>1, SerialLeave
  <2> QED  BY <1>3, <2>1, <2>2 DEF SelectRow
<1>4. CASE SelectForMCP(r)
  BY <1>4, SerialAdmit, SerialFinish DEF SelectForMCP, dbVars
<1>5. CASE Respond(r) \/ RejectInsert(r) \/ AnswerRotation(r)
  BY <1>5, SerialFinish DEF Respond, RejectInsert, AnswerRotation, dbVars
<1>6. CASE CollectOld(r)
  <2>1. /\ UNCHANGED <<rows, grant>> /\ pc'[r] = "begin"
        /\ \A q \in Req \ {r} : LocalsKept(q)
    BY <1>6 DEF CollectOld, dbVars, Goto, AuthInv, TypeOK, LocalsKept
  <2> QED  BY <2>1, SerialLeave
<1>7. CASE DeleteOld(r)
  <2>1. /\ UNCHANGED <<rows, grant>> /\ ConnFree(r) /\ who'[r] = who[r]
        /\ pc[r] = "begin" /\ snap'[r] = RowsOf(who[r])
        /\ \A q \in Req \ {r} : LocalsKept(q)
    BY <1>7 DEF DeleteOld, dbVars, Goto, AuthInv, TypeOK, LocalsKept
  <2> QED  BY <2>1, SerialTakesConn
<1>8. CASE Commit(r)
  BY <1>8, SerialCommit
<1>9. CASE PurgeOld(r) \/ EvictListed(r)
  BY <1>9, SerialFrame DEF PurgeOld, EvictListed, DelOne, dbVars
<1>10. CASE ListTokens(r)
  <2>1. /\ UNCHANGED <<rows, grant>> /\ ConnFree(r) /\ who'[r] = who[r]
        /\ pc[r] = "list" /\ pc'[r] = "evict"
        /\ \A q \in Req \ {r} : LocalsKept(q)
    BY <1>10 DEF ListTokens, dbVars, Goto, AuthInv, TypeOK, LocalsKept
  <2> QED  BY <2>1, SerialTakesConn
<1>11. CASE CloseList(r)
  <2>1. /\ UNCHANGED <<rows, grant>> /\ pc'[r] = "erase"
        /\ \A q \in Req \ {r} : LocalsKept(q)
    BY <1>11 DEF CloseList, dbVars, Goto, AuthInv, TypeOK, LocalsKept
  <2> QED  BY <2>1, SerialLeave
<1>12. CASE EraseUser(r)
  BY <1>12, SerialErase
<1> QED  BY <1>1, <1>2, <1>3, <1>4, <1>5, <1>6, <1>7, <1>8, <1>9, <1>10, <1>11,
            <1>12 DEF Step

LEMMA SerialNext ==
    SingleConn = TRUE /\ AuthInv /\ SerialInv /\ [Next]_vars => SerialInv'
<1> SUFFICES ASSUME SingleConn = TRUE, AuthInv, SerialInv, [Next]_vars
             PROVE  SerialInv'
  OBVIOUS
<1>1. ASSUME NEW r \in Req, NEW o \in Route, NEW t \in Token, Arrive(r, o, t)
      PROVE  SerialInv'
  <2>1. /\ UNCHANGED <<rows, grant>> /\ pc'[r] \in {"get", "mcp"}
        /\ \A q \in Req \ {r} : LocalsKept(q)
    BY <1>1 DEF Arrive, dbVars, Goto, AuthInv, TypeOK, LocalsKept
  <2> QED  BY <2>1, SerialLeave
<1>2. ASSUME NEW r \in Req, NEW u \in User, NEW k \in Kind,
             SocialAuth(r, u, k) \/ RedeemCode(r, u, k)
      PROVE  SerialInv'
  <2>1. UNCHANGED <<rows, grant>> /\ Issue(r, u, k)
    BY <1>2 DEF SocialAuth, RedeemCode, dbVars
  <2>2. pc'[r] = "collect" /\ \A q \in Req \ {r} : LocalsKept(q)
    BY <2>1 DEF Issue, Goto, AuthInv, TypeOK, LocalsKept
  <2> QED  BY <2>1, <2>2, SerialLeave
<1>3. ASSUME NEW r \in Req, Step(r) PROVE SerialInv'
  BY <1>3, SerialStep
<1>4. ASSUME NEW r \in Req, Abort(r) PROVE SerialInv'
  BY <1>4, SerialFinish DEF Abort, dbVars
<1>5. ASSUME NEW t \in Token, Expire(t) PROVE SerialInv'
  BY <1>5, SerialFrame DEF Expire, dbVars, reqVars
<1>6. CASE UNCHANGED vars
  BY <1>6, SerialFrame DEF vars
<1> QED  BY <1>1, <1>2, <1>3, <1>4, <1>5, <1>6 DEF Next

(* Over SQLite what a transaction's DELETE saw is what there is until its  *)
(* commit, and nothing else holds the connection meanwhile.                *)
THEOREM TransactionsAreAlone ==
    ASSUME SingleConn = TRUE PROVE Spec => []SerialInv
<1>1. Init => AuthInv /\ SerialInv
  BY InitSound, SerialInit
<1>2. AuthInv /\ SerialInv /\ [Next]_vars => AuthInv' /\ SerialInv'
  BY NextKeeps, SerialNext
<1> QED  BY <1>1, <1>2, PTL DEF Spec

(* Over SQLite a user has at most one token of each kind, at every moment. *)
THEOREM AtMostOneToken ==
    ASSUME SingleConn = TRUE PROVE Spec => []OneTokenPerKind
<1>1. Spec => []SerialInv
  BY TransactionsAreAlone
<1>2. SerialInv => OneTokenPerKind
  BY DEF SerialInv
<1> QED  BY <1>1, <1>2, PTL

-----------------------------------------------------------------------------
(* Auth implements Credential: a token once refused stays refused, and no  *)
(* step admits a refused one.                                              *)

(* The four cases of CredStatus exclude one another. *)
LEMMA StatusCases ==
    ASSUME NEW t \in Token, AuthInv
    PROVE  /\ CredStatus(t) = "none" <=> grant[t] = NoGrant
           /\ CredStatus(t) = "live" <=> t \in rows
           /\ CredStatus(t) = "dead" <=> Refused(t)
           /\ CredStatus(t) = "lingering" <=> Revoked(t) /\ ~Refused(t)
           /\ CredStatus(t) \in {"none", "live", "dead", "lingering"}
<1>1. t \in rows => grant[t] # NoGrant
  BY DEF AuthInv, StoresInv
<1>2. CASE grant[t] = NoGrant
  BY <1>1, <1>2 DEF CredStatus, Refused, Revoked
<1>3. CASE grant[t] # NoGrant /\ t \in rows
  BY <1>3 DEF CredStatus, Refused, Revoked
<1>4. CASE grant[t] # NoGrant /\ t \notin rows /\ Refused(t)
  BY <1>4 DEF CredStatus, Revoked
<1>5. CASE grant[t] # NoGrant /\ t \notin rows /\ ~Refused(t)
  BY <1>5 DEF CredStatus, Revoked
<1> QED  BY <1>2, <1>3, <1>4, <1>5

CasesOf(t) ==
    /\ CredStatus(t) = "none" <=> grant[t] = NoGrant
    /\ CredStatus(t) = "live" <=> t \in rows
    /\ CredStatus(t) = "dead" <=> Refused(t)
    /\ CredStatus(t) = "lingering" <=> Revoked(t) /\ ~Refused(t)
    /\ CredStatus(t) \in {"none", "live", "dead", "lingering"}

(* ... before a step and after it. *)
LEMMA StatusCasesPrimed ==
    ASSUME NEW t \in Token
    PROVE  AuthInv' => CasesOf(t)'
<1>1. AuthInv => CasesOf(t)
  BY StatusCases DEF CasesOf
<1> QED  BY <1>1, PTL

(* A token some request presents was issued, and one not refused is usable.*)
LEMMA UsableToken ==
    ASSUME AuthInv, NEW t \in Token, grant[t] # NoGrant, ~Refused(t)
    PROVE  t \in Cred!Usable
<1>1. CredStatus(t) \in {"live", "lingering"}
  BY StatusCases DEF Revoked
<1> QED  BY <1>1 DEF Cred!Usable

-----------------------------------------------------------------------------
(* How sessions move: at most that of one request changes.                 *)
LEMMA SessionsOf ==
    ASSUME AuthInv, AuthInv', NEW r \in Req, \A q \in Req \ {r} : LocalsKept(q),
           \/ CredSession(r)' \in {CredSession(r), NoToken}
           \/ CredSession(r) = NoToken /\ CredSession(r)' \in Cred!Usable
    PROVE  Cred!SessionsMove
<1>1. \A q \in Req : CredSession(q)' \in Token \cup {NoToken}
  BY DEF CredSession, AuthInv, TypeOK
<1>2. \A q \in Req \ {r} : CredSession(q)' = CredSession(q)
  BY DEF CredSession, LocalsKept
<1> QED  BY <1>1, <1>2 DEF Cred!SessionsMove

(* A request that goes on within its handler, or outside of it, or ends.   *)
LEMMA SessionsStay ==
    ASSUME AuthInv, AuthInv', NEW r \in Req, \A q \in Req \ {r} : LocalsKept(q),
           \/ pc'[r] \notin InHandler
           \/ pc[r] \in InHandler /\ tok'[r] = tok[r]
    PROVE  Cred!SessionsMove
<1>1. CredSession(r)' \in {CredSession(r), NoToken}
  BY DEF CredSession
<1> QED  BY <1>1, SessionsOf

LEMMA SessionsFinish ==
    ASSUME AuthInv, AuthInv', NEW r \in Req, Finish(r)
    PROVE  Cred!SessionsMove
<1>1. pc'[r] = "idle" /\ \A q \in Req \ {r} : LocalsKept(q)
  BY FinishSound DEF AuthInv, TypeOK, Finish, Goto
<1> QED  BY <1>1, SessionsStay DEF InHandler

LEMMA SessionsAdmit ==
    ASSUME AuthInv, AuthInv', NEW r \in Req, NEW g, pc[r] \in Authenticating,
           ~Refused(tok[r]), Admit(r, g)
    PROVE  Cred!SessionsMove
<1>1. CASE Finish(r)
  BY <1>1, SessionsFinish
<1>2. CASE /\ Goto(r, Entry(route[r]))
           /\ who' = [who EXCEPT ![r] = Arguments(route[r], g)]
           /\ UNCHANGED <<route, tok, old, snap>>
  <2>1. tok'[r] = tok[r] /\ \A q \in Req \ {r} : LocalsKept(q)
    BY <1>2 DEF AuthInv, TypeOK, Goto, LocalsKept
  <2>2. tok[r] \in Cred!Usable
    BY UsableToken DEF AuthInv, TypeOK, RequestInv, BearerKnown
  <2>3. CredSession(r) = NoToken
    BY DEF CredSession, Authenticating, InHandler
  <2>4. CredSession(r)' \in {tok[r], NoToken}
    BY <2>1 DEF CredSession
  <2> QED  BY <2>1, <2>2, <2>3, <2>4, SessionsOf
<1> QED  BY <1>1, <1>2 DEF Admit

-----------------------------------------------------------------------------
(* How statuses move while the tables stay as they are: at most one        *)
(* lingering token dies.                                                   *)
LEMMA StatusStays ==
    ASSUME AuthInv, AuthInv', UNCHANGED <<rows, grant>>, Cred!SessionsMove,
           \A t \in Token : Refused(t)' <=> Refused(t)
    PROVE  Cred!Use
<1>1. ASSUME NEW t \in Token PROVE CredStatus(t)' = CredStatus(t)
  <2>1. (Revoked(t) /\ ~Refused(t))' <=> Revoked(t) /\ ~Refused(t)
    BY DEF Revoked
  <2> QED  BY <2>1, StatusCases, StatusCasesPrimed DEF CasesOf
<1> QED  BY <1>1 DEF Cred!Use

LEMMA OneLapses ==
    ASSUME AuthInv, AuthInv', UNCHANGED <<rows, grant>>, Cred!SessionsMove,
           NEW x \in Token,
           \A t \in Token \ {x} : Refused(t)' <=> Refused(t),
           Refused(x) => Refused(x)'
    PROVE  Cred!Lapse(x) \/ Cred!Use
<1>1. ASSUME NEW t \in Token, Refused(t)' <=> Refused(t)
      PROVE  CredStatus(t)' = CredStatus(t)
  <2>1. (Revoked(t) /\ ~Refused(t))' <=> Revoked(t) /\ ~Refused(t)
    BY <1>1 DEF Revoked
  <2> QED  BY <1>1, <2>1, StatusCases, StatusCasesPrimed DEF CasesOf
<1>2. CASE Refused(x)' <=> Refused(x)
  BY <1>1, <1>2 DEF Cred!Use
<1>3. CASE Refused(x)' /\ ~Refused(x)
  <2>1. Revoked(x)
    BY <1>3 DEF Refused, Revoked
  <2>2. CredStatus(x) = "lingering" /\ CredStatus(x)' = "dead"
    BY <1>3, <2>1, StatusCases, StatusCasesPrimed DEF CasesOf
  <2>3. \A t \in Token \ {x} : CredStatus(t)' = CredStatus(t)
    BY <1>1
  <2> QED  BY <2>2, <2>3 DEF Cred!Lapse
<1> QED  BY <1>2, <1>3

-----------------------------------------------------------------------------
(* What the steps do to refusal. *)
(* A step of r that is not at its fill, before or after. *)
LEMMA RefusalKept ==
    ASSUME UNCHANGED <<rows, grant, cache>>, NEW r \in Req,
           pc[r] # "fill", pc'[r] # "fill", \A q \in Req \ {r} : LocalsKept(q)
    PROVE  \A t \in Token : Refused(t)' <=> Refused(t)
  BY DEF Refused, Revoked, LocalsKept

(* A step of r away from its fill, which may cache its bearer. *)
LEMMA RefusalAfterFill ==
    ASSUME AuthInv, UNCHANGED <<rows, grant>>, NEW r \in Req,
           pc'[r] # "fill", \A q \in Req \ {r} : LocalsKept(q),
           pc[r] = "fill" => \A t \in Token \ {tok[r]} : cache'[t] = cache[t],
           pc[r] # "fill" => cache' = cache
    PROVE  \/ \A t \in Token : Refused(t)' <=> Refused(t)
           \/ \E x \in Token :
                 /\ \A t \in Token \ {x} : Refused(t)' <=> Refused(t)
                 /\ Refused(x) => Refused(x)'
<1>1. CASE pc[r] # "fill"
  BY <1>1, RefusalKept
<1>2. CASE pc[r] = "fill"
  <2>1. tok[r] \in Token
    BY <1>2 DEF AuthInv, TypeOK, RequestInv, BearerKnown, Authenticating
  <2>2. ~Refused(tok[r])
    BY <1>2 DEF Refused
  <2>3. \A t \in Token \ {tok[r]} : Refused(t)' <=> Refused(t)
    BY <1>2 DEF Refused, Revoked, LocalsKept
  <2> QED  BY <2>1, <2>2, <2>3
<1> QED  BY <1>1, <1>2

(* A step that leaves the places of the requests alone and deletes at most *)
(* the entry of x.                                                         *)
LEMMA RefusalAfterDel ==
    ASSUME UNCHANGED <<rows, grant, pc, tok>>, NEW x \in Token, TypeOK,
           \/ cache' = cache
           \/ cache' = [cache EXCEPT ![x] = NoGrant]
    PROVE  /\ \A t \in Token \ {x} : Refused(t)' <=> Refused(t)
           /\ Refused(x) => Refused(x)'
  BY DEF Refused, Revoked, TypeOK

LEMMA SomeUse == Cred!Use => Cred!Next
  BY DEF Cred!Next

LEMMA SomeLapse ==
    ASSUME NEW x \in Token, Cred!Lapse(x) \/ Cred!Use
    PROVE  Cred!Next
  BY DEF Cred!Next

(* A request ends, with the stores as they were. *)
LEMMA FinishRefines ==
    ASSUME AuthInv, AuthInv', NEW r \in Req, Finish(r),
           UNCHANGED <<rows, grant, cache>>
    PROVE  Cred!Next
<1>1. pc'[r] # "fill" /\ \A q \in Req \ {r} : LocalsKept(q)
  BY FinishSound DEF AuthInv, TypeOK, Finish, Goto
<1>2. Cred!SessionsMove
  BY SessionsFinish
<1>3. CASE \A t \in Token : Refused(t)' <=> Refused(t)
  BY <1>2, <1>3, StatusStays, SomeUse
<1>4. ASSUME NEW x \in Token,
             \A t \in Token \ {x} : Refused(t)' <=> Refused(t),
             Refused(x) => Refused(x)'
      PROVE  Cred!Next
  BY <1>2, <1>4, OneLapses, SomeLapse
<1> QED  BY <1>1, <1>3, <1>4, RefusalAfterFill

(* The middleware passes a bearer that is not refused. *)
LEMMA AdmitRefines ==
    ASSUME AuthInv, AuthInv', NEW r \in Req, NEW g, pc[r] \in Authenticating,
           ~Refused(tok[r]), Admit(r, g), UNCHANGED <<rows, grant>>,
           pc[r] = "fill" => \A t \in Token \ {tok[r]} : cache'[t] = cache[t],
           pc[r] # "fill" => cache' = cache
    PROVE  Cred!Next
<1>1. pc'[r] # "fill" /\ \A q \in Req \ {r} : LocalsKept(q)
  <2>1. CASE Finish(r)
    BY <2>1, FinishSound DEF AuthInv, TypeOK, Finish, Goto
  <2>2. CASE /\ Goto(r, Entry(route[r]))
             /\ who' = [who EXCEPT ![r] = Arguments(route[r], g)]
             /\ UNCHANGED <<route, tok, old, snap>>
    <3>1. Entry(route[r]) # "fill"
      BY DEF Entry
    <3> QED  BY <2>2, <3>1 DEF AuthInv, TypeOK, Goto, LocalsKept
  <2> QED  BY <2>1, <2>2 DEF Admit
<1>2. Cred!SessionsMove
  BY SessionsAdmit
<1>3. CASE \A t \in Token : Refused(t)' <=> Refused(t)
  BY <1>2, <1>3, StatusStays, SomeUse
<1>4. ASSUME NEW x \in Token,
             \A t \in Token \ {x} : Refused(t)' <=> Refused(t),
             Refused(x) => Refused(x)'
      PROVE  Cred!Next
  BY <1>2, <1>4, OneLapses, SomeLapse
<1> QED  BY <1>1, <1>3, <1>4, RefusalAfterFill

(* A step inside the handler, or of the middleware before the kind check,  *)
(* that touches no store.                                                  *)
LEMMA MoveRefines ==
    ASSUME AuthInv, AuthInv', NEW r \in Req, UNCHANGED <<rows, grant, cache>>,
           \A q \in Req \ {r} : LocalsKept(q),
           pc[r] # "fill", pc'[r] # "fill",
           \/ pc'[r] \notin InHandler
           \/ pc[r] \in InHandler /\ tok'[r] = tok[r]
    PROVE  Cred!Next
<1>1. Cred!SessionsMove
  BY SessionsStay
<1>2. \A t \in Token : Refused(t)' <=> Refused(t)
  BY RefusalKept
<1> QED  BY <1>1, <1>2, StatusStays, SomeUse

-----------------------------------------------------------------------------
(* A fill sets out: its token has a row, so nothing is refused by it.      *)
LEMMA SelectRowRefines ==
    ASSUME AuthInv, AuthInv', NEW r \in Req, SelectRow(r)
    PROVE  Cred!Next
<1>1. pc[r] = "select" /\ UNCHANGED <<rows, grant, cache>>
  BY DEF SelectRow, dbVars
<1>2. CASE Finish(r)
  BY <1>1, <1>2, FinishRefines
<1>3. CASE /\ tok[r] \in rows
           /\ Goto(r, "fill")
           /\ who' = [who EXCEPT ![r] = grant[tok[r]]]
           /\ UNCHANGED <<route, tok, old, snap>>
  <2>1. pc'[r] = "fill" /\ tok' = tok /\ \A q \in Req \ {r} : LocalsKept(q)
    BY <1>3 DEF AuthInv, TypeOK, Goto, LocalsKept
  <2>2. \A t \in Token : Refused(t)' <=> Refused(t)
    BY <1>1, <1>3, <2>1 DEF Refused, Revoked, LocalsKept
  <2>3. Cred!SessionsMove
    BY <2>1, SessionsStay DEF InHandler
  <2> QED  BY <1>1, <2>2, <2>3, StatusStays, SomeUse
<1> QED  BY <1>2, <1>3 DEF SelectRow

LEMMA DelOneRefines ==
    ASSUME AuthInv, AuthInv', NEW r \in Req, pc[r] \in InHandler, DelOne(r)
    PROVE  Cred!Next
<1>1. UNCHANGED <<rows, grant, pc, tok>>
  BY DEF DelOne, dbVars
<1>2. \A q \in Req \ {r} : LocalsKept(q)
  BY DEF DelOne, AuthInv, TypeOK, LocalsKept
<1>3. Cred!SessionsMove
  BY <1>1, <1>2, SessionsStay
<1>4. PICK x \in Token : \/ cache' = cache
                         \/ cache' = [cache EXCEPT ![x] = NoGrant]
  BY DEF DelOne, AuthInv, TypeOK
<1>5. /\ \A t \in Token \ {x} : Refused(t)' <=> Refused(t)
      /\ Refused(x) => Refused(x)'
  BY <1>1, <1>4, RefusalAfterDel DEF AuthInv
<1>6. Cred!Lapse(x) \/ Cred!Use
  BY <1>1, <1>3, <1>5, OneLapses
<1> QED  BY <1>6, SomeLapse

LEMMA ExpireRefines ==
    ASSUME AuthInv, AuthInv', NEW x \in Token, Expire(x)
    PROVE  Cred!Next
<1>1. UNCHANGED <<rows, grant, pc, tok>> /\ cache' = [cache EXCEPT ![x] = NoGrant]
  BY DEF Expire, dbVars, reqVars
<1>2. /\ \A t \in Token \ {x} : Refused(t)' <=> Refused(t)
      /\ Refused(x) => Refused(x)'
  BY <1>1, RefusalAfterDel DEF AuthInv
<1>3. \A q \in Req : CredSession(q)' \in Token \cup {NoToken}
                     /\ CredSession(q)' = CredSession(q)
  BY <1>1 DEF CredSession, AuthInv, TypeOK
<1>4. Cred!SessionsMove
  BY <1>3 DEF Cred!SessionsMove
<1>5. Cred!Lapse(x) \/ Cred!Use
  BY <1>1, <1>2, <1>4, OneLapses
<1> QED  BY <1>5, SomeLapse

-----------------------------------------------------------------------------
(* The two steps that revoke. A token they leave alone keeps its status;   *)
(* one they delete from the table lingers or is dead at once.              *)
LEMMA StatusKept ==
    ASSUME AuthInv, AuthInv', NEW t \in Token, grant'[t] = grant[t],
           t \in rows' <=> t \in rows, Refused(t)' <=> Refused(t)
    PROVE  CredStatus(t)' = CredStatus(t)
<1>1. (Revoked(t) /\ ~Refused(t))' <=> Revoked(t) /\ ~Refused(t)
  BY DEF Revoked
<1> QED  BY <1>1, StatusCases, StatusCasesPrimed DEF CasesOf

LEMMA StatusRevoked ==
    ASSUME AuthInv, AuthInv', NEW t \in Token, grant'[t] # NoGrant, t \notin rows'
    PROVE  CredStatus(t)' \in {"dead", "lingering"}
<1>1. CredStatus(t)' # "none" /\ CredStatus(t)' # "live"
  BY StatusCasesPrimed DEF CasesOf
<1> QED  BY <1>1, StatusCasesPrimed DEF CasesOf

LEMMA CommitRefines ==
    ASSUME AuthInv, AuthInv', NEW r \in Req, Commit(r)
    PROVE  Cred!Next
<1> DEFINE S == rows \cap snap[r]
           D == {s \in S : CredStatus(s)' = "dead"}
<1>1. /\ pc[r] = "commit" /\ pc' = [pc EXCEPT ![r] = "purge"]
      /\ snap' = [snap EXCEPT ![r] = {}]
      /\ UNCHANGED <<users, cache, route, tok, who, old>>
  BY DEF Commit, Goto
<1>2. PICK n \in Token : /\ grant[n] = NoGrant
                         /\ rows' = (rows \ snap[r]) \cup {n}
                         /\ grant' = [grant EXCEPT ![n] = who[r]]
  BY DEF Commit
<1>3. who[r] \in Grant /\ who[r] # NoGrant
  BY <1>1 DEF AuthInv, TypeOK, RequestInv, LocalsSound, InHandler
<1>4. pc'[r] = "purge" /\ \A q \in Req \ {r} : LocalsKept(q)
  BY <1>1 DEF AuthInv, TypeOK, LocalsKept
<1>5. Cred!SessionsMove
  BY <1>1, <1>4, SessionsStay DEF InHandler
<1>6. S \subseteq Token /\ \A s \in S : CredStatus(s) = "live" /\ grant[s] = who[r]
  BY StatusCases DEF AuthInv, TypeOK, RequestInv, SnapshotSound
<1>7. n \notin rows /\ grant'[n] = who[r]
      /\ \A t \in Token \ {n} : grant'[t] = grant[t]
  BY <1>2 DEF AuthInv, TypeOK, StoresInv
<1>8. CredStatus(n) = "none" /\ CredStatus(n)' = "live"
  BY <1>2, StatusCases, StatusCasesPrimed DEF CasesOf
<1>9. ASSUME NEW t \in Token, t # n, t \notin S
      PROVE  CredStatus(t)' = CredStatus(t)
  <2>1. t \in rows' <=> t \in rows
    BY <1>2, <1>9
  <2>2. Refused(t)' <=> Refused(t)
    BY <1>1, <1>4, <1>7, <1>9, <2>1 DEF Refused, Revoked, LocalsKept
  <2> QED  BY <1>7, <1>9, <2>1, <2>2, StatusKept
<1>10. ASSUME NEW t \in S
       PROVE  t # n /\ CredStatus(t)' \in {"dead", "lingering"}
  <2>1. t \in Token /\ t # n /\ t \notin rows' /\ grant'[t] # NoGrant
    BY <1>2, <1>3, <1>6, <1>7
  <2> QED  BY <2>1, StatusRevoked
<1>11. [t \in Token |-> CredStatus(t)'] =
       [Cred!Revoke(S, D) EXCEPT ![n] = "live"]
  BY <1>8, <1>9, <1>10, <1>6 DEF Cred!Revoke
<1>12. who[r] \in Cred!Grants
  BY <1>3 DEF Cred!Grants, Grant
<1>13. S \in SUBSET {s \in Cred!Live : grant[s] = who[r]} /\ D \in SUBSET S
  BY <1>6 DEF Cred!Live
<1>14. Cred!Issue(n, who[r])
  BY <1>2, <1>5, <1>8, <1>11, <1>13 DEF Cred!Issue
<1> QED  BY <1>12, <1>14 DEF Cred!Next

LEMMA EraseRefines ==
    ASSUME AuthInv, AuthInv', NEW r \in Req, EraseUser(r)
    PROVE  Cred!Next
<1> DEFINE u == who[r].user
           S == {t \in Cred!Live : grant[t].user = u}
           D == {s \in S : CredStatus(s)' = "dead"}
<1>1. /\ pc[r] = "erase" /\ Finish(r) /\ UNCHANGED <<grant, cache>>
      /\ rows' = rows \ RowsOfUser(u)
  BY DEF EraseUser
<1>2. u \in User
  BY <1>1 DEF AuthInv, TypeOK, RequestInv, LocalsSound, InHandler, Grant
<1>3. pc'[r] # "fill" /\ \A q \in Req \ {r} : LocalsKept(q)
  BY <1>1, FinishSound DEF AuthInv, TypeOK, Finish, Goto
<1>4. Cred!SessionsMove
  BY <1>1, SessionsFinish
<1>5. S \subseteq Token /\ \A t \in Token : t \in S <=> t \in RowsOfUser(u)
  BY StatusCases DEF Cred!Live, RowsOfUser
<1>6. ASSUME NEW t \in Token, t \notin S PROVE CredStatus(t)' = CredStatus(t)
  <2>1. t \in rows' <=> t \in rows
    BY <1>1, <1>5, <1>6
  <2>2. Refused(t)' <=> Refused(t)
    BY <1>1, <1>3, <2>1 DEF Refused, Revoked, LocalsKept
  <2> QED  BY <1>1, <2>1, <2>2, StatusKept
<1>7. ASSUME NEW t \in S PROVE CredStatus(t)' \in {"dead", "lingering"}
  <2>1. t \in Token /\ t \notin rows' /\ grant'[t] # NoGrant
    BY <1>1, <1>5 DEF AuthInv, StoresInv, RowsOfUser
  <2> QED  BY <2>1, StatusRevoked
<1>8. [t \in Token |-> CredStatus(t)'] = Cred!Revoke(S, D)
  BY <1>5, <1>6, <1>7 DEF Cred!Revoke
<1>9. D \in SUBSET Cred!Live /\ \A t \in D : grant[t].user = u
  OBVIOUS
<1>10. Cred!Erase(u)
  BY <1>1, <1>4, <1>8, <1>9 DEF Cred!Erase
<1> QED  BY <1>2, <1>10 DEF Cred!Next

-----------------------------------------------------------------------------
LEMMA StepRefines ==
    ASSUME AuthInv, AuthInv', NEW r \in Req, Step(r)
    PROVE  Cred!Next
<1>1. CASE CacheHit(r)
  <2>1. pc[r] \in Authenticating /\ pc[r] # "fill" /\ cache[tok[r]] # NoGrant
    BY <1>1 DEF CacheHit, Authenticating
  <2>2. ~Refused(tok[r])
    BY <2>1 DEF Refused
  <2> QED  BY <1>1, <2>1, <2>2, AdmitRefines DEF CacheHit, dbVars
<1>2. CASE CacheMiss(r)
  <2>1. /\ UNCHANGED <<rows, grant, cache>> /\ pc[r] = "get" /\ pc'[r] = "select"
        /\ \A q \in Req \ {r} : LocalsKept(q)
    BY <1>2 DEF CacheMiss, dbVars, Goto, AuthInv, TypeOK, LocalsKept
  <2> QED  BY <2>1, MoveRefines DEF InHandler
<1>3. CASE SelectRow(r)
  BY <1>3, SelectRowRefines
<1>4. CASE FillCache(r)
  <2>1. /\ pc[r] = "fill" /\ UNCHANGED <<rows, grant>> /\ Admit(r, who[r])
        /\ \A t \in Token \ {tok[r]} : cache'[t] = cache[t]
    BY <1>4 DEF FillCache, dbVars, AuthInv, TypeOK
  <2>2. ~Refused(tok[r])
    BY <2>1 DEF Refused
  <2> QED  BY <2>1, <2>2, AdmitRefines DEF Authenticating
<1>5. CASE SelectForMCP(r)
  <2>1. pc[r] = "mcp" /\ UNCHANGED <<rows, grant, cache>>
    BY <1>5 DEF SelectForMCP, dbVars
  <2>2. CASE Finish(r)
    BY <2>1, <2>2, FinishRefines
  <2>3. CASE tok[r] \in rows /\ Admit(r, grant[tok[r]])
    <3>1. ~Refused(tok[r])
      BY <2>3 DEF Refused, Revoked
    <3> QED  BY <2>1, <2>3, <3>1, AdmitRefines DEF Authenticating
  <2> QED  BY <1>5, <2>2, <2>3 DEF SelectForMCP
<1>6. CASE Respond(r) \/ RejectInsert(r) \/ AnswerRotation(r)
  BY <1>6, FinishRefines DEF Respond, RejectInsert, AnswerRotation, dbVars
<1>7. CASE CollectOld(r)
  <2>1. /\ UNCHANGED <<rows, grant, cache, tok>> /\ pc[r] = "collect"
        /\ pc'[r] = "begin" /\ \A q \in Req \ {r} : LocalsKept(q)
    BY <1>7 DEF CollectOld, dbVars, Goto, AuthInv, TypeOK, LocalsKept
  <2> QED  BY <2>1, MoveRefines DEF InHandler
<1>8. CASE DeleteOld(r)
  <2>1. /\ UNCHANGED <<rows, grant, cache, tok>> /\ pc[r] = "begin"
        /\ pc'[r] = "commit" /\ \A q \in Req \ {r} : LocalsKept(q)
    BY <1>8 DEF DeleteOld, dbVars, Goto, AuthInv, TypeOK, LocalsKept
  <2> QED  BY <2>1, MoveRefines DEF InHandler
<1>9. CASE Commit(r)
  BY <1>9, CommitRefines
<1>10. CASE PurgeOld(r) \/ EvictListed(r)
  BY <1>10, DelOneRefines DEF PurgeOld, EvictListed, InHandler
<1>11. CASE ListTokens(r)
  <2>1. /\ UNCHANGED <<rows, grant, cache, tok>> /\ pc[r] = "list"
        /\ pc'[r] = "evict" /\ \A q \in Req \ {r} : LocalsKept(q)
    BY <1>11 DEF ListTokens, dbVars, Goto, AuthInv, TypeOK, LocalsKept
  <2> QED  BY <2>1, MoveRefines DEF InHandler
<1>12. CASE CloseList(r)
  <2>1. /\ UNCHANGED <<rows, grant, cache, tok>> /\ pc[r] = "evict"
        /\ pc'[r] = "erase" /\ \A q \in Req \ {r} : LocalsKept(q)
    BY <1>12 DEF CloseList, dbVars, Goto, AuthInv, TypeOK, LocalsKept
  <2> QED  BY <2>1, MoveRefines DEF InHandler
<1>13. CASE EraseUser(r)
  BY <1>13, EraseRefines
<1> QED  BY <1>1, <1>2, <1>3, <1>4, <1>5, <1>6, <1>7, <1>8, <1>9, <1>10, <1>11,
            <1>12, <1>13 DEF Step

LEMMA NextTakesCredStep ==
    ASSUME AuthInv, AuthInv', Next
    PROVE  Cred!Next
<1>1. ASSUME NEW r \in Req, NEW o \in Route, NEW t \in Token, Arrive(r, o, t)
      PROVE  Cred!Next
  <2>1. /\ UNCHANGED <<rows, grant, cache>> /\ pc[r] = "idle"
        /\ pc'[r] \in {"get", "mcp"} /\ \A q \in Req \ {r} : LocalsKept(q)
    BY <1>1 DEF Arrive, dbVars, Goto, AuthInv, TypeOK, LocalsKept
  <2> QED  BY <2>1, MoveRefines DEF InHandler
<1>2. ASSUME NEW r \in Req, NEW u \in User, NEW k \in Kind,
             SocialAuth(r, u, k) \/ RedeemCode(r, u, k)
      PROVE  Cred!Next
  <2>1. /\ UNCHANGED <<rows, grant, cache>> /\ pc[r] = "idle" /\ Issue(r, u, k)
    BY <1>2 DEF SocialAuth, RedeemCode, dbVars
  <2>2. /\ pc'[r] = "collect" /\ tok' = tok
        /\ \A q \in Req \ {r} : LocalsKept(q)
    BY <2>1 DEF Issue, Goto, AuthInv, TypeOK, LocalsKept
  <2>3. tok[r] = NoToken
    BY <2>1 DEF AuthInv, RequestInv, BearerKnown
  <2>4. CredSession(r)' \in {CredSession(r), NoToken}
    BY <2>2, <2>3 DEF CredSession
  <2>5. Cred!SessionsMove
    BY <2>2, <2>4, SessionsOf
  <2>6. \A t \in Token : Refused(t)' <=> Refused(t)
    BY <2>1, <2>2, RefusalKept
  <2> QED  BY <2>1, <2>5, <2>6, StatusStays, SomeUse
<1>3. ASSUME NEW r \in Req, Step(r) PROVE Cred!Next
  BY <1>3, StepRefines
<1>4. ASSUME NEW r \in Req, Abort(r) PROVE Cred!Next
  BY <1>4, FinishRefines DEF Abort, dbVars
<1>5. ASSUME NEW t \in Token, Expire(t) PROVE Cred!Next
  BY <1>5, ExpireRefines
<1> QED  BY <1>1, <1>2, <1>3, <1>4, <1>5 DEF Next

LEMMA NextRefines ==
    AuthInv /\ AuthInv' /\ [Next]_vars => [Cred!Next]_(Cred!cvars)
<1>1. UNCHANGED vars => UNCHANGED Cred!cvars
  BY DEF vars, Cred!cvars, CredStatus, CredSession, Refused, Revoked
<1> QED  BY <1>1, NextTakesCredStep

LEMMA InitRefines == Init => Cred!Init
<1> SUFFICES ASSUME Init PROVE Cred!Init
  OBVIOUS
<1>1. \A t \in Token : CredStatus(t) = "none"
  BY InitSound, StatusCases DEF Init
<1>2. \A r \in Req : CredSession(r) = NoToken
  BY DEF Init, CredSession, InHandler
<1> QED  BY <1>1, <1>2 DEF Init, Cred!Init

(* The table, the cache and the requests in flight behave like credentials *)
(* that once refused are never accepted again.                             *)
THEOREM AuthImplementsCredential == Spec => ImplementsCredential
<1> QED  BY InitRefines, NextRefines, Invariance, PTL
         DEF Spec, ImplementsCredential, Cred!Spec

-----------------------------------------------------------------------------
(* Why a revoked token may still be cached: the list of AuthAudit is       *)
(* complete. What the claim needs to be inductive is the case of a fill    *)
(* that has read the row and not yet written the entry.                    *)
Filling(t) == \E r \in Req : pc[r] = "fill" /\ tok[r] = t
Purging(t) == \E q \in Req : pc[q] = "purge" /\ t \in old[q]

Explained(t) ==
    Revoked(t) =>
        /\ Filling(t) => excuse[t] # {}
        /\ cache[t] # NoGrant => excuse[t] # {} \/ Purging(t)

AuditInv ==
    /\ AuthInv
    /\ excuse \in [Token -> SUBSET Excuse]
    /\ \A t \in Token : Explained(t)

(* A step of one request leaves the locals of all others alone. *)
LEMMA OthersKept ==
    ASSUME AuthInv, NEW r \in Req, Step(r) \/ Abort(r)
    PROVE  \A q \in Req \ {r} : LocalsKept(q)
<1> USE DEF LocalsKept
<1>1. Finish(r) => \A q \in Req \ {r} : LocalsKept(q)
  BY FinishSound DEF AuthInv
<1>2. ASSUME NEW g, Admit(r, g)
      PROVE  \A q \in Req \ {r} : LocalsKept(q)
  BY <1>1, <1>2 DEF Admit, Goto, AuthInv, TypeOK
<1>3. CASE CacheHit(r) \/ FillCache(r)
  BY <1>2, <1>3 DEF CacheHit, FillCache
<1>4. CASE SelectForMCP(r)
  BY <1>1, <1>2, <1>4 DEF SelectForMCP
<1>5. CASE SelectRow(r)
  BY <1>1, <1>5 DEF SelectRow, Goto, AuthInv, TypeOK
<1>6. CASE CacheMiss(r) \/ DeleteOld(r) \/ CloseList(r)
  BY <1>6 DEF CacheMiss, DeleteOld, CloseList, Goto, AuthInv, TypeOK
<1>7. CASE CollectOld(r) \/ ListTokens(r)
  BY <1>7 DEF CollectOld, ListTokens, Goto, AuthInv, TypeOK
<1>8. CASE Commit(r)
  BY <1>8 DEF Commit, Goto, AuthInv, TypeOK
<1>9. CASE PurgeOld(r) \/ EvictListed(r)
  BY <1>9 DEF PurgeOld, EvictListed, DelOne, AuthInv, TypeOK
<1>10. CASE \/ Respond(r) \/ RejectInsert(r) \/ AnswerRotation(r)
            \/ EraseUser(r) \/ Abort(r)
  BY <1>1, <1>10 DEF Respond, RejectInsert, AnswerRotation, EraseUser, Abort
<1> QED  BY <1>3, <1>4, <1>5, <1>6, <1>7, <1>8, <1>9, <1>10 DEF Step

(* The arrival of a request, too, and the expiry of an entry. *)
LEMMA EveryStep ==
    ASSUME AuthInv, Next
    PROVE  \/ \E r \in Req : Step(r) \/ Abort(r)
           \/ /\ \A q \in Req : \/ LocalsKept(q)
                                \/ /\ pc[q] = "idle"
                                   /\ pc'[q] \in {"get", "mcp", "collect"}
              /\ \A t \in Token : cache'[t] \in {cache[t], NoGrant}
              /\ UNCHANGED <<rows, grant>>
<1>1. ASSUME NEW r \in Req, NEW o \in Route, NEW t \in Token, Arrive(r, o, t)
      PROVE  /\ pc[r] = "idle" /\ pc'[r] \in {"get", "mcp"}
             /\ \A q \in Req \ {r} : LocalsKept(q)
             /\ UNCHANGED <<rows, grant, cache>>
  BY <1>1 DEF Arrive, dbVars, Goto, AuthInv, TypeOK, LocalsKept
<1>2. ASSUME NEW r \in Req, NEW u \in User, NEW k \in Kind,
             SocialAuth(r, u, k) \/ RedeemCode(r, u, k)
      PROVE  /\ pc[r] = "idle" /\ pc'[r] = "collect"
             /\ \A q \in Req \ {r} : LocalsKept(q)
             /\ UNCHANGED <<rows, grant, cache>>
  BY <1>2 DEF SocialAuth, RedeemCode, dbVars, Issue, Goto, AuthInv, TypeOK,
              LocalsKept
<1>3. ASSUME NEW t \in Token, Expire(t)
      PROVE  /\ \A q \in Req : LocalsKept(q)
             /\ \A s \in Token : cache'[s] \in {cache[s], NoGrant}
             /\ UNCHANGED <<rows, grant>>
  BY <1>3 DEF Expire, dbVars, reqVars, AuthInv, TypeOK, LocalsKept
<1> QED  BY <1>1, <1>2, <1>3 DEF Next

(* Where a request goes when it passes the kind check, or does not. *)
LEMMA AdmitLeaves ==
    ASSUME AuthInv, NEW r \in Req, NEW g, Admit(r, g)
    PROVE  pc'[r] \in {"idle", "collect", "list", "serve"}
  BY DEF Admit, Finish, Goto, Entry, AuthInv, TypeOK

(* A fill starts with a row that is still there. *)
LEMMA FillsStartLive ==
    ASSUME AuthInv, Next, NEW t \in Token, Filling(t)'
    PROVE  Filling(t) \/ t \in rows
<1>1. PICK q \in Req : pc'[q] = "fill" /\ tok'[q] = t
  BY DEF Filling
<1>2. CASE LocalsKept(q)
  BY <1>1, <1>2 DEF LocalsKept, Filling
<1>3. CASE Step(q) \/ Abort(q)
  <2>1. SelectRow(q)
    BY <1>1, <1>3, AdmitLeaves DEF Step, CacheHit, CacheMiss, FillCache,
       SelectForMCP, Respond, CollectOld, DeleteOld, Commit, RejectInsert,
       PurgeOld, AnswerRotation, ListTokens, EvictListed, CloseList,
       EraseUser, Abort, DelOne, Finish, Goto, AuthInv, TypeOK
  <2> QED  BY <1>1, <2>1 DEF SelectRow, Finish, Goto, AuthInv, TypeOK
<1> QED  BY <1>1, <1>2, <1>3, EveryStep, OthersKept

(* An entry appears at the end of a fill. *)
LEMMA EntriesAreFilled ==
    ASSUME AuthInv, Next, NEW t \in Token,
           cache'[t] # NoGrant, cache[t] = NoGrant
    PROVE  Filling(t)
<1>1. PICK r \in Req : Step(r) \/ Abort(r)
  BY EveryStep
<1>2. FillCache(r)
  BY <1>1 DEF Step, CacheHit, CacheMiss, SelectRow, SelectForMCP, Respond,
     CollectOld, DeleteOld, Commit, RejectInsert, PurgeOld, AnswerRotation,
     ListTokens, EvictListed, CloseList, EraseUser, Abort, DelOne,
     AuthInv, TypeOK
<1> QED  BY <1>2 DEF FillCache, Filling, AuthInv, TypeOK

(* A hash listed for Del stays listed, or its entry is deleted, or the Del *)
(* is lost.                                                                *)
LEMMA PurgesEnd ==
    ASSUME AuthInv, Next, NEW t \in Token, NEW q \in Req,
           pc[q] = "purge", t \in old[q], cache'[t] # NoGrant
    PROVE  \/ pc'[q] = "purge" /\ t \in old'[q]
           \/ Faulty /\ t \notin old'[q]
<1>1. CASE LocalsKept(q)
  BY <1>1 DEF LocalsKept
<1>2. CASE Step(q) \/ Abort(q)
  <2>1. PurgeOld(q) \/ Abort(q)
    BY <1>2 DEF Step, CacheHit, CacheMiss, SelectRow, FillCache, SelectForMCP,
       Respond, CollectOld, DeleteOld, Commit, RejectInsert, AnswerRotation,
       ListTokens, EvictListed, CloseList, EraseUser
  <2>2. CASE PurgeOld(q)
    BY <2>2 DEF PurgeOld, DelOne, AuthInv, TypeOK
  <2>3. CASE Abort(q)
    BY <2>3 DEF Abort, Finish, AuthInv, TypeOK
  <2> QED  BY <2>1, <2>2, <2>3
<1> QED  BY <1>1, <1>2, EveryStep, OthersKept

(* A token is revoked by the commit or the deletion of one request.        *)
LEMMA RevokedByOne ==
    ASSUME AuthInv, Next, NEW t \in Token, t \in rows, t \notin rows'
    PROVE  /\ cache'[t] = cache[t]
           /\ \E q \in Req : \/ RotatedBy(q, t) /\ old'[q] = old[q]
                             \/ ErasedBy(q, t)
<1>1. PICK q \in Req : Step(q) \/ Abort(q)
  BY EveryStep
<1>2. CASE Commit(q)
  <2>1. t \in snap[q]
    BY <1>2 DEF Commit
  <2> QED  BY <1>2, <2>1 DEF Commit, RotatedBy, Goto, AuthInv, TypeOK
<1>3. CASE EraseUser(q)
  BY <1>3 DEF EraseUser, RowsOfUser, ErasedBy, Finish, Goto, AuthInv, TypeOK
<1>4. Commit(q) \/ EraseUser(q)
  BY <1>1 DEF Step, CacheHit, CacheMiss, SelectRow, FillCache, SelectForMCP,
     Respond, CollectOld, DeleteOld, RejectInsert, PurgeOld, AnswerRotation,
     ListTokens, EvictListed, CloseList, Abort, DelOne, dbVars
<1> QED  BY <1>2, <1>3, <1>4

(* An issued token never becomes another one, and never comes back.        *)
LEMMA RevokedForGood ==
    ASSUME AuthInv, Next, NEW t \in Token, t \in rows'
    PROVE  t \in rows \/ grant[t] = NoGrant
<1>1. CASE \E q \in Req : Commit(q)
  BY <1>1 DEF Commit
<1>2. CASE \A q \in Req : ~Commit(q)
  <2>1. ASSUME NEW q \in Req, Step(q) \/ Abort(q)
        PROVE  rows' \subseteq rows
    BY <1>2, <2>1 DEF Step, CacheHit, CacheMiss, SelectRow, FillCache,
       SelectForMCP, Respond, CollectOld, DeleteOld, RejectInsert, PurgeOld,
       AnswerRotation, ListTokens, EvictListed, CloseList, EraseUser, Abort,
       DelOne, dbVars
  <2> QED  BY <2>1, EveryStep
<1> QED  BY <1>1, <1>2

LEMMA GrantsFromRows ==
    ASSUME AuthInv, Next, NEW t \in Token, grant[t] = NoGrant, grant'[t] # NoGrant
    PROVE  t \in rows'
<1>1. PICK q \in Req : Step(q) \/ Abort(q)
  BY EveryStep
<1>2. Commit(q)
  BY <1>1 DEF Step, CacheHit, CacheMiss, SelectRow, FillCache, SelectForMCP,
     Respond, CollectOld, DeleteOld, RejectInsert, PurgeOld, AnswerRotation,
     ListTokens, EvictListed, CloseList, EraseUser, Abort, DelOne, dbVars
<1> QED  BY <1>2 DEF Commit, AuthInv, TypeOK

(* An excuse, once recorded, lasts as long as it is needed. *)
LEMMA ExcusesLast ==
    ASSUME AuditNext, NEW t \in Token, ~Refused(t)',
           excuse[t] # {} \/ \E e \in Excuse : Happens(e, t)
    PROVE  excuse'[t] # {}
<1>1. excuse'[t] = IF Refused(t)' THEN {}
                   ELSE IF excuse[t] # {} THEN excuse[t]
                   ELSE {e \in Excuse : Happens(e, t)}
  BY DEF AuditNext
<1> QED  BY <1>1

LEMMA Recorded ==
    ASSUME AuditInv, AuditNext, NEW t \in Token
    PROVE  Explained(t)'
<1> SUFFICES ASSUME Revoked(t)', Filling(t)' \/ (cache[t] # NoGrant)'
             PROVE  /\ Filling(t)' => excuse'[t] # {}
                    /\ cache'[t] # NoGrant => excuse'[t] # {} \/ Purging(t)'
  BY DEF Explained
<1> USE DEF AuditNext
<1>1. AuthInv /\ Next /\ Explained(t)
  BY DEF AuditInv
<1>2. ~Refused(t)'
  BY DEF Refused, Filling
<1>3. t \notin rows' /\ grant[t] # NoGrant
  BY <1>1, GrantsFromRows DEF Revoked
<1>4. CASE t \notin rows
  <2>1. Revoked(t)
    BY <1>3, <1>4 DEF Revoked
  <2>2. Filling(t)' => Filling(t)
    BY <1>1, <1>4, FillsStartLive
  <2>3. Filling(t) => excuse'[t] # {}
    BY <1>1, <1>2, <2>1, ExcusesLast DEF Explained
  <2>4. ASSUME cache'[t] # NoGrant
        PROVE  excuse'[t] # {} \/ Purging(t)'
    <3>1. CASE cache[t] = NoGrant
      BY <1>1, <2>3, <2>4, <3>1, EntriesAreFilled
    <3>2. CASE excuse[t] # {}
      BY <1>2, <3>2, ExcusesLast
    <3>3. CASE Purging(t)
      <4>1. PICK q \in Req : pc[q] = "purge" /\ t \in old[q]
        BY <3>3 DEF Purging
      <4>2. CASE pc'[q] = "purge" /\ t \in old'[q]
        BY <4>2 DEF Purging
      <4>3. CASE Faulty /\ t \notin old'[q]
        <5>1. Happens("del_lost", t)
          BY <2>4, <4>1, <4>3 DEF Happens
        <5> QED  BY <1>2, <5>1, ExcusesLast DEF Excuse
      <4> QED  BY <1>1, <2>4, <4>1, <4>2, <4>3, PurgesEnd
    <3> QED  BY <1>1, <2>1, <3>1, <3>2, <3>3 DEF Explained
  <2> QED  BY <2>2, <2>3, <2>4
<1>5. CASE t \in rows
  <2>1. ASSUME Filling(t)'
        PROVE  excuse'[t] # {}
    <3>1. Filling(t)
      <4>1. PICK r \in Req : pc'[r] = "fill" /\ tok'[r] = t
        BY <2>1 DEF Filling
      <4>2. PICK q \in Req : Commit(q) \/ EraseUser(q)
        BY <1>1, <1>3, <1>5 DEF Next, Step, Arrive, SocialAuth, RedeemCode,
           Abort, Expire, CacheHit, CacheMiss, SelectRow, FillCache,
           SelectForMCP, Respond, CollectOld, DeleteOld, RejectInsert,
           PurgeOld, AnswerRotation, ListTokens, EvictListed, CloseList,
           DelOne, dbVars
      <4>3. r # q
        BY <1>1, <4>1, <4>2 DEF Commit, EraseUser, Finish, Goto, AuthInv, TypeOK
      <4>4. LocalsKept(r)
        BY <1>1, <4>2, <4>3, OthersKept DEF Step
      <4> QED  BY <4>1, <4>4 DEF LocalsKept, Filling
    <3>2. Happens("fill_in_flight", t)
      BY <1>3, <1>5, <3>1 DEF Happens, Filling
    <3> QED  BY <1>2, <3>2, ExcusesLast DEF Excuse
  <2>2. ASSUME cache'[t] # NoGrant
        PROVE  excuse'[t] # {} \/ Purging(t)'
    <3>1. PICK q \in Req : \/ RotatedBy(q, t) /\ old'[q] = old[q]
                           \/ ErasedBy(q, t)
      BY <1>1, <1>3, <1>5, RevokedByOne
    <3>2. CASE RotatedBy(q, t) /\ old'[q] = old[q] /\ t \in old[q]
      BY <3>2 DEF RotatedBy, Purging
    <3>3. CASE RotatedBy(q, t) /\ t \notin old[q]
      <4>1. Happens("not_collected", t)
        BY <3>3 DEF Happens
      <4> QED  BY <1>2, <4>1, ExcusesLast DEF Excuse
    <3>4. CASE ErasedBy(q, t)
      <4>1. Happens("evicted_early", t)
        BY <1>1, <1>3, <1>5, <2>2, <3>4, RevokedByOne DEF Happens
      <4> QED  BY <1>2, <4>1, ExcusesLast DEF Excuse
    <3> QED  BY <3>1, <3>2, <3>3, <3>4
  <2> QED  BY <2>1, <2>2
<1> QED  BY <1>4, <1>5

(* The explanation holds in every instance, faults or none. *)
THEOREM StaleEntriesAreExplained == AuditSpec => []StaleEntriesExplained
<1>1. AuditInit => AuditInv
  <2> SUFFICES ASSUME AuditInit PROVE AuditInv
    OBVIOUS
  <2>1. AuthInv
    BY InitSound DEF AuditInit
  <2>2. \A t \in Token : grant[t] = NoGrant /\ excuse = [s \in Token |-> {}]
    BY DEF AuditInit, Init
  <2> QED  BY <2>1, <2>2 DEF AuditInv, AuditInit, Explained, Revoked
<1>2. AuditInv /\ [AuditNext]_<<vars, excuse>> => AuditInv'
  <2> SUFFICES ASSUME AuditInv, [AuditNext]_<<vars, excuse>> PROVE AuditInv'
    OBVIOUS
  <2>1. CASE AuditNext
    <3>1. AuthInv'
      BY <2>1, NextKeeps DEF AuditInv, AuditNext
    <3>2. excuse' \in [Token -> SUBSET Excuse]
      BY <2>1 DEF AuditInv, AuditNext
    <3>3. \A t \in Token : Explained(t)'
      BY <2>1, Recorded
    <3> QED  BY <3>1, <3>2, <3>3 DEF AuditInv
  <2>2. CASE UNCHANGED <<vars, excuse>>
    <3>1. AuthInv'
      BY <2>2, NextKeeps DEF AuditInv
    <3>2. \A t \in Token : Explained(t)'
      BY <2>2 DEF AuditInv, Explained, Revoked, Filling, Purging, vars
    <3> QED  BY <2>2, <3>1, <3>2 DEF AuditInv
  <2> QED  BY <2>1, <2>2
<1>3. AuditInv => StaleEntriesExplained
  BY DEF AuditInv, Explained, Purging, StaleEntriesExplained
<1> QED  BY <1>1, <1>2, <1>3, PTL DEF AuditSpec

-----------------------------------------------------------------------------
(* Auth implements Account. Most of it follows from what the tokens do; of *)
(* the users it takes that a name that is in use is that of an account.    *)
NamesKnown ==
    /\ \A t \in Token : grant[t] # NoGrant => users[grant[t].user] # "none"
    /\ \A r \in Req : pc[r] \in InHandler => users[who[r].user] # "none"

(* An account is made, and no token moves; or it is deleted, and no token  *)
(* of another one moves.                                                   *)
Joins(u) ==
    /\ users[u] = "none" /\ users' = [users EXCEPT ![u] = "live"]
    /\ UNCHANGED grant
    /\ \A t \in Token : MayPass(t)' <=> MayPass(t)
Leaves(u) ==
    /\ users[u] = "live" /\ users' = [users EXCEPT ![u] = "deleted"]
    /\ UNCHANGED grant
    /\ \A t \in Token : grant[t] # NoGrant /\ grant[t].user # u =>
          (MayPass(t)' <=> MayPass(t))

LEMMA IdentityPrimed == AuthInv' => IdentityKept'
<1>1. AuthInv => IdentityKept
  BY IdentityFromInv
<1> QED  BY <1>1, PTL

LEMMA SocialAuthJoins ==
    ASSUME AuthInv, NEW r \in Req, NEW u \in User, NEW k \in Kind,
           SocialAuth(r, u, k)
    PROVE  UNCHANGED users \/ Joins(u)
<1>1. /\ users[u] \in {"none", "live"} /\ users' = [users EXCEPT ![u] = "live"]
      /\ UNCHANGED <<rows, grant, cache>> /\ Issue(r, u, k) /\ pc[r] = "idle"
  BY DEF SocialAuth, FoundOrCreated, AuthInv, TypeOK
<1>2. pc'[r] = "collect" /\ \A q \in Req \ {r} : LocalsKept(q)
  BY <1>1 DEF Issue, Goto, AuthInv, TypeOK, LocalsKept
<1>3. \A t \in Token : Refused(t)' <=> Refused(t)
  BY <1>1, <1>2, RefusalKept
<1>4. \A t \in Token : MayPass(t)' <=> MayPass(t)
  BY <1>1, <1>3 DEF MayPass, Revoked
<1>5. CASE users[u] = "live"
  BY <1>1, <1>5 DEF AuthInv, TypeOK
<1>6. CASE users[u] = "none"
  BY <1>1, <1>4, <1>6 DEF Joins
<1> QED  BY <1>1, <1>5, <1>6

LEMMA EraseLeaves ==
    ASSUME AuthInv, NamesKnown, NEW r \in Req, EraseUser(r)
    PROVE  who[r].user \in User /\ (UNCHANGED users \/ Leaves(who[r].user))
<1> DEFINE u == who[r].user
<1>1. pc[r] = "erase" /\ pc[r] \in InHandler
  BY DEF EraseUser, InHandler
<1>2. who[r] \in Grant
  BY <1>1 DEF AuthInv, TypeOK, RequestInv, LocalsSound
<1>3. u \in User /\ users[u] \in {"live", "deleted"}
  BY <1>1, <1>2 DEF Grant, NamesKnown, AuthInv, TypeOK
<1>4. /\ users' = [users EXCEPT ![u] = "deleted"] /\ rows' = rows \ RowsOfUser(u)
      /\ UNCHANGED <<grant, cache>>
  BY DEF EraseUser
<1>5. pc'[r] = "idle" /\ \A q \in Req \ {r} : LocalsKept(q)
  BY FinishSound DEF EraseUser, AuthInv, TypeOK, Finish, Goto
<1>6. ASSUME NEW t \in Token, grant[t].user # u
      PROVE  MayPass(t)' <=> MayPass(t)
  <2>1. t \in rows' <=> t \in rows
    BY <1>4, <1>6 DEF RowsOfUser
  <2>2. (\A q \in Req : tok'[q] = t => pc'[q] # "fill")
          <=> (\A q \in Req : tok[q] = t => pc[q] # "fill")
    BY <1>1, <1>5 DEF LocalsKept
  <2> QED  BY <1>4, <2>1, <2>2 DEF MayPass, Revoked, Refused
<1>7. CASE users[u] = "deleted"
  BY <1>3, <1>4, <1>7 DEF AuthInv, TypeOK
<1>8. CASE users[u] = "live"
  <2>1. \A t \in Token : grant[t] # NoGrant /\ grant[t].user # u
                          => (MayPass(t)' <=> MayPass(t))
    BY <1>6
  <2> QED  BY <1>3, <1>4, <1>8, <2>1 DEF Leaves
<1> QED  BY <1>3, <1>7, <1>8

LEMMA UsersMove ==
    ASSUME AuthInv, NamesKnown, Next
    PROVE  UNCHANGED users \/ \E u \in User : Joins(u) \/ Leaves(u)
<1>1. ASSUME NEW r \in Req, EraseUser(r)
      PROVE  UNCHANGED users \/ \E u \in User : Leaves(u)
  BY <1>1, EraseLeaves
<1>2. ASSUME NEW r \in Req, NEW u \in User, NEW k \in Kind, SocialAuth(r, u, k)
      PROVE  UNCHANGED users \/ Joins(u)
  BY <1>2, SocialAuthJoins
<1>3. ASSUME NEW r \in Req, Step(r), ~EraseUser(r) PROVE UNCHANGED users
  BY <1>3 DEF Step, CacheHit, CacheMiss, SelectRow, FillCache, SelectForMCP,
     Respond, CollectOld, DeleteOld, Commit, RejectInsert, PurgeOld,
     AnswerRotation, ListTokens, EvictListed, CloseList, DelOne, dbVars
<1>4. ASSUME NEW r \in Req, Abort(r) PROVE UNCHANGED users
  BY <1>4 DEF Abort, dbVars
<1>5. ASSUME NEW r \in Req, NEW o \in Route, NEW t \in Token, Arrive(r, o, t)
      PROVE  UNCHANGED users
  BY <1>5 DEF Arrive, dbVars
<1>6. ASSUME NEW r \in Req, NEW u \in User, NEW k \in Kind, RedeemCode(r, u, k)
      PROVE  UNCHANGED users
  BY <1>6 DEF RedeemCode, dbVars
<1>7. ASSUME NEW t \in Token, Expire(t) PROVE UNCHANGED users
  BY <1>7 DEF Expire, dbVars
<1> QED  BY <1>1, <1>2, <1>3, <1>4, <1>5, <1>6, <1>7 DEF Next

LEMMA UsersLast ==
    ASSUME AuthInv, NamesKnown, Next, NEW u \in User, users[u] # "none"
    PROVE  users'[u] # "none"
<1>1. ASSUME NEW v \in User, Joins(v) \/ Leaves(v) PROVE users'[u] # "none"
  BY <1>1 DEF Joins, Leaves, AuthInv, TypeOK
<1> QED  BY <1>1, UsersMove

LEMMA GrantsLast == ASSUME AuthInv, Next PROVE GrantsKept
<1>1. ASSUME NEW r \in Req, Commit(r) PROVE GrantsKept
  BY <1>1 DEF Commit, GrantsKept, AuthInv, TypeOK
<1>2. ASSUME NEW r \in Req, Step(r) \/ Abort(r), ~Commit(r) PROVE GrantsKept
  BY <1>2 DEF Step, CacheHit, CacheMiss, SelectRow, FillCache, SelectForMCP,
     Respond, CollectOld, DeleteOld, RejectInsert, PurgeOld, AnswerRotation,
     ListTokens, EvictListed, CloseList, EraseUser, Abort, DelOne, dbVars,
     GrantsKept
<1>3. UNCHANGED grant => GrantsKept
  BY DEF GrantsKept
<1> QED  BY <1>1, <1>2, <1>3, EveryStep

(* A request in its handler without a bearer was there before, or has just *)
(* begun.                                                                  *)
LEMMA HandlerSteps ==
    ASSUME AuthInv, NEW r \in Req, Step(r) \/ Abort(r), pc'[r] \in InHandler
    PROVE  tok'[r] = tok[r] /\ (pc[r] \in InHandler => who'[r] = who[r])
<1>1. ~Finish(r)
  BY DEF Finish, Goto, InHandler, AuthInv, TypeOK
<1>2. ASSUME NEW g, Admit(r, g) PROVE tok'[r] = tok[r]
  BY <1>1, <1>2 DEF Admit
<1>3. CASE CacheHit(r) \/ FillCache(r) \/ SelectForMCP(r)
  BY <1>1, <1>2, <1>3 DEF CacheHit, FillCache, SelectForMCP, InHandler
<1>4. CASE CacheMiss(r) \/ SelectRow(r)
  BY <1>1, <1>4 DEF CacheMiss, SelectRow, Goto, InHandler, AuthInv, TypeOK
<1>5. CASE \/ CollectOld(r) \/ DeleteOld(r) \/ Commit(r) \/ PurgeOld(r)
           \/ ListTokens(r) \/ EvictListed(r) \/ CloseList(r)
  BY <1>5 DEF CollectOld, DeleteOld, Commit, PurgeOld, ListTokens, EvictListed,
     CloseList, DelOne
<1> QED
  BY <1>1, <1>3, <1>4, <1>5 DEF Step, Respond, RejectInsert, AnswerRotation,
     EraseUser, Abort

LEMMA NamesKnownKept ==
    ASSUME AuthInv, AuthInv', NamesKnown, [Next]_vars
    PROVE  NamesKnown'
<1>1. CASE UNCHANGED vars
  BY <1>1 DEF vars, NamesKnown
<1>2. CASE Next
  <2>1. ASSUME NEW t \in Token, grant'[t] # NoGrant
        PROVE  users'[grant'[t].user] # "none"
    <3>1. CASE grant[t] # NoGrant
      <4>1. grant'[t] = grant[t] /\ grant[t] \in Grant
        BY <1>2, <3>1, GrantsLast DEF GrantsKept, AuthInv, TypeOK
      <4>2. grant[t].user \in User /\ users[grant[t].user] # "none"
        BY <3>1, <4>1 DEF NamesKnown, Grant
      <4> QED  BY <1>2, <4>1, <4>2, UsersLast
    <3>2. CASE grant[t] = NoGrant
      <4>1. t \in rows'
        BY <1>2, <2>1, <3>2, GrantsFromRows
      <4> QED  BY <4>1 DEF AuthInv, StoresInv
    <3> QED  BY <3>1, <3>2
  <2>2. ASSUME NEW r \in Req, pc'[r] \in InHandler, tok'[r] # NoToken
        PROVE  users'[who'[r].user] # "none"
    <3>1. who'[r].user = grant'[tok'[r]].user
      BY <2>2, IdentityPrimed DEF IdentityKept
    <3>2. tok'[r] \in Token /\ grant'[tok'[r]] # NoGrant
      BY <2>2 DEF AuthInv, TypeOK, RequestInv, BearerKnown
    <3> QED  BY <2>1, <3>1, <3>2
  <2>3. ASSUME NEW r \in Req, pc[r] \in InHandler, who'[r] = who[r]
        PROVE  users'[who'[r].user] # "none"
    <3>1. who[r].user \in User
      BY <2>3 DEF AuthInv, TypeOK, RequestInv, LocalsSound, Grant
    <3> QED  BY <1>2, <2>3, <3>1, UsersLast DEF NamesKnown
  <2>4. ASSUME NEW r \in Req, pc'[r] \in InHandler, tok'[r] = NoToken
        PROVE  users'[who'[r].user] # "none"
    <3>1. CASE LocalsKept(r)
      BY <2>3, <2>4, <3>1 DEF LocalsKept
    <3>2. ASSUME NEW q \in Req, Step(q) \/ Abort(q), ~LocalsKept(r)
          PROVE  pc[r] \in InHandler /\ who'[r] = who[r]
      <4>1. q = r
        BY <3>2, OthersKept
      <4>2. tok[r] = NoToken /\ (pc[r] \in InHandler => who'[r] = who[r])
        BY <2>4, <3>2, <4>1, HandlerSteps
      <4>3. pc[r] \notin Authenticating
        BY <4>2 DEF AuthInv, RequestInv, BearerKnown
      <4>4. pc[r] # "idle"
        BY <3>2, <4>1 DEF Step, CacheHit, CacheMiss, SelectRow, FillCache,
           SelectForMCP, Respond, CollectOld, DeleteOld, Commit, RejectInsert,
           PurgeOld, AnswerRotation, ListTokens, EvictListed, CloseList,
           EraseUser, Abort
      <4> QED  BY <4>2, <4>3, <4>4 DEF AuthInv, TypeOK, PC, Authenticating, InHandler
    <3>3. ASSUME NEW q \in Req, NEW u \in User, NEW k \in Kind,
                 SocialAuth(q, u, k) \/ RedeemCode(q, u, k), ~LocalsKept(r)
          PROVE  users'[who'[r].user] # "none"
      <4>1. q = r
        BY <3>3 DEF SocialAuth, RedeemCode, Issue, Goto, LocalsKept, AuthInv, TypeOK
      <4>2. who'[r].user = u /\ users'[u] # "none"
        BY <3>3, <4>1 DEF SocialAuth, RedeemCode, Issue, dbVars, AuthInv, TypeOK
      <4> QED  BY <4>2
    <3>4. ASSUME NEW q \in Req, NEW o \in Route, NEW t \in Token, Arrive(q, o, t),
                 ~LocalsKept(r)
          PROVE  FALSE
      <4>1. q = r
        BY <3>4 DEF Arrive, Goto, LocalsKept, AuthInv, TypeOK
      <4> QED  BY <2>4, <3>4, <4>1 DEF Arrive, Goto, InHandler, AuthInv, TypeOK
    <3>5. ASSUME NEW t \in Token, Expire(t) PROVE LocalsKept(r)
      BY <3>5 DEF Expire, reqVars, LocalsKept
    <3> QED  BY <1>2, <2>3, <3>1, <3>2, <3>3, <3>4, <3>5 DEF Next
  <2> QED  BY <2>1, <2>2, <2>4 DEF NamesKnown
<1> QED  BY <1>1, <1>2

-----------------------------------------------------------------------------
(* The cases of AccountPhase, before a step and after it. *)
Usable(u) == \E t \in Token : MayPass(t) /\ grant[t].user = u

PhaseCasesOf(u) ==
    /\ users[u] = "none" => AccountPhase(u) = "none"
    /\ users[u] = "live" => AccountPhase(u) = "live"
    /\ users[u] = "deleted" => AccountPhase(u) = IF Usable(u) THEN "lingering" ELSE "gone"

LEMMA PhaseCases == ASSUME NEW u \in User PROVE PhaseCasesOf(u)
  BY DEF PhaseCasesOf, AccountPhase, Usable

LEMMA PhaseCasesPrimed == ASSUME NEW u \in User PROVE PhaseCasesOf(u)'
<1>1. PhaseCasesOf(u)
  BY PhaseCases
<1> QED  BY <1>1, PTL

(* What may pass could pass before, or had a row; and one step, that of    *)
(* Lapse, stops one token from passing.                                    *)
LEMMA PassMoves ==
    ASSUME AuthInv, AuthInv', Cred!Next
    PROVE  /\ \A t \in Token : MayPass(t)' => MayPass(t) \/ t \in rows
           /\ \A s, t \in Token :
                 MayPass(s) /\ ~MayPass(s)' /\ MayPass(t) /\ ~MayPass(t)' => s = t
<1>1. \A t \in Token : /\ CredStatus(t) = "lingering" <=> MayPass(t)
                       /\ CredStatus(t) = "live" <=> t \in rows
  BY StatusCases DEF MayPass
<1>2. \A t \in Token : CredStatus(t)' = "lingering" <=> MayPass(t)'
  BY StatusCasesPrimed DEF CasesOf, MayPass
<1>3. ASSUME NEW x \in Token, NEW g \in Cred!Grants, Cred!Issue(x, g),
             NEW t \in Token
      PROVE  /\ CredStatus(t)' = "lingering" => CredStatus(t) \in {"lingering", "live"}
             /\ CredStatus(t) = "lingering" => CredStatus(t)' = "lingering"
  BY <1>3 DEF Cred!Issue, Cred!Revoke, Cred!Live
<1>4. ASSUME NEW u \in User, Cred!Erase(u), NEW t \in Token
      PROVE  /\ CredStatus(t)' = "lingering" => CredStatus(t) \in {"lingering", "live"}
             /\ CredStatus(t) = "lingering" => CredStatus(t)' = "lingering"
  BY <1>4 DEF Cred!Erase, Cred!Revoke, Cred!Live
<1>5. ASSUME NEW x \in Token, Cred!Lapse(x), NEW t \in Token
      PROVE  CredStatus(t)' = IF t = x THEN "dead" ELSE CredStatus(t)
  BY <1>5 DEF Cred!Lapse
<1>6. ASSUME Cred!Use, NEW t \in Token PROVE CredStatus(t)' = CredStatus(t)
  BY <1>6 DEF Cred!Use
<1> QED  BY <1>1, <1>2, <1>3, <1>4, <1>5, <1>6 DEF Cred!Next

(* A request that is let in acts for an account that can be reached. *)
LEMMA ActsForBearer ==
    ASSUME AuthInv, NEW r \in Req
    PROVE  ActsFor(r) = IF CredSession(r) = NoToken THEN NoUser
                        ELSE grant[CredSession(r)].user
  BY IdentityFromInv DEF IdentityKept, ActsFor, CredSession

BearerOf(r) ==
    ActsFor(r) = IF CredSession(r) = NoToken THEN NoUser ELSE grant[CredSession(r)].user

LEMMA ActsForBearerPrimed == ASSUME NEW r \in Req PROVE AuthInv' => BearerOf(r)'
<1>1. AuthInv => BearerOf(r)
  BY ActsForBearer DEF BearerOf
<1> QED  BY <1>1, PTL

LEMMA ActingMoves ==
    ASSUME AuthInv, AuthInv', NamesKnown, GrantsKept, Cred!SessionsMove
    PROVE  Acc!SessionsMove
<1>1. ASSUME NEW r \in Req
      PROVE  ActsFor(r)' = IF CredSession(r)' = NoToken THEN NoUser
                           ELSE grant'[CredSession(r)'].user
  BY ActsForBearerPrimed DEF BearerOf
<1>2. ASSUME NEW r \in Req, CredSession(r) # NoToken
      PROVE  /\ CredSession(r) \in Token /\ grant[CredSession(r)] # NoGrant
             /\ grant'[CredSession(r)] = grant[CredSession(r)]
  BY <1>2 DEF CredSession, GrantsKept, AuthInv, TypeOK, RequestInv, BearerKnown
<1>3. ASSUME NEW t \in Cred!Usable
      PROVE  /\ grant'[t] = grant[t] /\ grant[t].user \in User
             /\ AccountPhase(grant[t].user) \in {"live", "lingering"}
  <2>1. t \in Token /\ CredStatus(t) \in {"live", "lingering"}
    BY DEF Cred!Usable
  <2>2. grant[t] # NoGrant /\ (t \in rows \/ MayPass(t))
    BY <2>1, StatusCases DEF MayPass, Revoked, AuthInv, StoresInv
  <2>3. grant[t].user \in User /\ users[grant[t].user] \in {"live", "deleted"}
    BY <2>1, <2>2 DEF NamesKnown, AuthInv, TypeOK, Grant
  <2>4. users[grant[t].user] = "deleted" => Usable(grant[t].user)
    BY <2>1, <2>2 DEF AuthInv, StoresInv, Usable
  <2> QED  BY <2>1, <2>2, <2>3, <2>4, PhaseCases DEF PhaseCasesOf, GrantsKept
<1>4. ASSUME NEW r \in Req
      PROVE  /\ ActsFor(r)' \in User \cup {NoUser}
             /\ \/ ActsFor(r)' \in {ActsFor(r), NoUser}
                \/ /\ ActsFor(r) = NoUser /\ ActsFor(r)' \in User
                   /\ AccountPhase(ActsFor(r)') \in {"live", "lingering"}
  <2>1. CASE CredSession(r)' = NoToken
    BY <1>1, <2>1
  <2>2. CASE CredSession(r)' = CredSession(r) /\ CredSession(r) # NoToken
    <3>1. ActsFor(r)' = ActsFor(r)
      BY <1>1, <1>2, <2>2, ActsForBearer
    <3>2. grant[CredSession(r)].user \in User
      BY <1>2, <2>2 DEF AuthInv, TypeOK, Grant
    <3> QED  BY <2>2, <3>1, <3>2, ActsForBearer
  <2>3. CASE CredSession(r) = NoToken /\ CredSession(r)' \in Cred!Usable
    <3>1. ActsFor(r) = NoUser
      BY <2>3, ActsForBearer
    <3>2. CredSession(r)' # NoToken
      BY <2>3 DEF Cred!Usable
    <3>3. ActsFor(r)' = grant[CredSession(r)'].user
      BY <1>1, <1>3, <2>3, <3>2
    <3> QED  BY <1>3, <2>3, <3>1, <3>3
  <2> QED  BY <2>1, <2>2, <2>3 DEF Cred!SessionsMove
<1> QED  BY <1>4 DEF Acc!SessionsMove, Acc!Reachable

-----------------------------------------------------------------------------
(* No account changes, but that the last usable token of a deleted one may *)
(* lapse.                                                                  *)
LEMMA SameUsers ==
    ASSUME AuthInv, AuthInv', GrantsKept, Cred!Next, Acc!SessionsMove,
           UNCHANGED users
    PROVE  Acc!Next
<1>1. ASSUME NEW u \in User, users[u] = "deleted", Usable(u)' PROVE Usable(u)
  <2>1. PICK t \in Token : MayPass(t)' /\ grant'[t].user = u
    BY <1>1 DEF Usable
  <2>2. MayPass(t) \/ t \in rows
    BY <2>1, PassMoves
  <2>3. grant[t] # NoGrant
    BY <2>2 DEF MayPass, Revoked, AuthInv, StoresInv
  <2>4. grant'[t] = grant[t]
    BY <2>3 DEF GrantsKept
  <2>5. t \notin rows
    BY <1>1, <2>1, <2>4 DEF AuthInv, StoresInv
  <2> QED  BY <2>1, <2>2, <2>4, <2>5 DEF Usable
<1>2. ASSUME NEW u \in User, Usable(u), ~Usable(u)'
      PROVE  \E t \in Token : MayPass(t) /\ ~MayPass(t)' /\ grant[t].user = u
  <2>1. PICK t \in Token : MayPass(t) /\ grant[t].user = u
    BY <1>2 DEF Usable
  <2>2. grant'[t] = grant[t]
    BY <2>1 DEF MayPass, Revoked, GrantsKept
  <2> QED  BY <1>2, <2>1, <2>2 DEF Usable
<1>3. ASSUME NEW u \in User, NEW v \in User, Usable(u), ~Usable(u)',
             Usable(v), ~Usable(v)'
      PROVE  u = v
  BY <1>2, <1>3, PassMoves
<1>4. \A u \in User : users[u] \in {"none", "live", "deleted"} /\ users'[u] = users[u]
  BY DEF AuthInv, TypeOK
<1>5. CASE \E u \in User : users[u] = "deleted" /\ Usable(u) /\ ~Usable(u)'
  <2>1. PICK u \in User : users[u] = "deleted" /\ Usable(u) /\ ~Usable(u)'
    BY <1>5
  <2>2. AccountPhase(u) = "lingering" /\ AccountPhase(u)' = "gone"
    BY <1>4, <2>1, PhaseCases, PhaseCasesPrimed DEF PhaseCasesOf
  <2>3. ASSUME NEW v \in User, v # u PROVE AccountPhase(v)' = AccountPhase(v)
    <3>1. users[v] = "deleted" => (Usable(v)' <=> Usable(v))
      BY <1>1, <1>3, <2>1, <2>3
    <3> QED  BY <1>4, <3>1, PhaseCases, PhaseCasesPrimed DEF PhaseCasesOf
  <2>4. Acc!Lapse(u)
    BY <2>2, <2>3 DEF Acc!Lapse, Acc!Moves
  <2> QED  BY <2>4 DEF Acc!Next
<1>6. CASE \A u \in User : users[u] = "deleted" => (Usable(u)' <=> Usable(u))
  <2>1. \A u \in User : AccountPhase(u)' = AccountPhase(u)
    BY <1>4, <1>6, PhaseCases, PhaseCasesPrimed DEF PhaseCasesOf
  <2>2. Acc!Serve
    BY <2>1 DEF Acc!Serve
  <2> QED  BY <2>2 DEF Acc!Next
<1> QED  BY <1>1, <1>5, <1>6

(* A new account has no token, and a deletion touches its own tokens only. *)
LEMMA UserJoinsOrLeaves ==
    ASSUME AuthInv, AuthInv', Acc!SessionsMove,
           NEW u \in User, Joins(u) \/ Leaves(u)
    PROVE  Acc!Next
<1>1. ASSUME NEW v \in User, v # u
      PROVE  users'[v] = users[v] /\ (Usable(v)' <=> Usable(v))
  <2>1. users'[v] = users[v]
    BY <1>1 DEF Joins, Leaves, AuthInv, TypeOK
  <2>2. ASSUME NEW t \in Token, grant[t].user = v
        PROVE  MayPass(t)' <=> MayPass(t)
    <3>1. CASE grant[t] = NoGrant
      <4>1. grant'[t] = NoGrant
        BY <3>1 DEF Joins, Leaves
      <4> QED  BY <3>1, <4>1 DEF MayPass, Revoked
    <3>2. CASE grant[t] # NoGrant
      BY <1>1, <2>2, <3>2 DEF Joins, Leaves
    <3> QED  BY <3>1, <3>2
  <2>3. grant' = grant
    BY DEF Joins, Leaves
  <2> QED  BY <2>1, <2>2, <2>3 DEF Usable
<1>2. \A v \in User : users[v] \in {"none", "live", "deleted"}
  BY DEF AuthInv, TypeOK
<1>3. \A v \in User \ {u} : AccountPhase(v)' = AccountPhase(v)
  BY <1>1, <1>2, PhaseCases, PhaseCasesPrimed DEF PhaseCasesOf
<1>4. CASE Joins(u)
  <2>1. users[u] = "none" /\ users'[u] = "live"
    BY <1>4 DEF Joins, AuthInv, TypeOK
  <2>2. AccountPhase(u) = "none" /\ AccountPhase(u)' = "live"
    BY <2>1, PhaseCases, PhaseCasesPrimed DEF PhaseCasesOf
  <2>3. Acc!Join(u)
    BY <1>3, <2>2 DEF Acc!Join, Acc!Moves
  <2> QED  BY <2>3 DEF Acc!Next
<1>5. CASE Leaves(u)
  <2>1. users[u] = "live" /\ users'[u] = "deleted"
    BY <1>5 DEF Leaves, AuthInv, TypeOK
  <2>2. AccountPhase(u) = "live" /\ AccountPhase(u)' \in {"lingering", "gone"}
    BY <2>1, PhaseCases, PhaseCasesPrimed DEF PhaseCasesOf
  <2>3. Acc!Delete(u)
    BY <1>3, <2>2 DEF Acc!Delete, Acc!Moves
  <2> QED  BY <2>3 DEF Acc!Next
<1> QED  BY <1>4, <1>5

LEMMA AccountSteps ==
    AuthInv /\ AuthInv' /\ NamesKnown /\ [Next]_vars => [Acc!Next]_(Acc!avars)
<1> SUFFICES ASSUME AuthInv, AuthInv', NamesKnown, [Next]_vars
             PROVE  Acc!Next \/ UNCHANGED Acc!avars
  OBVIOUS
<1>1. CASE UNCHANGED vars
  BY <1>1 DEF vars, Acc!avars, AccountPhase, ActsFor, MayPass, Refused, Revoked
<1>2. CASE Next
  <2>1. GrantsKept
    BY <1>2, GrantsLast
  <2>2. Cred!Next
    BY <1>2, NextTakesCredStep
  <2>3. Cred!SessionsMove
    BY <2>2 DEF Cred!Next, Cred!Issue, Cred!Erase, Cred!Lapse, Cred!Use
  <2>4. Acc!SessionsMove
    BY <2>1, <2>3, ActingMoves
  <2> QED
    BY <1>2, <2>1, <2>2, <2>4, UsersMove, SameUsers, UserJoinsOrLeaves
<1> QED  BY <1>1, <1>2

LEMMA AccountsBegin == Init => Acc!Init /\ NamesKnown
<1> SUFFICES ASSUME Init PROVE Acc!Init /\ NamesKnown
  OBVIOUS
<1>1. \A u \in User : AccountPhase(u) = "none"
  BY PhaseCases DEF Init, PhaseCasesOf
<1>2. \A r \in Req : ActsFor(r) = NoUser
  BY DEF Init, ActsFor, InHandler
<1> QED  BY <1>1, <1>2 DEF Init, Acc!Init, NamesKnown, InHandler

(* What SignIn and UserData take from this module: an account is made,     *)
(* deleted and, when the last token that some late fill or lost Del keeps  *)
(* alive has run out, gone for good; and requests are let in only in the   *)
(* name of accounts that are not gone.                                     *)
THEOREM AuthImplementsAccount == Spec => ImplementsAccount
<1>1. Init => AuthInv
  BY InitSound
<1>2. AuthInv /\ NamesKnown /\ [Next]_vars => AuthInv' /\ NamesKnown'
  BY NextKeeps, NamesKnownKept
<1> QED
  BY <1>1, <1>2, AccountsBegin, AccountSteps, PTL
  DEF Spec, ImplementsAccount, Acc!Spec

-----------------------------------------------------------------------------
(* Progress. The round trips of every route in their order; "idle" is the  *)
(* answer.                                                                 *)
Stage(l) ==
    CASE l \in {"get", "mcp"}                 -> 1
      [] l = "select"                         -> 2
      [] l = "fill"                           -> 3
      [] l \in {"serve", "collect", "list"}   -> 4
      [] l \in {"begin", "evict"}             -> 5
      [] l \in {"commit", "erase"}            -> 6
      [] l = "purge"                          -> 7
      [] l = "idle"                           -> 8

(* A request begins, goes on, or deletes one more of the entries it has    *)
(* collected.                                                              *)
RequestAdvances(r) ==
    \/ pc[r] = "idle"
    \/ Stage(pc'[r]) > Stage(pc[r])
    \/ /\ pc[r] \in {"purge", "evict"} /\ pc'[r] = pc[r]
       /\ old'[r] \subseteq old[r] /\ old'[r] # old[r]

LEMMA StepAdvances ==
    ASSUME AuthInv, NEW r \in Req, Step(r) \/ Abort(r)
    PROVE  RequestAdvances(r)
<1>1. ASSUME NEW l \in PC, Goto(r, l), Stage(l) > Stage(pc[r])
      PROVE  RequestAdvances(r)
  BY <1>1 DEF RequestAdvances, Goto, AuthInv, TypeOK
<1>2. ASSUME Finish(r) PROVE RequestAdvances(r)
  <2>1. pc'[r] = "idle" /\ pc[r] \in PC
    BY <1>2 DEF Finish, Goto, AuthInv, TypeOK
  <2>2. pc[r] # "idle" => Stage(pc'[r]) > Stage(pc[r])
    BY <2>1 DEF Stage, PC
  <2> QED  BY <2>2 DEF RequestAdvances
<1>3. ASSUME NEW g, Admit(r, g), pc[r] \in {"get", "mcp", "fill"}
      PROVE  RequestAdvances(r)
  <2>1. CASE Finish(r)
    BY <1>2, <2>1
  <2>2. CASE Goto(r, Entry(route[r]))
    <3>1. Entry(route[r]) \in {"serve", "collect", "list"}
      BY DEF Entry
    <3>2. Stage(Entry(route[r])) > Stage(pc[r]) /\ Entry(route[r]) \in PC
      BY <1>3, <3>1 DEF Stage, PC
    <3> QED  BY <1>1, <2>2, <3>2
  <2> QED  BY <1>3, <2>1, <2>2 DEF Admit
<1>4. CASE CacheHit(r) \/ FillCache(r)
  BY <1>3, <1>4 DEF CacheHit, FillCache
<1>5. CASE SelectForMCP(r)
  BY <1>2, <1>3, <1>5 DEF SelectForMCP
<1>6. CASE SelectRow(r)
  BY <1>1, <1>2, <1>6 DEF SelectRow, Stage, PC
<1>7. CASE CacheMiss(r) \/ DeleteOld(r) \/ CloseList(r)
  BY <1>1, <1>7 DEF CacheMiss, DeleteOld, CloseList, Stage, PC
<1>8. CASE CollectOld(r) \/ ListTokens(r) \/ Commit(r)
  BY <1>1, <1>8 DEF CollectOld, ListTokens, Commit, Stage, PC
<1>9. CASE PurgeOld(r) \/ EvictListed(r)
  <2>1. pc[r] \in {"purge", "evict"} /\ DelOne(r)
    BY <1>9 DEF PurgeOld, EvictListed
  <2>2. PICK t \in old[r] : old' = [old EXCEPT ![r] = @ \ {t}]
    BY <2>1 DEF DelOne
  <2>3. old'[r] = old[r] \ {t} /\ pc'[r] = pc[r]
    BY <2>1, <2>2 DEF DelOne, AuthInv, TypeOK
  <2> QED  BY <2>1, <2>3 DEF RequestAdvances
<1>10. CASE \/ Respond(r) \/ RejectInsert(r) \/ AnswerRotation(r)
            \/ EraseUser(r) \/ Abort(r)
  BY <1>2, <1>10 DEF Respond, RejectInsert, AnswerRotation, EraseUser, Abort
<1> QED
  BY <1>4, <1>5, <1>6, <1>7, <1>8, <1>9, <1>10 DEF Step

MovesOn == \A r \in Req : LocalsKept(r) \/ RequestAdvances(r)

(* No step takes a request back: not one of another request, nor the       *)
(* expiry of an entry it had found. A handler is a bounded number of round *)
(* trips, whatever the stores answer, so that RequestsEnd takes nothing    *)
(* but that each of them is taken in the end (handlers.go 422-494,         *)
(* 841-886, 1050-1081).                                                    *)
THEOREM RequestsAdvance == Spec => [][MovesOn]_vars
<1>1. ASSUME AuthInv, Next PROVE MovesOn
  <2>1. ASSUME NEW r \in Req, Step(r) \/ Abort(r) PROVE MovesOn
    BY <1>1, <2>1, OthersKept, StepAdvances DEF MovesOn
  <2>2. ASSUME NEW r \in Req, NEW o \in Route, NEW t \in Token, Arrive(r, o, t)
        PROVE  MovesOn
    BY <1>1, <2>2 DEF Arrive, Goto, MovesOn, LocalsKept, RequestAdvances, AuthInv, TypeOK
  <2>3. ASSUME NEW r \in Req, NEW u \in User, NEW k \in Kind,
               SocialAuth(r, u, k) \/ RedeemCode(r, u, k)
        PROVE  MovesOn
    BY <1>1, <2>3 DEF SocialAuth, RedeemCode, Issue, Goto, MovesOn, LocalsKept,
       RequestAdvances, AuthInv, TypeOK
  <2>4. ASSUME NEW t \in Token, Expire(t) PROVE MovesOn
    BY <2>4 DEF Expire, reqVars, MovesOn, LocalsKept
  <2> QED  BY <1>1, <2>1, <2>2, <2>3, <2>4 DEF Next
<1>2. AuthInv /\ [Next]_vars => [MovesOn]_vars
  BY <1>1
<1> QED  BY <1>2, Invariance, PTL DEF Spec
=============================================================================
