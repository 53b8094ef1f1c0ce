-------------------------------- MODULE Auth --------------------------------
(***************************************************************************)
(* Bearer-token authentication of the PingClaw server: the user_tokens     *)
(* table, the auth:<hash> cache in front of it, and every request that     *)
(* reads or changes either of them.                                        *)
(*                                                                         *)
(*   requireAuthKinds   cache Get, on a miss SELECT, Set, kind check       *)
(*   mcpAuthMiddleware  SELECT and kind check, without the cache           *)
(*   rotateToken        collect old hashes, transaction, Del per old hash  *)
(*   DeleteAccount      collect hashes and Del each, then DELETE the user  *)
(*   SocialAuth, WebLogin, OAuthToken   unauthenticated callers of         *)
(*                      rotateToken, seen from the user they resolved      *)
(*                                                                         *)
(* Every await of the Go code (one round trip to the database or to the    *)
(* key-value store) is one step, so that requests interleave between them. *)
(* A token stands for its SHA-256 hash, its primary key in user_tokens.    *)
(***************************************************************************)
EXTENDS FiniteSets, TLC

CONSTANTS
    User,        \* user ids: usr_ and 12 characters of a fresh UUID
    Token,       \* the tokens GenerateToken may ever return (a bound)
    Req,         \* concurrent HTTP requests, over all server processes
    Route,       \* the routes the clients call, a subset of AllRoutes
    NoToken,     \* the bearer of a request of a public route
    NoGrant,     \* the grant of a token never issued, an absent cache entry
    SingleConn,  \* TRUE: SQLite behind one connection; FALSE: Postgres
    Faulty       \* TRUE: calls of the database and the store may fail, a
                 \*       client may hang up, a process may die

Kind == {"web_session", "api_key", "pairing_token"}
Grant == [user : User, kind : Kind]

(* The handlers behind requireAuthKinds that differ in the kinds they      *)
(* admit or in what they do to tokens, the MCP endpoint, and the public    *)
(* sign-in routes.                                                         *)
RotateRoute == {"rotate_pairing", "rotate_api"}
AllRoutes == {"me", "post_location", "web_code", "delete_account", "mcp",
              "sign_in"} \cup RotateRoute

ASSUME NoTokenAssumption == NoToken \notin Token
ASSUME NoGrantAssumption == NoGrant \notin Grant
ASSUME RouteAssumption == Route \subseteq AllRoutes
ASSUME SingleConnAssumption == SingleConn \in BOOLEAN
ASSUME FaultyAssumption == Faulty \in BOOLEAN

VARIABLES
    users,   \* users[u]: "none", then "live", then "deleted"
    rows,    \* the primary keys of the committed user_tokens rows
    grant,   \* grant[t]: the user_id and kind columns t was issued with
    cache,   \* cache[t]: the value of auth:<t> in the key-value store
    pc,      \* pc[r]: the next round trip of request r
    route,   \* route[r]: the route r called
    tok,     \* tok[r]: the bearer token r presented
    who,     \* who[r]: userID and kind, local to the middleware, then the
             \*         arguments of rotateToken
    old,     \* old[r]: collected hashes whose cache entry is still to Del
    snap     \* snap[r]: the rows the transaction of r deletes

dbVars == <<users, rows, grant>>
reqVars == <<pc, route, tok, who, old, snap>>
vars == <<users, rows, grant, cache, pc, route, tok, who, old, snap>>

PC == {"idle", "get", "select", "fill", "mcp", "serve",
       "collect", "begin", "commit", "purge", "list", "evict", "erase"}

TypeOK ==
    /\ users \in [User -> {"none", "live", "deleted"}]
    /\ rows \subseteq Token
    /\ grant \in [Token -> Grant \cup {NoGrant}]
    /\ cache \in [Token -> Grant \cup {NoGrant}]
    /\ pc \in [Req -> PC]
    /\ route \in [Req -> AllRoutes]
    /\ tok \in [Req -> Token \cup {NoToken}]
    /\ who \in [Req -> Grant \cup {NoGrant}]
    /\ old \in [Req -> SUBSET Token]
    /\ snap \in [Req -> SUBSET Token]

Init ==
    /\ users = [u \in User |-> "none"]
    /\ rows = {}
    /\ grant = [t \in Token |-> NoGrant]
    /\ cache = [t \in Token |-> NoGrant]
    /\ pc = [r \in Req |-> "idle"]
    /\ route = [r \in Req |-> "me"]
    /\ tok = [r \in Req |-> NoToken]
    /\ who = [r \in Req |-> NoGrant]
    /\ old = [r \in Req |-> {}]
    /\ snap = [r \in Req |-> {}]

-----------------------------------------------------------------------------
(* Operators named Mut... are faults planted on purpose: each replaces the *)
(* definition it precedes, and one property then has to fail. They are no  *)
(* part of the specification.                                              *)

(* Mutant: every route registered with requireAuth. *)
MutAllowedAnyKind(o) == Kind

(* The kinds each route admits. *)
Allowed(o) ==
    CASE o = "post_location"                  -> {"pairing_token"}
      [] o = "mcp"                            -> {"api_key"}
      [] o = "rotate_pairing"                 -> {"web_session"}
      [] o \in {"web_code", "rotate_api",
                "delete_account"}             -> {"web_session", "pairing_token"}
      [] OTHER                                -> Kind

(* The first round trip of the handler of each route. *)
Entry(o) ==
    CASE o \in RotateRoute       -> "collect"
      [] o = "delete_account"    -> "list"
      [] OTHER                   -> "serve"

(* Mutant: a kind the schema does not know. *)
MutArgumentsTypo(o, g) ==
    IF o = "rotate_api" THEN [g EXCEPT !.kind = "apikey"] ELSE g

(* The user and the kind a handler goes on with: rotateToken gets the kind *)
(* of the route, not that of the bearer.                                   *)
Arguments(o, g) ==
    CASE o = "rotate_pairing" -> [g EXCEPT !.kind = "pairing_token"]
      [] o = "rotate_api"     -> [g EXCEPT !.kind = "api_key"]
      [] OTHER                -> g

(* Mutant: foreign keys off, as SQLite has them by default. *)
MutNoCascade(u) == {}
(* Mutant: AND kind = $2 is missing. *)
MutRowsOfAnyKind(g) == {t \in rows : grant[t].user = g.user}

(* Rows WHERE user_id = u, and WHERE user_id = g.user AND kind = g.kind. *)
RowsOfUser(u) == {t \in rows : grant[t].user = u}
RowsOf(g) == {t \in rows : grant[t] = g}

(* Mutant: a second connection. *)
MutConnAlwaysFree(r) == TRUE
(* Mutant: rows.Close deferred to the end of the handler. *)
MutConnHeldToTheEnd(r) ==
    SingleConn => \A q \in Req : pc[q] \notin {"commit", "evict", "erase"}

(* With SetMaxOpenConns(1) a statement waits while another request holds   *)
(* the connection: for its transaction, or for a result set it iterates.   *)
ConnFree(r) ==
    SingleConn => \A q \in Req \ {r} : pc[q] \notin {"commit", "evict"}

(* What a query loop that ignores its errors may return of the rows S. *)
Collected(S) == IF Faulty THEN SUBSET S ELSE {S}

Goto(r, l) == pc' = [pc EXCEPT ![r] = l]

(* The request has been answered (or is gone): its locals are forgotten. *)
Finish(r) ==
    /\ Goto(r, "idle")
    /\ route' = [route EXCEPT ![r] = "me"]
    /\ tok' = [tok EXCEPT ![r] = NoToken]
    /\ who' = [who EXCEPT ![r] = NoGrant]
    /\ old' = [old EXCEPT ![r] = {}]
    /\ snap' = [snap EXCEPT ![r] = {}]

(* The kind check of the middleware, then the handler with g in its        *)
(* context, or the 403 answer.                                             *)
Admit(r, g) ==
    \/ /\ g.kind \in Allowed(route[r])
       /\ Goto(r, Entry(route[r]))
       /\ who' = [who EXCEPT ![r] = Arguments(route[r], g)]
       /\ UNCHANGED <<route, tok, old, snap>>
    \/ /\ g.kind \notin Allowed(route[r])
       /\ Finish(r)

-----------------------------------------------------------------------------
(* A client calls a route with a bearer token that was issued once. (One   *)
(* that never was is answered 401, like one whose row is gone.)            *)
Arrive(r, o, t) ==
    /\ pc[r] = "idle"
    /\ o \in Route \ {"sign_in"}
    /\ grant[t] # NoGrant
    /\ Goto(r, IF o = "mcp" THEN "mcp" ELSE "get")
    /\ route' = [route EXCEPT ![r] = o]
    /\ tok' = [tok EXCEPT ![r] = t]
    /\ UNCHANGED <<dbVars, cache, who, old, snap>>

CacheHit(r) ==
    /\ pc[r] = "get"
    /\ cache[tok[r]] # NoGrant
    /\ Admit(r, cache[tok[r]])
    /\ UNCHANGED <<dbVars, cache>>

(* No entry, or an error of the store, which reads like a miss. *)
CacheMiss(r) ==
    /\ pc[r] = "get"
    /\ Faulty \/ cache[tok[r]] = NoGrant
    /\ Goto(r, "select")
    /\ UNCHANGED <<dbVars, cache, route, tok, who, old, snap>>

(* Mutant: the row is read from a replica that has not seen its deletion. *)
MutSelectFromReplica(r) ==
    /\ pc[r] = "select"
    /\ Goto(r, "fill")
    /\ who' = [who EXCEPT ![r] = grant[tok[r]]]
    /\ UNCHANGED <<dbVars, cache, route, tok, old, snap>>

SelectRow(r) ==
    /\ pc[r] = "select"
    /\ ConnFree(r)
    /\ \/ /\ tok[r] \in rows
          /\ Goto(r, "fill")
          /\ who' = [who EXCEPT ![r] = grant[tok[r]]]
          /\ UNCHANGED <<route, tok, old, snap>>
       \/ /\ tok[r] \notin rows                      \* 401
          /\ Finish(r)
    /\ UNCHANGED <<dbVars, cache>>

(* Mutant: the kind of the route is what gets cached. *)
MutFillWithArguments(r) ==
    /\ pc[r] = "fill"
    /\ cache' = [cache EXCEPT ![tok[r]] = Arguments(route[r], who[r])]
    /\ Admit(r, who[r])
    /\ UNCHANGED dbVars

(* kv.Set with the TTL; its error is ignored. The last_used_at update      *)
(* that follows changes nothing the model keeps.                           *)
FillCache(r) ==
    /\ pc[r] = "fill"
    /\ \/ cache' = [cache EXCEPT ![tok[r]] = who[r]]
       \/ Faulty /\ UNCHANGED cache
    /\ Admit(r, who[r])
    /\ UNCHANGED dbVars

(* Mutant: revoked rows are kept, and found. *)
MutMCPSoftDelete(r) ==
    /\ pc[r] = "mcp"
    /\ Admit(r, grant[tok[r]])
    /\ UNCHANGED <<dbVars, cache>>

(* The MCP middleware: no cache, and the kind check next to the SELECT. *)
SelectForMCP(r) ==
    /\ pc[r] = "mcp"
    /\ ConnFree(r)
    /\ \/ /\ tok[r] \in rows
          /\ Admit(r, grant[tok[r]])
       \/ /\ tok[r] \notin rows                      \* 401
          /\ Finish(r)
    /\ UNCHANGED <<dbVars, cache>>

Respond(r) ==
    /\ pc[r] = "serve"
    /\ Finish(r)
    /\ UNCHANGED <<dbVars, cache>>

-----------------------------------------------------------------------------
(* The routes that issue a token without a bearer, from the point where    *)
(* they know the user and call rotateToken(u, k).                          *)
Issue(r, u, k) ==
    /\ Goto(r, "collect")
    /\ route' = [route EXCEPT ![r] = "sign_in"]
    /\ who' = [who EXCEPT ![r] = [user |-> u, kind |-> k]]
    /\ UNCHANGED <<tok, old, snap>>

(* Mutant: the identities of a deleted account are left, and found. *)
MutIdentityKept(u) == TRUE
(* findOrCreateSocialUser finds u by an identity of its, which its deletion *)
(* takes along (ON DELETE CASCADE), or inserts it now.                     *)
FoundOrCreated(u) == users[u] # "deleted"

(* SocialAuth: findOrCreateSocialUser returned u. *)
SocialAuth(r, u, k) ==
    /\ pc[r] = "idle"
    /\ "sign_in" \in Route
    /\ ConnFree(r)
    /\ FoundOrCreated(u)
    /\ k \in {"web_session", "pairing_token"}
    /\ users' = [users EXCEPT ![u] = "live"]
    /\ Issue(r, u, k)
    /\ UNCHANGED <<rows, grant, cache>>

(* WebLogin (web_session) and OAuthToken (api_key): GetDel returned u for  *)
(* a code, which may outlive the account it was made for.                  *)
RedeemCode(r, u, k) ==
    /\ pc[r] = "idle"
    /\ "sign_in" \in Route
    /\ users[u] # "none"
    /\ k \in {"web_session", "api_key"}
    /\ Issue(r, u, k)
    /\ UNCHANGED <<dbVars, cache>>

-----------------------------------------------------------------------------
(* rotateToken: SELECT the hashes to invalidate, outside the transaction.  *)
(* A query error, or an iteration cut short, leaves some of them out.      *)
CollectOld(r) ==
    /\ pc[r] = "collect"
    /\ ConnFree(r)
    /\ \E s \in Collected(RowsOf(who[r])) : old' = [old EXCEPT ![r] = s]
    /\ Goto(r, "begin")
    /\ UNCHANGED <<dbVars, cache, route, tok, who, snap>>

(* BeginTx and DELETE: a statement of a READ COMMITTED transaction sees    *)
(* the rows committed when it starts.                                      *)
DeleteOld(r) ==
    /\ pc[r] = "begin"
    /\ ConnFree(r)
    /\ snap' = [snap EXCEPT ![r] = RowsOf(who[r])]
    /\ Goto(r, "commit")
    /\ UNCHANGED <<dbVars, cache, route, tok, who, old>>

(* INSERT of a fresh token, UPDATE users, Commit. The foreign key needs    *)
(* the user's row, and locks it until the commit.                          *)
Commit(r) ==
    /\ pc[r] = "commit"
    /\ users[who[r].user] = "live"
    /\ \E t \in Token :
          /\ grant[t] = NoGrant
          /\ rows' = (rows \ snap[r]) \cup {t}
          /\ grant' = [grant EXCEPT ![t] = who[r]]
    /\ Goto(r, "purge")
    /\ snap' = [snap EXCEPT ![r] = {}]
    /\ UNCHANGED <<users, cache, route, tok, who, old>>

(* The INSERT violates the foreign key: rollback, 500. The same answer     *)
(* stands in for an issue beyond the bound on Token.                       *)
RejectInsert(r) ==
    /\ pc[r] = "commit"
    /\ \/ users[who[r].user] # "live"
       \/ \A t \in Token : grant[t] # NoGrant
    /\ Finish(r)
    /\ UNCHANGED <<dbVars, cache>>

(* One kv.Del of the loop; its error is ignored. *)
DelOne(r) ==
    /\ \E t \in old[r] :
          /\ old' = [old EXCEPT ![r] = @ \ {t}]
          /\ \/ cache' = [cache EXCEPT ![t] = NoGrant]
             \/ Faulty /\ UNCHANGED cache
    /\ UNCHANGED <<dbVars, pc, route, tok, who, snap>>

PurgeOld(r) ==
    /\ pc[r] = "purge"
    /\ DelOne(r)

AnswerRotation(r) ==
    /\ pc[r] = "purge"
    /\ old[r] = {}
    /\ Finish(r)
    /\ UNCHANGED <<dbVars, cache>>

-----------------------------------------------------------------------------
(* DeleteAccount: the result set of the SELECT is open (and holds the      *)
(* connection) while the entries are deleted one by one; its errors are    *)
(* ignored too.                                                            *)
ListTokens(r) ==
    /\ pc[r] = "list"
    /\ ConnFree(r)
    /\ \E s \in Collected(RowsOfUser(who[r].user)) : old' = [old EXCEPT ![r] = s]
    /\ Goto(r, "evict")
    /\ UNCHANGED <<dbVars, cache, route, tok, who, snap>>

EvictListed(r) ==
    /\ pc[r] = "evict"
    /\ DelOne(r)

CloseList(r) ==
    /\ pc[r] = "evict"
    /\ old[r] = {}
    /\ Goto(r, "erase")
    /\ UNCHANGED <<dbVars, cache, route, tok, who, old, snap>>

(* DELETE FROM users; ON DELETE CASCADE takes the tokens along. *)
EraseUser(r) ==
    /\ pc[r] = "erase"
    /\ ConnFree(r)
    /\ users' = [users EXCEPT ![who[r].user] = "deleted"]
    /\ rows' = rows \ RowsOfUser(who[r].user)
    /\ Finish(r)
    /\ UNCHANGED <<grant, cache>>

-----------------------------------------------------------------------------
(* The request ends early, an open transaction rolled back: a database     *)
(* error before the commit (500), or the process dies. No step in between  *)
(* undoes what the request has already done.                               *)
Abort(r) ==
    /\ Faulty
    /\ pc[r] # "idle"
    /\ Finish(r)
    /\ UNCHANGED <<dbVars, cache>>

(* Mutant: cached with a TTL of 0, which means no expiry. *)
MutNoTTL(t) == FALSE

(* authCacheTTL runs out. *)
Expire(t) ==
    /\ cache[t] # NoGrant
    /\ cache' = [cache EXCEPT ![t] = NoGrant]
    /\ UNCHANGED <<dbVars, reqVars>>

(* The steps of a request that goes on. *)
Step(r) ==
    \/ CacheHit(r) \/ CacheMiss(r) \/ SelectRow(r) \/ FillCache(r)
    \/ SelectForMCP(r) \/ Respond(r)
    \/ CollectOld(r) \/ DeleteOld(r) \/ Commit(r) \/ RejectInsert(r)
    \/ PurgeOld(r) \/ AnswerRotation(r)
    \/ ListTokens(r) \/ EvictListed(r) \/ CloseList(r) \/ EraseUser(r)

Next ==
    \/ \E r \in Req :
          \/ \E o \in Route, t \in Token : Arrive(r, o, t)
          \/ \E u \in User, k \in Kind : SocialAuth(r, u, k) \/ RedeemCode(r, u, k)
          \/ Step(r)
          \/ Abort(r)
    \/ \E t \in Token : Expire(t)

Spec == Init /\ [][Next]_vars

(* A request that has arrived is executed by its goroutine to its end, and *)
(* an entry of the store does not outlive its TTL. The fairness is strong  *)
(* because database/sql hands a freed connection to one of the waiting     *)
(* goroutines, drawn at random: a waiter is not passed over for ever.      *)
(* Nothing makes a client call, and nothing makes a process die.           *)
Fairness ==
    /\ \A r \in Req : SF_vars(Step(r))
    /\ \A t \in Token : WF_vars(Expire(t))

FairSpec == Spec /\ Fairness

-----------------------------------------------------------------------------
(* Every cached identity is that of the token it is cached for, and every  *)
(* request past its middleware acts for the bearer's user (handlers.go     *)
(* 436-491): no interleaving of fills, rotations and deletions mixes two   *)
(* credentials up.                                                         *)
InHandler == {"serve", "collect", "begin", "commit", "purge",
              "list", "evict", "erase"}

IdentityKept ==
    /\ \A t \in Token : cache[t] \in {NoGrant, grant[t]}
    /\ \A r \in Req : pc[r] \in InHandler /\ tok[r] # NoToken =>
          who[r].user = grant[tok[r]].user

(* Whatever the cache says, tokens and accounts change only on behalf of   *)
(* a web_session or a pairing_token, and pairing tokens, sign-in apart,    *)
(* only on behalf of a web_session (handlers.go 1127-1135).                *)
ChangesAuthorised ==
    \A r \in Req :
        /\ tok[r] # NoToken
        /\ pc[r] \in {"commit", "erase"}
        => /\ grant[tok[r]].kind # "api_key"
           /\ pc[r] = "commit" /\ who[r].kind = "pairing_token" =>
                 grant[tok[r]].kind = "web_session"

(* A token row never outlives its account, although tokens are issued to   *)
(* a user id resolved long before (handlers.go 867, 1076; codes redeemed   *)
(* for an account deleted since).                                          *)
NoOrphanTokens == \A t \in rows : users[grant[t].user] = "live"

(* A user has at most one token of each kind (docs/schema-reference.md     *)
(* 84): rotations that overlap do not leave two behind.                    *)
OneTokenPerKind == \A s, t \in rows : grant[s] = grant[t] => s = t

(* A token is revoked only together with its account, or in the step that  *)
(* issues its successor: no failure of a rotation leaves a user without a  *)
(* token of the kind, and other kinds are unaffected (handlers.go 839-841).*)
ReplacedOrErased ==
    [][\A t \in rows \ rows' :
          \/ users'[grant[t].user] = "deleted"
          \/ \E n \in rows' \ rows : grant'[n] = grant[t]]_vars

(* A token is revoked, and no longer has a way to be accepted. *)
Revoked(t) == grant[t] # NoGrant /\ t \notin rows
Refused(t) ==
    /\ Revoked(t)
    /\ cache[t] = NoGrant
    /\ \A r \in Req : tok[r] = t => pc[r] # "fill"

(* Every request is answered, also when all of them want the one           *)
(* connection of SQLite (main.go 366-385).                                 *)
RequestsEnd == \A r \in Req : pc[r] # "idle" ~> pc[r] = "idle"

-----------------------------------------------------------------------------
(* The inductive invariant behind the safety properties: what the locals   *)
(* of a request are known to satisfy at each of its round trips.           *)
Authenticating == {"get", "select", "fill", "mcp"}
Rotating == {"collect", "begin", "commit", "purge"}
Deleting == {"list", "evict", "erase"}

(* The bearer was issued, and is known until the middleware is done. *)
BearerKnown(r) ==
    /\ tok[r] # NoToken => grant[tok[r]] # NoGrant
    /\ pc[r] \in Authenticating => tok[r] # NoToken
    /\ pc[r] = "idle" \/ route[r] = "sign_in" => tok[r] = NoToken

(* What the middleware read is what the bearer was issued with, and it let *)
(* the request pass for its kind.                                          *)
LocalsSound(r) ==
    /\ pc[r] = "fill" => who[r] = grant[tok[r]]
    /\ pc[r] \in InHandler => who[r] # NoGrant
    /\ pc[r] \in InHandler /\ tok[r] # NoToken =>
          /\ grant[tok[r]].kind \in Allowed(route[r])
          /\ who[r] = Arguments(route[r], grant[tok[r]])

(* The handler that runs is that of the route. *)
StageSound(r) ==
    /\ pc[r] \in Rotating => route[r] \in RotateRoute \cup {"sign_in"}
    /\ pc[r] \in Deleting => route[r] = "delete_account"

(* A transaction deletes tokens of its user and kind only. *)
SnapshotSound(r) ==
    /\ pc[r] # "commit" => snap[r] = {}
    /\ \A t \in snap[r] : grant[t] = who[r]

RequestInv(r) ==
    BearerKnown(r) /\ LocalsSound(r) /\ StageSound(r) /\ SnapshotSound(r)

StoresInv ==
    /\ \A t \in Token : cache[t] \in {NoGrant, grant[t]}
    /\ \A t \in rows : grant[t] # NoGrant /\ users[grant[t].user] = "live"

AuthInv == TypeOK /\ StoresInv /\ \A r \in Req : RequestInv(r)

(* Over the single connection of SQLite a transaction is alone, so what    *)
(* its DELETE saw is still what there is when it commits.                  *)
AloneOnConn ==
    \A q, r \in Req :
        pc[q] \in {"commit", "evict"} /\ pc[r] \in {"commit", "evict"} => q = r
SnapshotCurrent ==
    \A r \in Req : pc[r] = "commit" => snap[r] = RowsOf(who[r])
SerialInv == AloneOnConn /\ SnapshotCurrent /\ OneTokenPerKind
=============================================================================
