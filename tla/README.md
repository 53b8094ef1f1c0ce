# A TLA+ verification of the PingClaw server

PingClaw receives locations from a phone, keeps the last one of each user,
hands it on to the receivers the user has registered, and answers an AI agent's
question for it over MCP. The server is one Go program, `cmd/pingclaw-server`,
over two stores:

* a database, Postgres (hosted, several server processes) or SQLite behind a
  single connection (local mode, one process);
* a key-value store, Redis (hosted) or `MemStore` (local mode), which holds the
  auth cache, the two receiver caches, the locations, the one-time codes and the
  rate-limit counters.

Every handler is a sequence of round trips to these two. No handler holds a lock
across two of them, and only `rotateToken` and the local bootstrap of a token use
more than one SQL statement for one change. What is hard about this program is
therefore what happens *between* the round trips of a handler: another request,
another process, a failed call, a client that hangs up (the context of nearly
every call is that of the request) or a crash.

Line numbers below are those of `src/internal/pingclaw/handlers.go` unless a
file is named.

## 1. Inventory

| Component | State | Operations | What is hard | What makes it correct |
|---|---|---|---|---|
| Key-value store, `internal/kvstore` | a map with expiries and a mutex (`MemStore`); a Redis client (`RedisStore`) | Get, Set, GetDel, Del, Incr, Expire, TTL, Close, cleanup goroutine | lazy expiry, boundary of the expiry, counters that keep their expiry | `MemStore` cannot be told from a store with exact, atomic expiry; expired entries are freed |
| Rate limiter, `internal/ratelimit/limiter.go` | one counter per key in the store | Allow | `Incr` and `Expire` are two calls; callers of several processes; a denied call reads a TTL that may be gone | the limit holds; nobody is locked out for good |
| Bearer middleware and auth cache (422-494, `mcp.go` 57-94) | `user_tokens`, `auth:<hash>` | `requireAuthKinds`, `mcpAuthMiddleware` | the row read before the cache is filled may be deleted in between | identities are never mixed up; a revoked token is refused in the end and for good |
| Token rotation (838-915) | `user_tokens`, `auth:<hash>` | `rotateToken` | hashes read outside the transaction; READ COMMITTED; Dels after the commit | one token per kind; a user is never left without one; no stale entry without a reason |
| Account deletion (1050-1081) | `users` and everything that cascades, both caches, the location | `DeleteAccount` | caches are emptied *before* the rows go; an open result set holds the only SQLite connection | nothing of the user comes back or stays |
| Sign-in (204-382, `oauth.go`) | `users`, `user_identities`, `webcode:`, `oauthcode:` | `SocialAuth`, `WebCode`, `WebLogin`, `OAuthAuthorize`, `OAuthToken` | check-then-insert without a transaction; codes consumed before the step they pay for | a code is good for one use, an identity for one user |
| Social token verification, `internal/socialauth` | the configured audiences | verification by audience and issuer | loops over audiences that may all be empty, an error kept from an earlier iteration | what the provider issued for a configured client passes, wherever the client is in the list, and nothing else |
| Location endpoints (126-150, 498-617) | `loc:<user>` | `PostLocation`, `GetLocation`, MCP tool | written while the account is being deleted; two posts at once | the location goes with the account; an older one replaces a newer one only if the two overlapped |
| Webhook (619-836) | `user_webhooks`, `wh:<user>` | `PutWebhook`, `GetWebhook`, `DeleteWebhook`, `TestWebhook`, `fireUserWebhook` | stale cache fills, errors cached as "none", one goroutine per delivery, a POST that is handled after its client gave up; the status of the answer is logged and not looked at | a receiver that was replaced is forgotten; at most one copy |
| OpenClaw gateway (1140-1711) | `user_openclaw_destinations`, `oc:<user>` | register, get, delete, test, send; delivery with one retry | as above, and a retry that may follow newer locations, a probe before the registration | a gateway that was replaced is forgotten; what it has acknowledged has arrived; at most two copies |
| Integration activity | `intg:<user>:<kind>`, kept 30 days | recorded with every use | written after an account is gone; `DeleteAccount` does not know it | it runs out |
| MCP server, `mcp.go` | none of its own | middleware, `get_my_location` | its own authentication path, without the cache | a revoked key is refused at once |
| Data export | none | `GetMyData` | not a snapshot | only shown |
| Startup and local mode, `cmd/pingclaw-server/main.go` | schema, the single connection, the local user and token | waiting for the services, schema, `bootstrapLocalUser`, `rotateLocalToken`, listening | statements without a transaction, cut by a crash; two starts over one file, or one beside the running server, whose dashboard rotates the same token and deletes the same user; a PRAGMA per connection | a server that serves has its whole schema; the local user has one token |
| SQL rewriting for SQLite, outbound client and address checks, Markdown pages, HTTP plumbing, dashboard | none | | text and I/O | unit tests |

How they interact. The middleware fills `auth:<hash>`; rotation and deletion
delete rows and entries behind its back. `PostLocation` passes the middleware,
asks the rate limiter, writes the location and looks both receivers up;
`DeleteAccount` removes under it what it reads. All sign-in paths end in
`rotateToken`. Every component goes through the `KVStore` interface, so that the
agreement of its two implementations carries all others. `PostLocation` hands the
location to one goroutine per receiver, which outlives the request; `SocialAuth`
asks a verifier built from the environment at the start. `PROJECT.json` lists the
components with their status, and the hazards with the line where each bites.

## 2. Modules

| Module | Models | State and its counterpart in the code |
|---|---|---|
| `Auth` | middleware (cached and MCP), `rotateToken`, `DeleteAccount`, the issuing half of sign-in | `users`, `rows`+`grant`: tables `users`, `user_tokens`; `cache`: `auth:<hash>`; `pc`, `route`, `tok`, `who`, `old`, `snap`: where a request is and its Go locals |
| `Credential` | what a credential promises, with neither tables nor cache | `status`: none, live, lingering, dead; `owner`; `session` |
| `AuthCredential` | the refinement mapping of `Auth` to `Credential` | |
| `Account` | what every part takes an account for: made, live, lingering after its deletion, gone | `phase`; `acting`: for whom a session acts |
| `AuthAccount` | the refinement mapping of `Auth` to `Account` | |
| `AuthAudit` | `Auth` with a history variable: everything that can keep a revoked token cached | `excuse` |
| `AuthClaims` | statements of the documentation that the code does not keep | |
| `AuthProofs` | proofs about `Auth`, its audit, and of both refinements | |
| `SignIn` | `SocialAuth` with `findOrCreateSocialUser` statement by statement, web codes, OAuth codes | `users`, `identity`: tables; `web`, `oauth`: `webcode:`, `oauth:code:`; `served`: users with tokens; two history variables |
| `SignInProofs` | proofs about `SignIn` | |
| `UserData` | one user's location, receivers, receiver caches and integration records; `PostLocation`'s lookups, the readers of the location, put (with the gateway's probe), drop, look-up routes, `DeleteAccount`'s other half | `row`, `cache`, `loc`, `intg`, `account`, and the locals of each request |
| `UserDataAudit` | `UserData` with a history variable: why a cached receiver may differ from its row | `why` |
| `UserDataProofs` | proofs about `UserData` and its audit | |
| `Delivery` | the way of a location from the phone over the store and the goroutines to the receivers: `PostLocation` handing over, `fireUserWebhook`, `deliverToOpenClaw` with its retry, `SendOpenClawLocation`, packets under way | `post`, `stored` (`loc:<user>`), `task`, `try`, `wire`, `send`; at the receivers `latest`, `copies`; `calm` is a history |
| `Relay` | what a receiver may count on, with neither goroutines nor network | `loc`, `written`, `open`, `closed`, `copies` |
| `DeliveryProofs` | proofs about `Delivery`, and that it implements `Relay` | |
| `RotateTx` | the transactions of `rotateToken` and `DeleteAccount` over Postgres, statement by statement, with their row locks, waits and deadlocks | `user`, `rows`: committed; `lock`, `share`, `excl`: who holds which row; `pc`, `seen`, `scan`, `want`: a transaction |
| `TokenTables` | the same tables changed by each transaction in one step, which is how `Auth` takes them | `user`, `rows`, `seen` |
| `RotateTxProofs` | proofs about `RotateTx`, and that it implements `TokenTables` | |
| `Startup` | `main` from the flags to the listening server, local and hosted, with kills and overlapping starts; of the server that runs the requests that touch the local user and his tokens, and the calls of the verifier | `tables`, `user`, `rows`, `session`: the database; `accepted`: the kinds of tokens the running server goes on to accept; `pc`, `flag`, `done` of each process; `config`, `call`; two histories |
| `SocialVerify` | the loops of `verify` over audiences and issuers, as functions of the round, with a reference definition (`Genuine`) | none: operators |
| `StartupProofs` | proofs about `Startup` | |
| `KVStore` | the atomic store with exact expiry that the handlers rely on | `cell`, `reply` |
| `MemStore` | `memstore.go`: the map with lazily evicted entries, the cleanup goroutine, `Close` | `data`, `closed`, `reply` |
| `MemStoreProofs` | the proof that `MemStore` implements `KVStore` | |
| `RateLimiter` | `Limiter.Allow` for one key | `key`: the counter and its expiry; `pc`; two history variables |
| `RateLimiterProofs` | proofs about `RateLimiter` | |
| `MC...` | symmetry sets for TLC | |

Conventions. One action is one round trip to the database or the store, together
with everything the handler does until its next one; a request is a value of `Req`
whose `pc` names its next round trip. `\E` ranges over what a client may send.
`Finish` forgets the locals of a request that has been answered. Operators named
`Mut...` are planted faults, each of the size of a plausible slip; they are no part
of any specification, and each shows that a property is able to fail.

### Auth

The tokens are opaque: a token and its SHA-256 hash are the same value, and a
fresh one is drawn from those never issued. The bound on `Token` is met the way
the code meets an insert it cannot make (500, `RejectInsert`). The four kinds of
behaviour in the routes are kept apart (`AllRoutes`): every handler that neither
admits other kinds nor changes tokens is `me`.

* `CacheHit`, `CacheMiss`, `SelectRow`, `FillCache` are `requireAuthKinds`
  (422-494), `SelectForMCP` is `mcp.go` 57-94: it neither reads nor fills the cache.
* `CollectOld`, `DeleteOld`, `Commit`, `RejectInsert`, `PurgeOld`,
  `AnswerRotation` are `rotateToken` (841-886). The DELETE takes the snapshot of
  its statement, the commit applies it: that is READ COMMITTED. With `SingleConn`
  the transaction holds the connection.
* `ListTokens`, `EvictListed`, `CloseList`, `EraseUser` are `DeleteAccount`. The
  result set is open, and holds the connection, while entries are deleted.
* `SocialAuth` and `RedeemCode` are the sign-in routes from the point where the
  user is known. A code may be redeemed for an account deleted since.
* `Faulty` adds what fails: store calls (an error reads like a miss, a failed
  `Set` or `Del` is ignored), query loops that end early, statements that fail,
  clients that hang up, processes that die (`Abort`).
* `last_used_at` and the users' `updated_at` are left out: nothing reads them.

### SignIn

Arrival and first round trip are one step, since a handler holds nothing before it.
`rotateToken` is one step here (its inside is `Auth`), as is the part of
`DeleteAccount` that matters: the cascade to the identities, and the codes nobody
deletes. A code is a member of `Code`, drawn from those never generated: that
`generateWebCode`'s 40 random bits repeat themselves is left out, and `MutAnyCode`
shows what it would break. Web codes and OAuth codes are drawn from one pool but kept
under different keys. Faults are always possible (`Abort`): an error answer and a
dead process differ in nothing that is left behind. The histories `origin` and
`yield` record whose phone a code goes back to, and how many tokens or codes it was
good for. The checks of client id and redirect URI come before or after the store
calls and are guards on the request; one that fails after the `GetDel` costs the code
(`OAuthToken`). The per-IP limit is `RateLimiter`'s.

### UserData

One user suffices: every key and every row is per user. `account` is the seam to
`Auth`: after the deletion the cached tokens go on being accepted for a while
("lingering"), and then no longer ("gone"); `Auth`'s `LingeringEnds` is what
justifies the step, and `Account` says once for all that there is no way back. Lookups keep the difference between the two tables: an error of
the webhook's SELECT is cached as "none", one of OpenClaw's is not. Registering a
gateway probes it first, and the row is written however long that took. The record of an
integration's use is written by handlers that never ask whether the account is still
there. What is *delivered* is `Delivery`.

### Delivery

Locations are numbered in the order the phone posts them; everything else about a
location is left out. A POST is a packet `<<receiver, location, attempt>>` that may be
lost, or handled at any later time, long after its client has timed out: `TimeOut`
does not take it from the wire. The receiver's answer may be lost as well, so that a
location it has taken in is sent again. `Hear` is what follows: for the webhook nothing, any
answer ends the goroutine as "delivered" (676-677); for the gateway the switch over the
status, success, 401/404 (give up) or anything else (the second try). `Die` takes a
process with all it was doing for some of the posts. The lookup of a receiver that
finds none, or an error, is one branch of `HandOver`: why a lookup finds what it finds
is `UserData`'s subject. `calm` marks a location posted when nothing else was under
way, the one case in which order is promised. `Written`, `RelayOpen` and `RelayClosed`
map the state to `Relay`.

### RotateTx

What Postgres does with a row lock is external, and modelled from its documented lock
modes: a DELETE locks the rows its snapshot saw one at a time and passes over those
deleted meanwhile; the foreign key takes FOR KEY SHARE on the user's row, the UPDATE of
the user FOR NO KEY UPDATE, the DELETE of the user FOR UPDATE, after which the cascade
deletes the token rows. The order in which the program asks for them is its own.
`Cycle(S)` is a set of transactions that wait for one another, one of which is rolled
back (and its request answered 500). Transactions run once: each is a value of `Rot`
or `Del`, and a token row is named by the rotation that inserts it.

### Startup, SocialVerify

A process is a value of `Launch`, started once, with or without `--token`; the
database file stays when it is killed. Each CREATE TABLE is a step, as is each of the
two statements of `bootstrapLocalUser` and of `rotateLocalToken`. While a local server runs,
its user may sign in to the dashboard (`WebLogin`), rotate the pairing token from there
(`RotatePairingToken`, one transaction over SQLite, hence one step) and delete the account
(`DeleteAccount`): statements on the rows that another start may be about to touch. Who
is let in is what `Accept` has cached, and an entry may outlive its row (`Auth` is about
when it does): a deletion takes no pairing token in the table. `accepted` keeps the
kind of a bearer while it is cached, or a request or a code of his is under way. All starts
are taken to use one port, as the default is, so that one of them serves at a time;
the others exit, after they have run their statements. `torn` records that a start was
cut between its two statements, `mixed` that the last step that replaced or deleted the
tokens (or a bootstrap after it) came between the two statements of a start other than
its own. In hosted mode the audiences come from the environment,
any of them possibly empty: Apple's are a list split at the commas and trimmed, of at
most `MaxAudiences` entries (a bound), Google's are two variables. `SocialAuth` calls
`Verify` with a token of any signer, algorithm, issuer, audience and age. `TryAudiences`
and `TryIssuers` are the two loops: `after[i]` is what `token` and `parseErr` hold after
`i` rounds, and "panic" is the nil dereference.

### KVStore, MemStore, RateLimiter

Time is relative, counted in ticks: an entry has some ticks left. The real code
compares `time.Now().After(expiresAt)`, hence an entry with 0 ticks left is still
there. In `MemStore` an entry may have expired and still be in the map (`left = -1`
stands for any time in the past). Both keep the last call with its result, so that
the refinement compares answers, not only contents.

The limiter's callers fail or die between their calls at any time. The history
variables record whether the one call that sets the expiry was lost, and how many
events were allowed in the last tick, the last two, and so on up to a window.

## 3. Runs

Twelve runs, each over its own configuration; `PROJECT.json` names for every
property a mutant that breaks it. State counts are those TLC reports.

| Run | Question | Bounds | States |
|---|---|---|---|
| `auth_postgres` | Over Postgres, with faults: are identities kept, changes authorised, tokens revoked only in exchange or with the account; is it a credential, and an account? | 2 users, 2 tokens, 2 requests, all routes | 504,064 |
| `auth_sqlite` | Over the single connection, with faults: one token per kind, is the list of reasons for a stale cache entry complete, no request waits for ever, no token lingers for ever | 1 user, 2 tokens, 2 requests, 3 routes | 211,486 |
| `claim_rotation`, `claim_one_token` | two statements of the documentation, without any fault | 1 user, 3 tokens, 2 requests, Postgres | violated |
| `signin` | Is a code good for one thing and for the phone's account, an identity for one account, a left-over user for nothing? Do codes of deleted accounts end? | 2 people, 2 users, 2 codes, 2 requests | 85,196 |
| `userdata` | Is the list of reasons for a stale receiver complete, is a replaced receiver forgotten, does everything of a deleted account go in the end? | 2 requests, 2 receivers of 1 configuration, faults | 588,428 |
| `delivery` | Does a receiver get what `Relay` promises, is a calm location ever overtaken, has one that the gateway acknowledged arrived, does every goroutine end? | 2 locations, either receiver, faults | 132,961 |
| `rotate_tx` | Do the transactions do to the tables what `Auth` takes them for, when do they deadlock, is every wait resolved, do they all end? | 3 rotations, 1 deletion, 2 old rows, faults | 26,806 |
| `startup` | When has the local user two tokens or none, is the schema whole, is `Verify` right? | 3 starts, requests of the running server, 2 client ids, lists of up to 2 | 293,611 |
| `claim_verify` | `Verify` "returns an error if" it returns no identity | the same | violated |
| `memstore` | Does `MemStore` behave like the atomic store, does it free memory? | 2 keys, values and TTLs up to 2 | 5,798 |
| `limiter` | the limit, the expiry of counters, the reset | 3 callers, limit 3, window 4 | 7,513 |

Why these bounds are enough to be of interest. Every hazard listed needs two
requests: one that is overtaken and one that overtakes. A third actor is never
needed because store and tables are shared and a finished request can start over
as another. Two tokens let one replace the other; a second user is there so that
identities can be mixed up. `auth_sqlite` leaves out the routes that differ from
`me` in their kinds only, for liveness forbids symmetry; rotation is there through
`sign_in`. In `signin` two requests race for one code or for one first sign-in; with
two users the second is the loser's or the account after a deletion; two codes make
one chain from the phone over the browser to the OAuth client, or two logins. One
configuration is enough for `userdata`, because an entry goes wrong in both directions
between it and none. Two locations are an older and a newer one; the receivers are
independent of one another, so that each run has one. Three rotations and a deletion
are every pair of transactions with a third to start from what two of them left; two old
rows let scans meet in opposite orders. Three starts are one that is cut, one that
follows and one that overlaps either; two client ids and the empty one put the right
one first, last or nowhere, before or after an entry that is skipped. Three callers of the limiter are the creator of the counter, one that
fills it and one that is denied; limit 3 and window 4 separate "at most the limit"
from "at most twice the limit". A counter beyond the limit saturates, since all such
counts are treated alike.

What the passing runs show:

* **A revoked token is never revived.** `ImplementsCredential`: whatever the
  interleaving, lost Dels and crashes, a token that was refused because it had
  neither row nor entry is refused from then on. That is not obvious: fills that
  are under way may put back what a rotation deleted. `LingeringEnds` adds that
  each revoked token gets there.
* **A deleted account is gone for good** (`ImplementsAccount`): whatever is under way
  when it is deleted, at most its cached tokens go on being accepted, and once the last
  of them has lapsed no late fill, rotation or sign-in lets another request in for it.
  That is how `SignIn` and `UserData` model the end of an account.
* **There are exactly four ways for a revoked token to be accepted for a while**
  (`StaleEntriesExplained`): a fill under way, a hash not collected, a Del lost, an
  eviction that came before the deletion. A fifth one would be a counterexample here,
  and `StaleEntriesAreExplained` excludes it over Postgres and for any number of
  requests. The last of the four covers a Del that `DeleteAccount` has lost as well.
* **A rotation is all or nothing** (`ReplacedOrErased`), although it has no retry.
* **Over SQLite rotations exclude each other** (`OneTokenPerKind`, with
  `SerialInv`), and a request that waits for the connection always gets it
  (`RequestsEnd`), even though `DeleteAccount` talks to the store with a result set
  open.
* **Codes are safe to race for** (`OneUse`, `SameAccount`), and none survives its
  account (`CodesEnd`), though nothing deletes codes and a cached token can make new
  ones after the deletion. The price is paid elsewhere: a code is gone when the
  rotation after it fails.
* **The race of two first sign-ins is harmless but leaves a row behind**
  (`IdentityStays`, `StrayUnused`): the loser is answered 500 and its user stays,
  unreachable.
* **There are exactly four ways for a stale receiver to be cached**
  (`StaleConfigExplained`), and **caches heal**: `ReplacedForgotten` and
  `NothingLingers` hold with every fault. One of the four is the webhook's failed
  SELECT, cached as "no webhook".
* **Order is kept where it can be** (`OlderOnlyIfOverlapping`): a location posted when
  all before it is settled is overtaken by no goroutine, retry, late packet or manual
  send. Two that overlap may arrive in either order; nothing in the code prevents it.
* **No goroutine sends again what the gateway has acknowledged, and that has arrived**
  (`AcknowledgedArrived`). Of a webhook nothing of the kind can be said: its goroutine
  takes any answer for a delivery, a 404 too. For both receivers, what was not stored is not forwarded, a location is handed to a receiver's goroutine
  once, and no crash, timeout or late packet makes more copies of it than the attempts
  the code means to make (`ImplementsRelay`).
* **Rotations deadlock only with a deletion, or over two rows of a kind that an earlier
  overlap has left** (`DeadlockExplained`), no transaction leaves a lock behind that
  another one would wait for (`WaitsAreResolved`), and whatever is rolled back, the tables
  change as in `Auth` (`ImplementsTables`): the abstraction of `Commit` and `EraseUser`
  is justified and not assumed.
* **Plain starts give the local user one token, however many at once**
  (`TwoTokensExplained`): two tokens take the two statements of a start overlapped by
  another start's `--token`, by a rotation from the dashboard or by a deletion of the
  account. Each of the three is possible: the property fails when `mixed` does not record
  one of them. **But a start cut between its two inserts leaves a user
  without one**, and only `--token` helps (`LockedOutExplained`).
* **`Verify` is right for every list with a client in it** (`VerdictRight`): an error
  kept from an earlier audience never spoils a later success.
* **The limiter loses a window only by losing one call** (`ExpiryUnderWay`), and any
  stretch as long as a window sees at most two windows' worth of events
  (`TwiceTheLimit`), however its callers interleave, fail or die.

`userdata` says `CHECK_DEADLOCK FALSE` because that system may stop: once the account is
gone and the caches are empty, no request of this user passes the middleware any more.
So do `delivery`, `rotate_tx` and `startup`: locations,
transactions and starts are used once.

### Disagreements between documentation and code

| Run | Says | Does |
|---|---|---|
| `claim_rotation` | "immediately invalidates the previous value" (`web/privacypolicy/content.md` 36) | a request past its SELECT caches the old key after the rotation (465), for up to five minutes |
| `claim_one_token` | "at most one of each kind at a time" (`docs/schema-reference.md` 84) | two rotations over Postgres leave two tokens (862); with SQLite the statement holds |
| `claim_verify` | "Returns an error if the token is invalid, expired, or has the wrong audience." (`internal/socialauth/socialauth.go` 49) | with both Google client ids empty, as `.env.example` has them, no audience is tried and `token.Claims` is a nil dereference (`google.go` 62): the request ends in a panic |

Met on the way and not the subject of a run:

* a sign-in replaces the web session of other browsers (370), although
  `db/migrations/001_pingclaw.sql` 36-37 says that adding one does not kick existing
  ones;
* a `PostLocation` past its middleware may write the location between 1071 and 1076
  of a deletion, after which it stays for up to 24 hours (`docs/schema-reference.md`
  152 denies it), and the `intg:<user>:<kind>` records are not deleted at all and stay
  for up to 30 days (`web/deleteaccount/index.html` 52: "After deletion, nothing remains
  on the server"); `NothingLingers` shows that they end by expiry;
* `webhookCacheNone`, "user has no webhook" (619), is also cached after a failed SELECT
  (640; `UserDataAudit`'s `error_cached`);
* the comment at `mcp.go` 54-56 speaks of any bearer token while line 81 admits API
  keys only;
* `fireUserWebhook` logs "delivered" for an answer of any status (677);
* `Retry-After` is truncated to seconds (`limiter.go` 55), so that it may say 0 before
  the window is over;
* `docs/schema-reference.md` 67-69 has identities linked by email, which no code does
  (the column was dropped), and 165 has a web code consumed on successful login, which
  it also is on a failed one.

## 4. Fairness

* `Auth`: strong fairness of the steps of each request. A request that has arrived
  is a goroutine that runs to its end. A step that needs the connection is enabled
  again and again rather than all the time; `database/sql` hands a freed connection
  to one of the waiting goroutines drawn at random, so that none is passed over for
  ever. Weak fairness of `Expire`: an entry does not outlive its TTL.
* `SignIn`: weak fairness of the steps of a request that has begun, of the expiry of
  codes and of `Lapse`.
* `UserData`: weak fairness of the steps (nothing blocks them), of the three
  expiries and of `Lapse`.
* `MemStore`: weak fairness of `Sweep`, the ticker of the cleanup goroutine; it
  counts for nothing once the store is closed, and the property says so.
* `RateLimiter`: weak fairness of time and of the calls that have begun.
* `Delivery`: weak fairness of each goroutine's steps, an attempt or its timeout
  (`http.Client.Timeout` and the sleep before the retry are finite). No packet has to
  arrive and no answer to come: the phone, the user, the receivers and the network are
  under no obligation.
* `RotateTx`: weak fairness of every transaction that has begun: a granted lock is
  taken, and Postgres resolves a deadlock by rolling one of its transactions back.
  Nothing makes a transaction begin.
* `Startup` states no fairness: its questions are about safety, and a start that hangs
  is the operator's to kill.

Nothing makes a client call or call again, nothing makes a fault happen, and
nothing keeps a request from being aborted when `Faulty`.

## 5. Proofs

TLAPS checks every theorem for all values of the constants, finite or not (`RotateTx`
assumes finitely many token rows, whose number `DeadlockExplained` speaks of), with
either value of `SingleConn` and `Faulty` unless said otherwise. The assumptions
are those the modules name: the sentinels are no tokens, grants, entries or
numbers; `Route` is a subset of `AllRoutes`; the flags are Booleans; the bounds of
the store are positive. TLC evaluates them in the runs.

**`AuthProofs`**. `AuthInv` is the inductive invariant. None of the properties is
inductive on its own: that the cache holds the right identity (`StoresInv`) needs
that a request about to fill it has read the right one (`LocalsSound`), which needs
that its bearer was issued (`BearerKnown`); that a rotation deletes only tokens of
its user and kind (`SnapshotSound`) needs that `grant` of an issued token never
changes; that the handler that runs is that of the route (`StageSound`) ties the
kind check to the change it guards. There is one lemma per group of actions; from
`Invariance` follow `TypeCorrect`, `IdentityIsKept`, `ChangesAreAuthorised`,
`TokensHaveOwners` and the action property `TokensAreReplacedOrErased`.
`AtMostOneToken` assumes `SingleConn` and uses a second invariant, `SerialInv`:
transactions are alone on the connection, hence what the DELETE saw is what there
is at the commit, hence one token per kind.

`AuthImplementsCredential`: initial states map to initial states and every step to a
step of `Credential` or a stutter. The argument is about the status a token moves to: only `Commit` makes one live, only `Commit`
and `EraseUser` revoke, and the one transition that has to be excluded, from dead
to anything, is excluded because a dead token has no fill under way and a new fill
needs a row.

`AuthImplementsAccount` rests on the steps of `Credential`: `Cred!Next` says how the
status of each token may move, so that what is left to show is about users. A revoked
token comes to pass the middleware only if it had a row just before (`PassMoves`), and
the rows of an account go in the one step that deletes it. `NamesKnown` (whoever is
named in a token or by a request has been a user) is the invariant this adds to
`AuthInv`. Each step then makes one account, deletes one, or changes none
(`UserJoinsOrLeaves`), and of the last kind only the end of a token's cache entry or of
its last fill makes an account go, and only one (`SameUsers`).

`StaleEntriesAreExplained` is about `AuditSpec`. The claim is inductive once it speaks
of fills as well: a revoked token with a fill under way has a reason on record, and
one with an entry has one or has its Del pending. A fill starts only with a row
(`FillsStartLive`), an entry appears only through a fill (`EntriesAreFilled`), a
pending Del ends in a deletion or is lost (`PurgesEnd`), and a token is revoked by one
request, which is where the other three reasons come from (`RevokedByOne`).

`RequestsAdvance` is the safety half of `RequestsEnd`: no step takes a request back, its
own or another's. The loop over the replaced hashes is the one place where a handler
stays at a stage, and there the set of hashes left shrinks.

**`SignInProofs`**. `SignInInv` is inductive. `OneUse` alone is not: that a code is
used up at most once needs that at any moment it is in one place only, in the store,
in the hands of one request, or used up (`CodeInv`). `StrayUnused` needs that whoever
appears in a token, a code or a request is `Known`, deleted or reachable through an
identity, and that a user being created appears nowhere (`AccountInv`). One lemma per
action; `IdentityIsForGood` is the action property `IdentityStays`.

**`MemStoreProofs`**. `MemStoreImplementsKVStore`: with `Gone` as the abstraction,
every method takes the abstract step, `Sweep` and `Close` are stutters, and `Tick`
ages both sides alike, an entry turning `Gone` exactly when the abstract one
disappears.

**`DeliveryProofs`**. `DeliveryInv` has four parts. `BudgetInv` counts, for each
receiver and location, what has arrived and what may yet: never more than the
goroutine has sent, which is what bounds the copies although packets are handled
late; and what the gateway has acknowledged is among what has arrived. `StoredInv`: what a receiver got, what is on the wire and what a goroutine holds
was stored first. `OrderedInv`: the phone posts in order. `CalmInv`: behind a calm
location nothing older is left, neither request, goroutine nor packet. From it follow
`AcknowledgedHasArrived`, the action property `OvertakenOnlyIfOverlapping` and the
refinement `DeliveryImplementsRelay`, with one lemma per action: most steps stutter, a
death closes several deliveries at once. `DeliveriesAdvance` is the safety half of
`DeliveriesEnd`: a delivery starts once, counts its attempts up to `Tries` and ends for
good.

**`RotateTxProofs`**. `RotateInv` says what each transaction holds at each of its
statements, and that an exclusive lock for a deletion excludes sharers. From it
`TransactionsImplementTables`: a transaction changes the tables in the step that ends
it, and deletes what it saw minus what others have deleted since.
`DeadlocksAreExplained` adds `LockInv` (locked rows are there; a rotation that has
locked the user's row waits for nothing) and argues on the cycle: without a deletion
each of its members waits for a token row that another one holds, so that there are two.
`AllWaitsAreResolved` adds `HolderInv` (who holds the user's row is between the statement
that took it and its end): whoever is waited for is then under way. If all were blocked,
the rotations and the deletion that has the user's row, of which there are finitely many
whatever the number of deletions, would wait for one another, and among such sets there
is a smallest, which is what the detector looks for (`SmallestCycle`).
`TransactionsAdvance`: each step, a rollback too, brings one transaction nearer to its
end and sets no other back. The two together are the safety half of `TransactionsEnd`.

**`StartupProofs`**. `StartupInv` ties the number of tables to what each process has
run (`SchemaInv`), and the rows to the place of each start in its two statements
(`TokenInv`: who may still insert, and whether the last change of the tokens overlapped
him, wherever it came from, a start, a rotation or a deletion), and contains the module's `TypeOK`, which no run needs to
repeat (nor does one repeat those of `RateLimiter` and `RotateTx`);
`ServesWithWholeSchema`, `TwoTokensAreExplained` and
`LockoutsAreExplained` follow. `VerdictIsRight` is about the two nested loops of `Verify`
over lists of any length. They are recursive functions of the round, and what such a
function holds after the last round is shown by least counterexample: among the rounds
where a claim first fails there is a smallest, by the well-founded order of the naturals,
and the round before it refutes it (`SameLoop`, that a loop is determined by its first
state and its step; `IssuerLoop`, `AudienceLoop`). `PanicsAreExplained` follows the same
way: a nil token takes a list of nothing but empty entries.

**`UserDataProofs`**. `AuditInv`, over `AuditSpec`: an entry that differs from its row
has its reason on record or its Del pending (`Explained`), which is inductive with
types and with what a lookup may hold where (`FailedAt`): a fill compares the value it
writes with the row of that moment. `TypeCorrect` and `StaleConfigIsExplained` follow.
`DeletedAccountDrains` is the safety half of `NothingLingers`: with `NoRows` (the cascade
leaves no row of a deleted account and the foreign key lets none in), once the account
is gone no request begins, each step of one lowers its rank `Left`, and only such a step
can write anything of the user; everything else vanishes.

**`RateLimiterProofs`**. `TypeCorrect`, and `ExpiryIsUnderWay`: the duty to set the
expiry stays with the caller that created the counter or is recorded as lost. Nobody
else has it (`DutyInv`), so that a window, once set, only runs down
(`NoWindowIsRenewed`, an action property). `AtMostTwiceTheLimit` needs more than the
bound itself, which is not inductive: `WindowInv` says for a stretch of any age how its
events divide over the window in progress, which the counter bounds, and the one before,
of which a stretch that reaches back beyond the start of this window sees at most the
limit.

Only model-checked: all liveness (`LingeringEnds`, `RequestsEnd`, `CodesEnd`,
`ReplacedForgotten`, `NothingLingers`, `ExpiredEvicted`, `BlockedUntilReset`,
`DeliveriesEnd`, `TransactionsEnd`), which is out of this prover's reach. Of
`RequestsEnd`, `DeliveriesEnd`, `TransactionsEnd` and `NothingLingers` what does not speak
of fairness is proved, by the theorems named above: no step goes back, no wait of a
transaction is left unresolved, and what is written after a deletion is written by a
request that ends. That an enabled step is taken in the end remains with TLC. Every
invariant, action property and refinement that a passing run checks is also a theorem.

## 6. Not modelled

* Content: coordinates, URLs, secrets, JSON, HTML, SQL text. With it the SQL rewriting
  for SQLite, the address checks of the outbound client, the Markdown pages, the HTTP
  wrappers and the dashboard: pure functions or I/O, with unit tests of their own.
* `GetMyData` changes nothing; the status endpoints only read. Its answer is not a
  snapshot, and nothing in the code or its documentation says it is.
* `TestWebhook` and the gateway's test are lookups (`UserData`); what they send is a test
  event and no location.
* `last_used_at` and `updated_at`: nothing the model keeps depends on them.
* Foreign keys are on. SQLite needs a PRAGMA for each connection, and `main.go` 378
  issues it once; the mutant `MutNoCascade` shows what depends on it. Whether the
  driver ever makes `database/sql` replace the connection is outside this repository.
* `Retry-After` in seconds (`limiter.go` 55): the ticks of the model are no seconds.
* The limit per account on posts and the one per IP on sign-in are both `RateLimiter`;
  the handlers' models start behind it.
* Signatures, key sets and `jwt.Parse` are a library's; `SocialVerify` takes them for
  what their interface says.

## 7. How the project is put together, and how to extend it

`Auth` comes first because every route depends on it; `RotateTx` justifies its
transactions, `SignIn` the users it is handed, `MemStore` the store under it.
`UserData` and `Delivery` share the location: the first says whether there is one and
who may be told, the second which one and how often. `Startup` ends where the others
begin, with a server that has its schema, its user and its verifier. Each module has one
run, one proof module where it has theorems, and one mutant per property; a change of
the source is followed through `map` in `PROJECT.json` to the definitions it concerns.

The end of an account is where three models meet: `Auth` (`lingering`), `SignIn`
(`DeleteAccount`, then `Lapse`) and `UserData` (`account`) each have that moment in their
own words. What the last two take from the first is stated by `Account` and proved of
`Auth` (`AuthImplementsAccount`); that an account does not linger for ever is
`LingeringEnds`, which `Lapse` is the counterpart of.
