-------------------------------- MODULE Startup --------------------------------
(***************************************************************************)
(* main, from the flags to the listening server, for processes that are    *)
(* started, killed and started again over one database.                    *)
(*                                                                         *)
(*   --local   SQLite file: schema, bootstrapLocalUser, with --token       *)
(*             rotateLocalToken, listen on the port                        *)
(*   hosted    wait for Postgres, schema, wait for Redis, audiences of the *)
(*             social sign-in; then SocialAuth verifies identity tokens    *)
(*                                                                         *)
(* The statements of main run one by one, none of them in a transaction.   *)
(* Those of a local server that serves touch the same rows: the rotation   *)
(* of the pairing token from the dashboard, the deletion of the account.   *)
(***************************************************************************)
EXTENDS Naturals, SocialVerify

CONSTANTS
    Launch,    \* processes that are ever started (a bound)
    Hosted,    \* those that may be started in hosted mode (a bound)
    MaxAudiences   \* the length of APPLE_BUNDLE_ID's list (a bound)

ASSUME HostedAssumption == Hosted \subseteq Launch
ASSUME AudiencesAssumption == MaxAudiences \in Nat \ {0}

(* The CREATE TABLE statements, in order: users, user_identities,          *)
(* user_webhooks, user_openclaw_destinations, user_tokens.                 *)
Tables == 5

VARIABLES
    mode,      \* "local" or "hosted"
    tables,    \* how many of the tables there are
    user,      \* local mode: the row usr_local
    rows,      \* local mode: how many pairing tokens are in user_tokens
    session,   \* local mode: there are web sessions in it
    accepted,  \* local mode: the kinds of tokens the serving process goes on
               \* to accept, revoked or not: cached, or with a request or a
               \* web code under way
    pc,        \* pc[l]: what process l does next
    flag,      \* flag[l]: it was started with --token
    done,      \* done[l]: schema statements it has run
    config,    \* hosted mode: the audiences of each provider
    call,      \* the last call of Verify: provider, token, its result
    torn,      \* history: since the last token was made, a start was cut
               \* between its token statements
    mixed      \* history: the last step that replaced or deleted the tokens,
               \* or a bootstrap since, overlapped another start's statements

dbVars == <<tables, user, rows, session>>
history == <<torn, mixed>>
vars == <<mode, tables, user, rows, session, accepted, pc, flag, done, config,
          call, torn, mixed>>

PC == {"off", "ping", "schema", "count", "insert_user", "insert_token",
       "rotate_delete", "rotate_insert", "redis", "listen", "serving", "exited"}

(* The kinds that the two routes below admit. *)
Kind == {"pairing_token", "web_session"}

(* APPLE_BUNDLE_ID has a default and is split at its commas, with nothing  *)
(* between two of them perhaps; GOOGLE_CLIENT_ID and GOOGLE_IOS_CLIENT_ID  *)
(* may both be unset.                                                      *)
Audience == Client \cup {NoClient}
AppleAudiences == UNION {[1..n -> Audience] : n \in 1..MaxAudiences}
GoogleAudiences == [1..2 -> Audience]
NoCall == [provider |-> "apple", result |-> "none", genuine |-> FALSE]

TypeOK ==
    /\ mode \in {"local", "hosted"}
    /\ tables \in 0..Tables
    /\ user \in BOOLEAN
    /\ rows \in Nat
    /\ session \in BOOLEAN
    /\ accepted \subseteq Kind
    /\ pc \in [Launch -> PC]
    /\ flag \in [Launch -> BOOLEAN]
    /\ done \in [Launch -> 0..Tables]
    /\ config \in [apple : AppleAudiences, google : GoogleAudiences]
    /\ call \in [provider : Provider, genuine : BOOLEAN,
                 result : {"none", "identity", "error", "panic"}]
    /\ torn \in BOOLEAN /\ mixed \in BOOLEAN

Init ==
    /\ mode \in {"local", "hosted"}
    /\ tables = 0
    /\ user = FALSE
    /\ rows = 0
    /\ session = FALSE
    /\ accepted = {}
    /\ pc = [l \in Launch |-> "off"]
    /\ flag = [l \in Launch |-> FALSE]
    /\ done = [l \in Launch |-> 0]
    /\ config \in [apple : AppleAudiences, google : GoogleAudiences]
    /\ mode = "local" => config = CHOOSE c \in [apple : AppleAudiences,
                                               google : GoogleAudiences] : TRUE
    /\ call = NoCall
    /\ torn = FALSE /\ mixed = FALSE

Goto(l, s) == pc' = [pc EXCEPT ![l] = s]

(* Between the first and the last statement that touches a token. *)
Between == {"insert_token", "rotate_insert"}
OtherBetween(l) == \E q \in Launch \ {l} : pc[q] \in Between

-----------------------------------------------------------------------------
(* Operators named Mut... are faults planted on purpose in the definition  *)
(* that follows them; they are no part of the specification.               *)

(* The operator starts a process; --token requires --local. *)
Start(l, f) ==
    /\ pc[l] = "off"
    /\ f => mode = "local"
    /\ mode = "hosted" => l \in Hosted
    /\ flag' = [flag EXCEPT ![l] = f]
    /\ Goto(l, IF mode = "local" THEN "schema" ELSE "ping")
    /\ UNCHANGED <<mode, dbVars, accepted, done, config, call, history>>

(* The loops of initDB and initRedis: the service answers, or 30 seconds   *)
(* are over and the process exits.                                         *)
InitDB(l) ==
    /\ pc[l] = "ping"
    /\ Goto(l, "schema") \/ Goto(l, "exited")
    /\ UNCHANGED <<mode, dbVars, accepted, flag, done, config, call, history>>

InitRedis(l) ==
    /\ pc[l] = "redis"
    /\ Goto(l, "listen") \/ Goto(l, "exited")
    /\ UNCHANGED <<mode, dbVars, accepted, flag, done, config, call, history>>

(* Mutant: the schema is taken for complete when its first table is there. *)
MutApplySchema(l) ==
    /\ pc[l] = "schema"
    /\ \/ /\ done[l] < Tables
          /\ done' = [done EXCEPT ![l] = @ + 1]
          /\ tables' = IF tables = done[l] THEN tables + 1 ELSE tables
          /\ UNCHANGED pc
       \/ /\ done[l] = Tables \/ (done[l] = 0 /\ tables > 0)
          /\ Goto(l, IF mode = "local" THEN "count" ELSE "redis")
          /\ UNCHANGED <<done, tables>>
    /\ UNCHANGED <<mode, user, rows, session, accepted, flag, config, call, history>>

(* One CREATE TABLE IF NOT EXISTS; an error ends the process. *)
ApplySchema(l) ==
    /\ pc[l] = "schema"
    /\ \/ /\ done[l] < Tables
          /\ done' = [done EXCEPT ![l] = @ + 1]
          /\ tables' = IF tables = done[l] THEN tables + 1 ELSE tables
          /\ UNCHANGED pc
       \/ /\ done[l] = Tables
          /\ Goto(l, IF mode = "local" THEN "count" ELSE "redis")
          /\ UNCHANGED <<done, tables>>
       \/ /\ done[l] < Tables
          /\ Goto(l, "exited")
          /\ UNCHANGED <<done, tables>>
    /\ UNCHANGED <<mode, user, rows, session, accepted, flag, config, call, history>>

-----------------------------------------------------------------------------
(* What follows bootstrapLocalUser. *)
Bootstrapped(l) == IF flag[l] THEN "rotate_delete" ELSE "listen"

(* The number of rows of users; an error skips the bootstrap. *)
CountUsers(l) ==
    /\ pc[l] = "count"
    /\ \/ ~user /\ Goto(l, "insert_user")
       \/ Goto(l, Bootstrapped(l))
    /\ UNCHANGED <<mode, dbVars, accepted, flag, done, config, call, history>>

(* Mutant: INSERT OR IGNORE. *)
MutInsertUser(l) ==
    /\ pc[l] = "insert_user"
    /\ user' = TRUE
    /\ Goto(l, "insert_token")
    /\ UNCHANGED <<mode, tables, rows, session, accepted, flag, done, config, call,
                   history>>

(* INSERT INTO users; the primary key lets one of two first starts pass. *)
InsertUser(l) ==
    /\ pc[l] = "insert_user"
    /\ \/ /\ ~user
          /\ user' = TRUE
          /\ mixed' = (mixed \/ \E q \in Launch : pc[q] = "rotate_insert")
          /\ Goto(l, "insert_token")
       \/ /\ Goto(l, Bootstrapped(l))               \* there is one, or an error
          /\ UNCHANGED <<user, mixed>>
    /\ UNCHANGED <<mode, tables, rows, session, accepted, flag, done, config, call,
                   torn>>

(* INSERT INTO user_tokens of a fresh token, by either function; the       *)
(* foreign key needs the user.                                             *)
InsertToken(l) ==
    /\ pc[l] \in Between
    /\ \/ user /\ rows' = rows + 1 /\ torn' = FALSE
       \/ torn' = TRUE /\ UNCHANGED rows
    /\ Goto(l, IF pc[l] = "insert_token" THEN Bootstrapped(l) ELSE "listen")
    /\ UNCHANGED <<mode, tables, user, session, accepted, flag, done, config, call,
                   mixed>>

(* rotateLocalToken: DELETE the pairing tokens, among them one shown a     *)
(* moment ago by this start's own bootstrap.                               *)
RotateDelete(l) ==
    /\ pc[l] = "rotate_delete"
    /\ \/ /\ rows' = 0
          /\ mixed' = OtherBetween(l)
          /\ Goto(l, "rotate_insert")
       \/ /\ Goto(l, "listen")
          /\ UNCHANGED <<rows, mixed>>
    /\ UNCHANGED <<mode, tables, user, session, accepted, flag, done, config, call,
                   torn>>

-----------------------------------------------------------------------------
(* On one machine the port belongs to one process, the others exit. *)
Listen(l) ==
    /\ pc[l] = "listen"
    /\ Goto(l, IF mode = "local" /\ \E q \in Launch : pc[q] = "serving"
               THEN "exited" ELSE "serving")
    /\ UNCHANGED <<mode, dbVars, accepted, flag, done, config, call, history>>

(* The cache, the web codes and the requests die with their process. *)
Kill(l) ==
    /\ pc[l] \notin {"off", "exited"}
    /\ Goto(l, "exited")
    /\ torn' = (torn \/ pc[l] \in Between)
    /\ accepted' = IF pc[l] = "serving" THEN {} ELSE accepted
    /\ UNCHANGED <<mode, dbVars, flag, done, config, call, mixed>>

-----------------------------------------------------------------------------
(* The requests of the local user. *)
ServesLocally(l) == mode = "local" /\ pc[l] = "serving"

(* requireAuthKinds finds the row of a token and caches it. *)
Accept(l, k) ==
    /\ ServesLocally(l)
    /\ IF k = "pairing_token" THEN rows > 0 ELSE session
    /\ accepted' = accepted \cup {k}
    /\ UNCHANGED <<mode, dbVars, pc, flag, done, config, call, history>>

(* The entry is evicted or runs out, the last request with k has ended. *)
Forget(k) ==
    /\ k \in accepted
    /\ accepted' = accepted \ {k}
    /\ UNCHANGED <<mode, dbVars, pc, flag, done, config, call, history>>

(* WebCode for a bearer of either kind, then WebLogin with the code; the   *)
(* foreign key needs the user.                                             *)
WebLogin(l) ==
    /\ ServesLocally(l)
    /\ accepted # {} /\ user
    /\ session' = TRUE
    /\ UNCHANGED <<mode, tables, user, rows, accepted, pc, flag, done, config, call,
                   history>>

(* RotatePairingToken, for a web session: DELETE, INSERT and UPDATE in one *)
(* transaction. The INSERT fails without the user, and nothing has changed.*)
RotatePairingToken(l) ==
    /\ ServesLocally(l)
    /\ "web_session" \in accepted /\ user
    /\ rows' = 1
    /\ torn' = FALSE
    /\ mixed' = OtherBetween(l)
    /\ UNCHANGED <<mode, tables, user, session, accepted, pc, flag, done, config,
                   call>>

(* Mutant: only the tokens are deleted. *)
MutDeleteAccount(l) ==
    /\ ServesLocally(l)
    /\ accepted # {}
    /\ rows' = 0
    /\ session' = FALSE
    /\ mixed' = OtherBetween(l)
    /\ UNCHANGED <<mode, tables, user, accepted, pc, flag, done, config, call, torn>>

(* DeleteAccount, for a bearer of either kind, also one that has no row    *)
(* any more; what it deletes may be the user of a later bootstrap.         *)
DeleteAccount(l) ==
    /\ ServesLocally(l)
    /\ accepted # {}
    /\ user' = FALSE
    /\ rows' = 0
    /\ session' = FALSE
    /\ mixed' = OtherBetween(l)
    /\ UNCHANGED <<mode, tables, accepted, pc, flag, done, config, call, torn>>

(* SocialAuth calls Verify; without a verifier (local mode) it answers 404 *)
(* before. The keys of a provider may not have been fetched.               *)
SocialAuth(l, p, tok) ==
    /\ mode = "hosted"
    /\ pc[l] = "serving"
    /\ \E keys \in BOOLEAN :
          call' = [provider |-> p, result |-> Verify(p, tok, config[p], keys),
                   genuine |-> keys /\ Genuine(p, tok, config[p])]
    /\ UNCHANGED <<mode, dbVars, accepted, pc, flag, done, config, history>>

Next ==
    \E l \in Launch :
        \/ \E f \in BOOLEAN : Start(l, f)
        \/ InitDB(l) \/ InitRedis(l) \/ ApplySchema(l)
        \/ CountUsers(l) \/ InsertUser(l) \/ InsertToken(l) \/ RotateDelete(l)
        \/ Listen(l) \/ Kill(l)
        \/ WebLogin(l) \/ RotatePairingToken(l) \/ DeleteAccount(l)
        \/ \E k \in Kind : Accept(l, k) \/ Forget(k)
        \/ \E p \in Provider, tok \in IdToken : SocialAuth(l, p, tok)

Spec == Init /\ [][Next]_vars

-----------------------------------------------------------------------------
(* Two pairing tokens at once take a start whose token statements overlap  *)
(* another start's --token, the dashboard's rotation, or a deletion of the *)
(* account, which lets a second bootstrap overlap the first; plain starts  *)
(* alone, however many at once, issue one (main.go 494-506, 525-540,       *)
(* handlers.go 857-879, 1076).                                             *)
TwoTokensExplained == rows >= 2 => mixed

(* A user without a pairing token, whom no plain start will ever give one  *)
(* (main.go 486-489), comes only from a start that was cut, or failed,     *)
(* between its two statements (main.go 500-506, 525-537); a start with     *)
(* --token that gets through makes up for all of them.                     *)
LockedOutExplained ==
    user /\ rows = 0 =>
        \/ torn
        \/ \E l \in Launch : pc[l] \in Between

(* A server that serves has the whole schema, also when the processes that *)
(* created it died half-way (main.go 296-444).                             *)
SchemaComplete == \A l \in Launch : pc[l] = "serving" => tables = Tables

(* Verify lets through what the provider issued for one of the clients,    *)
(* and nothing else, whatever the position of the client in the list and   *)
(* of the issuer (socialauth/google.go 37-70, apple.go 32-60).           *)
VerdictRight == call.result = "identity" <=> call.genuine

(* socialauth.go 49-51: Verify "returns the verified identity. Returns   *)
(* an error if the token is invalid, expired, or has the wrong audience."  *)
IdentityOrError == call.result # "panic"
=============================================================================
