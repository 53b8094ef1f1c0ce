------------------------------ MODULE UserData ------------------------------
(***************************************************************************)
(* What the server keeps of one user beside credentials: the last          *)
(* location and the times its integrations were used (loc:<user> and       *)
(* intg:<user>:<kind>, key-value store only), the receivers of location    *)
(* updates (user_webhooks, user_openclaw_destinations) and the caches in   *)
(* front of those two tables (wh:<user>, oc:<user>).                       *)
(*                                                                         *)
(*   PostLocation                      write the location, look both       *)
(*                                     receivers up, hand it to them,      *)
(*                                     record that they were used          *)
(*   GetLocation, the MCP tool         read the location, record that      *)
(*   Get.., Test.., SendOpenClaw..     look one receiver up                *)
(*   PutWebhook, RegisterOpenClawDest  upsert the row, Del its cache; the  *)
(*                                     gateway is probed before            *)
(*   DeleteWebhook, DeleteOpenClaw..   delete the row, Del its cache       *)
(*   DeleteAccount                     Del caches and location, then       *)
(*                                     DELETE the user                     *)
(*                                                                         *)
(* One round trip is one step. All keys are per user, so one user is all.  *)
(***************************************************************************)
EXTENDS Naturals

CONSTANTS
    Req,       \* concurrent requests, over all server processes
    Config,    \* what a receiver may be registered as (URL and secret)
    NoConfig,  \* no row; in a cache, the sentinel "__none__"
    Failed,    \* the SELECT of a lookup failed
    Absent,    \* no cache entry
    Faulty     \* TRUE: calls may fail, clients hang up, processes die

Slot == {"webhook", "openclaw"}
Route == {"post", "read", "look", "put", "drop", "delete_account"}

ASSUME FaultyAssumption == Faulty \in BOOLEAN
ASSUME SentinelsAssumption ==
    /\ NoConfig \notin Config
    /\ Failed \notin Config \cup {NoConfig}
    /\ Absent \notin Config \cup {NoConfig, Failed}

VARIABLES
    account,  \* "live"; after its deletion "lingering" while cached tokens
              \* are still accepted (see Auth), then "gone"
    row,      \* row[s]: the row of the table of s
    cache,    \* cache[s]: the entry in front of it
    loc,      \* there is a location
    intg,     \* there is a record of an integration
    pc,       \* pc[r]: the next round trip of request r
    route,    \* route[r]: what r does
    slot,     \* slot[r]: the receiver r is at
    val       \* val[r]: what the SELECT of r's lookup gave

reqVars == <<pc, route, slot, val>>
vars == <<account, row, cache, loc, intg, pc, route, slot, val>>

PC == {"idle", "write_loc", "get", "select", "fill", "record", "probe",
       "write_row", "invalidate", "evict", "drop_loc", "erase"}

TypeOK ==
    /\ account \in {"live", "lingering", "gone"}
    /\ row \in [Slot -> Config \cup {NoConfig}]
    /\ cache \in [Slot -> Config \cup {NoConfig, Absent}]
    /\ loc \in BOOLEAN /\ intg \in BOOLEAN
    /\ pc \in [Req -> PC]
    /\ route \in [Req -> Route]
    /\ slot \in [Req -> Slot]
    /\ val \in [Req -> Config \cup {NoConfig, Failed}]

Init ==
    /\ account = "live"
    /\ row = [s \in Slot |-> NoConfig]
    /\ cache = [s \in Slot |-> Absent]
    /\ loc = FALSE /\ intg = FALSE
    /\ pc = [r \in Req |-> "idle"]
    /\ route = [r \in Req |-> "post"]
    /\ slot = [r \in Req |-> "webhook"]
    /\ val = [r \in Req |-> NoConfig]

Goto(r, l) == pc' = [pc EXCEPT ![r] = l]

(* The request has been answered (or is gone): its locals are forgotten. *)
Finish(r) ==
    /\ Goto(r, "idle")
    /\ route' = [route EXCEPT ![r] = "post"]
    /\ slot' = [slot EXCEPT ![r] = "webhook"]
    /\ val' = [val EXCEPT ![r] = NoConfig]

(* The first round trip of a handler behind its checks of the request. *)
Entry(o, s) ==
    CASE o = "post"                       -> "write_loc"
      [] o = "read"                       -> "record"
      [] o = "look"                       -> "get"
      [] o = "put" /\ s = "openclaw"      -> "probe"
      [] o = "put" /\ s = "webhook"       -> "write_row"
      [] o = "drop"                       -> "write_row"
      [] o = "delete_account"             -> "evict"

Arrive(r, o, s) ==
    /\ pc[r] = "idle"
    /\ account # "gone"
    /\ o \in {"post", "read", "delete_account"} => s = "webhook"
    /\ Goto(r, Entry(o, s))
    /\ route' = [route EXCEPT ![r] = o]
    /\ slot' = [slot EXCEPT ![r] = s]
    /\ UNCHANGED <<account, row, cache, loc, intg, val>>

-----------------------------------------------------------------------------
(* Operators named Mut... are faults planted on purpose in the definition  *)
(* that follows them; they are no part of the specification.               *)

(* writeLocation; its error is the answer. *)
WriteLocation(r) ==
    /\ pc[r] = "write_loc"
    /\ \/ /\ loc' = TRUE
          /\ Goto(r, "get")
          /\ UNCHANGED <<route, slot, val>>
       \/ /\ Faulty
          /\ Finish(r)
          /\ UNCHANGED loc
    /\ UNCHANGED <<account, row, cache, intg>>

(* PostLocation looks the OpenClaw gateway up after the webhook. *)
NextLookup(r) ==
    \/ /\ route[r] = "post" /\ slot[r] = "webhook"
       /\ Goto(r, "get")
       /\ slot' = [slot EXCEPT ![r] = "openclaw"]
       /\ val' = [val EXCEPT ![r] = NoConfig]
       /\ UNCHANGED route
    \/ /\ ~(route[r] = "post" /\ slot[r] = "webhook")
       /\ Finish(r)

(* A lookup has given c. PostLocation hands the location to a receiver it  *)
(* found, in a goroutine of its own, and records that.                     *)
LookedUp(r, c) ==
    \/ /\ route[r] = "post" /\ c \in Config
       /\ Goto(r, "record")
       /\ val' = [val EXCEPT ![r] = NoConfig]
       /\ UNCHANGED <<route, slot>>
    \/ /\ ~(route[r] = "post" /\ c \in Config)
       /\ NextLookup(r)

(* recordIntegrationActivity; its error is ignored. *)
Record(r) ==
    /\ pc[r] = "record"
    /\ \/ intg' = TRUE
       \/ Faulty /\ UNCHANGED intg
    /\ NextLookup(r)
    /\ UNCHANGED <<account, row, cache, loc>>

CacheHit(r) ==
    /\ pc[r] = "get"
    /\ cache[slot[r]] # Absent
    /\ LookedUp(r, cache[slot[r]])
    /\ UNCHANGED <<account, row, cache, loc, intg>>

(* No entry, or an error of the store. *)
CacheMiss(r) ==
    /\ pc[r] = "get"
    /\ Faulty \/ cache[slot[r]] = Absent
    /\ Goto(r, "select")
    /\ UNCHANGED <<account, row, cache, loc, intg, route, slot, val>>

(* lookupWebhook goes on after an error of the SELECT, lookupOpenClawDest  *)
(* returns it.                                                             *)
SelectConfig(r) ==
    /\ pc[r] = "select"
    /\ \/ /\ val' = [val EXCEPT ![r] = row[slot[r]]]
          /\ Goto(r, "fill")
          /\ UNCHANGED <<route, slot>>
       \/ /\ Faulty /\ slot[r] = "webhook"
          /\ val' = [val EXCEPT ![r] = Failed]
          /\ Goto(r, "fill")
          /\ UNCHANGED <<route, slot>>
       \/ /\ Faulty /\ slot[r] = "openclaw"
          /\ NextLookup(r)
    /\ UNCHANGED <<account, row, cache, loc, intg>>

(* Mutant: the error itself is cached. *)
MutCachedError(v) == v

(* lookupWebhook caches an error like a missing row. *)
Cached(v) == IF v = Failed THEN NoConfig ELSE v

FillCache(r) ==
    /\ pc[r] = "fill"
    /\ \/ cache' = [cache EXCEPT ![slot[r]] = Cached(val[r])]
       \/ Faulty /\ UNCHANGED cache
    /\ LookedUp(r, val[r])
    /\ UNCHANGED <<account, row, loc, intg>>

-----------------------------------------------------------------------------
(* testOpenClawDelivery; a gateway that is not reached, or refuses, is not *)
(* saved (422).                                                            *)
Probe(r) ==
    /\ pc[r] = "probe"
    /\ \/ /\ Goto(r, "write_row")
          /\ UNCHANGED <<route, slot, val>>
       \/ Finish(r)
    /\ UNCHANGED <<account, row, cache, loc, intg>>

(* Mutant: the handler that changes the row does not invalidate its entry. *)
MutWriteRowOnly(r) ==
    /\ pc[r] = "write_row"
    /\ account = "live" \/ route[r] = "drop"
    /\ \E c \in IF route[r] = "put" THEN Config ELSE {NoConfig} :
          row' = [row EXCEPT ![slot[r]] = c]
    /\ Finish(r)
    /\ UNCHANGED <<account, cache, loc, intg>>

(* The upsert or the DELETE; the foreign key rejects a row of a deleted    *)
(* account (500), and so does an error.                                    *)
WriteRow(r) ==
    /\ pc[r] = "write_row"
    /\ \/ /\ account = "live" \/ route[r] = "drop"
          /\ \E c \in IF route[r] = "put" THEN Config ELSE {NoConfig} :
                row' = [row EXCEPT ![slot[r]] = c]
          /\ Goto(r, "invalidate")
          /\ UNCHANGED <<route, slot, val>>
       \/ /\ Faulty \/ (account # "live" /\ route[r] = "put")
          /\ Finish(r)
          /\ UNCHANGED row
    /\ UNCHANGED <<account, cache, loc, intg>>

(* kv.Del of the entry of r's slot; its error is ignored. *)
DelEntry(r) ==
    \/ cache' = [cache EXCEPT ![slot[r]] = Absent]
    \/ Faulty /\ UNCHANGED cache

Invalidate(r) ==
    /\ pc[r] = "invalidate"
    /\ DelEntry(r)
    /\ Finish(r)
    /\ UNCHANGED <<account, row, loc, intg>>

(* DeleteAccount: both cache entries, the location, the user. *)
Evict(r) ==
    /\ pc[r] = "evict"
    /\ DelEntry(r)
    /\ \/ /\ slot[r] = "webhook"
          /\ slot' = [slot EXCEPT ![r] = "openclaw"]
          /\ UNCHANGED pc
       \/ /\ slot[r] = "openclaw"
          /\ Goto(r, "drop_loc")
          /\ UNCHANGED slot
    /\ UNCHANGED <<account, row, loc, intg, route, val>>

DropLocation(r) ==
    /\ pc[r] = "drop_loc"
    /\ \/ loc' = FALSE
       \/ Faulty /\ UNCHANGED loc
    /\ Goto(r, "erase")
    /\ UNCHANGED <<account, row, cache, intg, route, slot, val>>

(* DELETE FROM users cascades to both tables. *)
EraseUser(r) ==
    /\ pc[r] = "erase"
    /\ \/ /\ account' = IF account = "live" THEN "lingering" ELSE account
          /\ row' = [s \in Slot |-> NoConfig]
       \/ Faulty /\ UNCHANGED <<account, row>>
    /\ Finish(r)
    /\ UNCHANGED <<cache, loc, intg>>

-----------------------------------------------------------------------------
(* The request ends early: a client hangs up, a process dies. *)
Abort(r) ==
    /\ Faulty
    /\ pc[r] # "idle"
    /\ Finish(r)
    /\ UNCHANGED <<account, row, cache, loc, intg>>

(* Mutant: an entry without a TTL. *)
MutNoTTL(s) == FALSE

(* webhookCacheTTL, openclawDestCacheTTL *)
Expire(s) ==
    /\ cache[s] # Absent
    /\ cache' = [cache EXCEPT ![s] = Absent]
    /\ UNCHANGED <<account, row, loc, intg, reqVars>>

(* Mutant: the location without one. *)
MutLocationStays == FALSE

(* locationTTL *)
ExpireLocation ==
    /\ loc
    /\ loc' = FALSE
    /\ UNCHANGED <<account, row, cache, intg, reqVars>>

(* integrationTTL; DeleteAccount leaves these records alone. *)
ExpireRecord ==
    /\ intg
    /\ intg' = FALSE
    /\ UNCHANGED <<account, row, cache, loc, reqVars>>

(* The last cached token of the deleted account runs out (authCacheTTL). *)
Lapse ==
    /\ account = "lingering"
    /\ account' = "gone"
    /\ UNCHANGED <<row, cache, loc, intg, reqVars>>

Step(r) ==
    \/ WriteLocation(r) \/ CacheHit(r) \/ CacheMiss(r) \/ SelectConfig(r)
    \/ FillCache(r) \/ Record(r) \/ Probe(r) \/ WriteRow(r) \/ Invalidate(r)
    \/ Evict(r) \/ DropLocation(r) \/ EraseUser(r)

Next ==
    \/ \E r \in Req :
          \/ \E o \in Route, s \in Slot : Arrive(r, o, s)
          \/ Step(r)
          \/ Abort(r)
    \/ \E s \in Slot : Expire(s)
    \/ ExpireLocation
    \/ ExpireRecord
    \/ Lapse

Spec == Init /\ [][Next]_vars

(* Requests are carried out, entries do not outlive their TTL, and a       *)
(* revoked token is sooner or later refused (Auth: LingeringEnds). Nothing *)
(* makes a client call.                                                    *)
Fairness ==
    /\ \A r \in Req : WF_vars(Step(r))
    /\ \A s \in Slot : WF_vars(Expire(s))
    /\ WF_vars(ExpireLocation)
    /\ WF_vars(ExpireRecord)
    /\ WF_vars(Lapse)

FairSpec == Spec /\ Fairness

-----------------------------------------------------------------------------
(* A receiver that is replaced or removed for good gets no more locations  *)
(* from some moment on: no lookup in flight, error or lost Del keeps its   *)
(* cache entry coming back (handlers.go 623-647, 1179-1208).               *)
ReplacedForgotten ==
    \A s \in Slot, c \in Config :
        <>[](row[s] # c) => <>[](cache[s] # c)

(* Whatever was going on when the account was deleted, its location, its   *)
(* receivers and the traces of its integrations are gone from the server   *)
(* in the end, and stay gone (handlers.go 94-97, 1050-1081).               *)
NothingLingers ==
    account # "live" ~>
        [](~loc /\ ~intg /\ \A s \in Slot : cache[s] \in {NoConfig, Absent})
=============================================================================
