-------------------------------- MODULE SignIn --------------------------------
(***************************************************************************)
(* How a client comes to its first token: accounts made at the first       *)
(* social sign-in, one-time codes from the phone to a browser, and from    *)
(* the phone over a browser to an OAuth client.                            *)
(*                                                                         *)
(*   SocialAuth       SELECT identity, else INSERT user, INSERT identity;  *)
(*                    rotateToken                                          *)
(*   WebCode          Set webcode:<code>                                   *)
(*   WebLogin         GetDel webcode:<code>; rotateToken                   *)
(*   OAuthAuthorize   GetDel webcode:<code>; Set oauth:code:<code>         *)
(*   OAuthToken       GetDel oauth:code:<code>; rotateToken                *)
(*                                                                         *)
(* One round trip is one step; rotateToken, whose inside is module Auth,   *)
(* is one step here, and so is DeleteAccount.                              *)
(***************************************************************************)
EXTENDS Naturals

CONSTANTS
    Person,   \* identities: a provider and its sub
    User,     \* user ids that may be drawn (a bound)
    Code,     \* what generateWebCode may return, for both uses (a bound)
    Req,      \* concurrent requests, over all server processes
    NoUser,   \* no row, no entry
    NoCode,   \* the request has not consumed a code
    NoPerson  \* the request is not a SocialAuth

ASSUME NoUserAssumption == NoUser \notin User
ASSUME NoCodeAssumption == NoCode \notin Code
ASSUME NoPersonAssumption == NoPerson \notin Person

VARIABLES
    users,     \* users[u]: "none"; "live"; after the deletion "lingering"
               \* while cached tokens are accepted (see Auth), then "gone"
    identity,  \* identity[p]: the user_id of the row of user_identities
    served,    \* the users a token has been issued to
    web,       \* web[c]: the value of webcode:<c>
    oauth,     \* oauth[c]: the user_id in the value of oauth:code:<c>
    pc,        \* pc[r]: the next round trip of request r
    person,    \* person[r]: the identity SocialAuth has verified
    uid,       \* uid[r]: userID
    via,       \* via[r]: the code that r has consumed
    origin,    \* history: origin[c]: whose phone code c goes back to
    yield      \* history: yield[c]: how many tokens or codes c was good for

storeVars == <<users, identity, served, web, oauth>>
history == <<origin, yield>>
vars == <<users, identity, served, web, oauth, pc, person, uid, via, origin, yield>>

PC == {"idle", "insert_user", "insert_identity", "store_web_code", "store_code",
       "rotate"}

TypeOK ==
    /\ users \in [User -> {"none", "live", "lingering", "gone"}]
    /\ identity \in [Person -> User \cup {NoUser}]
    /\ served \subseteq User
    /\ web \in [Code -> User \cup {NoUser}]
    /\ oauth \in [Code -> User \cup {NoUser}]
    /\ pc \in [Req -> PC]
    /\ person \in [Req -> Person \cup {NoPerson}]
    /\ uid \in [Req -> User \cup {NoUser}]
    /\ via \in [Req -> Code \cup {NoCode}]
    /\ origin \in [Code -> User \cup {NoUser}]
    /\ yield \in [Code -> Nat]

Init ==
    /\ users = [u \in User |-> "none"]
    /\ identity = [p \in Person |-> NoUser]
    /\ served = {}
    /\ web = [c \in Code |-> NoUser]
    /\ oauth = [c \in Code |-> NoUser]
    /\ pc = [r \in Req |-> "idle"]
    /\ person = [r \in Req |-> NoPerson]
    /\ uid = [r \in Req |-> NoUser]
    /\ via = [r \in Req |-> NoCode]
    /\ origin = [c \in Code |-> NoUser]
    /\ yield = [c \in Code |-> 0]

-----------------------------------------------------------------------------
(* Operators named Mut... are faults planted on purpose in the definition  *)
(* that follows them; they are no part of the specification.               *)

(* Request r goes on at l, for user u, with what it has in hand. *)
Goto(r, l, p, u, c) ==
    /\ pc' = [pc EXCEPT ![r] = l]
    /\ person' = [person EXCEPT ![r] = p]
    /\ uid' = [uid EXCEPT ![r] = u]
    /\ via' = [via EXCEPT ![r] = c]

(* The request has been answered (or is gone): its locals are forgotten. *)
Finish(r) == Goto(r, "idle", NoPerson, NoUser, NoCode)

(* Mutant: codes short enough to come up twice. *)
MutAnyCode(c) == TRUE

(* generateWebCode: 40 random bits; that a code comes up twice is left out *)
Fresh(c) == origin[c] = NoUser

(* The code r went by has been good for something. *)
Redeemed(r) ==
    yield' = IF via[r] = NoCode THEN yield ELSE [yield EXCEPT ![via[r]] = @ + 1]

-----------------------------------------------------------------------------
(* SocialAuth, from the SELECT of findOrCreateSocialUser. *)
FindIdentity(r, p) ==
    /\ pc[r] = "idle"
    /\ \/ identity[p] # NoUser /\ Goto(r, "rotate", p, identity[p], NoCode)
       \/ identity[p] = NoUser /\ Goto(r, "insert_user", p, NoUser, NoCode)
    /\ UNCHANGED <<storeVars, history>>

(* A fresh user id; a user beyond the bound is answered 500. *)
InsertUser(r) ==
    /\ pc[r] = "insert_user"
    /\ \/ \E u \in User :
             /\ users[u] = "none"
             /\ users' = [users EXCEPT ![u] = "live"]
             /\ Goto(r, "insert_identity", person[r], u, NoCode)
       \/ /\ \A u \in User : users[u] # "none"
          /\ Finish(r)
          /\ UNCHANGED users
    /\ UNCHANGED <<identity, served, web, oauth, history>>

(* Mutant: INSERT .. ON CONFLICT DO UPDATE. *)
MutUpsertIdentity(r) ==
    /\ pc[r] = "insert_identity"
    /\ identity' = [identity EXCEPT ![person[r]] = uid[r]]
    /\ Goto(r, "rotate", person[r], uid[r], NoCode)
    /\ UNCHANGED <<users, served, web, oauth, history>>

(* Mutant: the error of the INSERT is dropped. *)
MutIgnoreConflict(r) ==
    /\ pc[r] = "insert_identity"
    /\ identity' = [identity EXCEPT ![person[r]] = IF @ = NoUser THEN uid[r] ELSE @]
    /\ Goto(r, "rotate", person[r], uid[r], NoCode)
    /\ UNCHANGED <<users, served, web, oauth, history>>

(* Another request has inserted the identity since the SELECT: the primary *)
(* key rejects this one (500), whose user stays behind.                    *)
InsertIdentity(r) ==
    /\ pc[r] = "insert_identity"
    /\ \/ /\ identity[person[r]] = NoUser
          /\ identity' = [identity EXCEPT ![person[r]] = uid[r]]
          /\ Goto(r, "rotate", person[r], uid[r], NoCode)
       \/ /\ identity[person[r]] # NoUser
          /\ Finish(r)
          /\ UNCHANGED identity
    /\ UNCHANGED <<users, served, web, oauth, history>>

(* rotateToken: a token, or 500 when the account has been deleted since. *)
Rotate(r) ==
    /\ pc[r] = "rotate"
    /\ \/ /\ users[uid[r]] = "live"
          /\ served' = served \cup {uid[r]}
          /\ Redeemed(r)
       \/ /\ users[uid[r]] # "live"
          /\ UNCHANGED <<served, yield>>
    /\ Finish(r)
    /\ UNCHANGED <<users, identity, web, oauth, origin>>

-----------------------------------------------------------------------------
(* A token of u is accepted by the middleware. *)
Accepted(u) == u \in served /\ users[u] \in {"live", "lingering"}

(* WebCode has passed its middleware. *)
WebCode(r, u) ==
    /\ pc[r] = "idle"
    /\ Accepted(u)
    /\ Goto(r, "store_web_code", NoPerson, u, NoCode)
    /\ UNCHANGED <<storeVars, history>>

(* A code beyond the bound is answered 500, here and in StoreOAuthCode. *)
StoreWebCode(r) ==
    /\ pc[r] = "store_web_code"
    /\ \/ \E c \in Code :
             /\ Fresh(c)
             /\ web' = [web EXCEPT ![c] = uid[r]]
             /\ origin' = [origin EXCEPT ![c] = IF @ = NoUser THEN uid[r] ELSE @]
       \/ /\ \A c \in Code : ~Fresh(c)
          /\ UNCHANGED <<web, origin>>
    /\ Finish(r)
    /\ UNCHANGED <<users, identity, served, oauth, yield>>

(* Mutant: Get, and Del once the session is issued. *)
MutLoginKeepsCode(r, c) ==
    /\ pc[r] = "idle"
    /\ web[c] # NoUser
    /\ Goto(r, "rotate", NoPerson, web[c], c)
    /\ UNCHANGED <<storeVars, history>>

(* WebLogin: GetDel takes the code, whatever becomes of the login. A code  *)
(* that is not there is answered 401.                                      *)
WebLogin(r, c) ==
    /\ pc[r] = "idle"
    /\ web[c] # NoUser
    /\ web' = [web EXCEPT ![c] = NoUser]
    /\ Goto(r, "rotate", NoPerson, web[c], c)
    /\ UNCHANGED <<users, identity, served, oauth, history>>

OAuthAuthorize(r, c) ==
    /\ pc[r] = "idle"
    /\ web[c] # NoUser
    /\ web' = [web EXCEPT ![c] = NoUser]
    /\ Goto(r, "store_code", NoPerson, web[c], c)
    /\ UNCHANGED <<users, identity, served, oauth, history>>

(* Mutant: the value stored is the code that was consumed. *)
MutStoreTheCode(r) ==
    /\ pc[r] = "store_code"
    /\ \E c \in Code :
          /\ Fresh(c)
          /\ oauth' = [oauth EXCEPT ![c] = via[r]]
          /\ origin' = [origin EXCEPT ![c] = origin[via[r]]]
          /\ Redeemed(r)
    /\ Finish(r)
    /\ UNCHANGED <<users, identity, served, web>>

(* The redirect with the OAuth code goes out after its Set. *)
StoreOAuthCode(r) ==
    /\ pc[r] = "store_code"
    /\ \/ \E c \in Code :
             /\ Fresh(c)
             /\ oauth' = [oauth EXCEPT ![c] = uid[r]]
             /\ origin' = [origin EXCEPT ![c] = IF @ = NoUser THEN origin[via[r]] ELSE @]
             /\ Redeemed(r)
       \/ /\ \A c \in Code : ~Fresh(c)
          /\ UNCHANGED <<oauth, history>>
    /\ Finish(r)
    /\ UNCHANGED <<users, identity, served, web>>

(* OAuthToken: a code presented with another redirect_uri is consumed, and *)
(* good for nothing (400).                                                 *)
OAuthToken(r, c) ==
    /\ pc[r] = "idle"
    /\ oauth[c] # NoUser
    /\ oauth' = [oauth EXCEPT ![c] = NoUser]
    /\ \/ Goto(r, "rotate", NoPerson, oauth[c], c)
       \/ UNCHANGED <<pc, person, uid, via>>
    /\ UNCHANGED <<users, identity, served, web, history>>

-----------------------------------------------------------------------------
(* DELETE FROM users cascades to the identities; nothing deletes codes. *)
DeleteAccount(u) ==
    /\ u \in served
    /\ users[u] = "live"
    /\ users' = [users EXCEPT ![u] = "lingering"]
    /\ identity' = [p \in Person |-> IF identity[p] = u THEN NoUser ELSE identity[p]]
    /\ UNCHANGED <<served, web, oauth, pc, person, uid, via, history>>

(* The last cached token of u runs out (authCacheTTL). *)
Lapse(u) ==
    /\ users[u] = "lingering"
    /\ users' = [users EXCEPT ![u] = "gone"]
    /\ UNCHANGED <<identity, served, web, oauth, pc, person, uid, via, history>>

(* Mutant: the OAuth code is stored without a TTL. *)
MutOAuthCodeStays(c) ==
    /\ web[c] # NoUser
    /\ web' = [web EXCEPT ![c] = NoUser]
    /\ UNCHANGED <<users, identity, served, oauth, pc, person, uid, via, history>>

(* webCodeTTL, oauthCodeTTL *)
Expire(c) ==
    /\ web[c] # NoUser \/ oauth[c] # NoUser
    /\ web' = [web EXCEPT ![c] = NoUser]
    /\ oauth' = [oauth EXCEPT ![c] = NoUser]
    /\ UNCHANGED <<users, identity, served, pc, person, uid, via, history>>

(* A statement or a call fails, the client hangs up or the process dies:   *)
(* what the request has done so far stays done.                            *)
Abort(r) ==
    /\ pc[r] # "idle"
    /\ Finish(r)
    /\ UNCHANGED <<storeVars, history>>

Step(r) ==
    \/ InsertUser(r) \/ InsertIdentity(r) \/ Rotate(r)
    \/ StoreWebCode(r) \/ StoreOAuthCode(r)

Next ==
    \/ \E r \in Req :
          \/ \E p \in Person : FindIdentity(r, p)
          \/ \E u \in User : WebCode(r, u)
          \/ \E c \in Code : WebLogin(r, c) \/ OAuthAuthorize(r, c) \/ OAuthToken(r, c)
          \/ Step(r)
          \/ Abort(r)
    \/ \E u \in User : DeleteAccount(u) \/ Lapse(u)
    \/ \E c \in Code : Expire(c)

Spec == Init /\ [][Next]_vars

(* Requests are carried out, codes do not outlive their TTL, a revoked     *)
(* token is sooner or later refused (Auth: LingeringEnds). Nothing makes a *)
(* client call.                                                            *)
FairSpec ==
    /\ Spec
    /\ \A r \in Req : WF_vars(Step(r))
    /\ \A c \in Code : WF_vars(Expire(c))
    /\ \A u \in User : WF_vars(Lapse(u))

-----------------------------------------------------------------------------
(* "A code can only be used once" (docs/schema-reference.md 165-166): of   *)
(* all requests that present a code at the same time, one at most gets a   *)
(* session, an OAuth code or an API key for it.                            *)
OneUse == \A c \in Code : yield[c] <= 1

(* "This ensures your web session is always linked to the same account as  *)
(* your phone" (web/privacypolicy/content.md 9), and so is the API key of  *)
(* an OAuth client, two codes further on.                                  *)
SameAccount ==
    \A r \in Req : pc[r] = "rotate" /\ via[r] # NoCode => uid[r] = origin[via[r]]

(* An identity signs in to one account for good, until that is deleted     *)
(* (handlers.go 285-318), whatever first sign-ins race for it.             *)
IdentityStays ==
    [][\A p \in Person :
          identity[p] # NoUser =>
             identity'[p] = identity[p] \/ users'[identity[p]] # "live"]_vars

(* A user without identity, which lost that race or was left behind by a   *)
(* failure, can never be signed in to: nobody has or gets a token or a     *)
(* code for it (handlers.go 303-313).                                      *)
Stray(u) == users[u] = "live" /\ \A p \in Person : identity[p] # u
StrayUnused ==
    \A u \in User : Stray(u) =>
        /\ u \notin served
        /\ \A c \in Code : web[c] # u /\ oauth[c] # u
        /\ \A r \in Req : pc[r] # "insert_identity" => uid[r] # u

(* Codes made before a deletion, or after it with a cached token, are worth *)
(* nothing in the end, along the whole chain of codes (handlers.go 320-382, *)
(* oauth.go 98-210).                                                        *)
CodesEnd ==
    \A u \in User :
        users[u] \in {"lingering", "gone"} ~>
            [](/\ \A c \in Code : web[c] # u /\ oauth[c] # u
               /\ \A r \in Req : uid[r] # u)

-----------------------------------------------------------------------------
(* The invariant that makes OneUse, SameAccount and StrayUnused inductive  *)
(* (see SignInProofs).                                                     *)

(* What a request has in hand fits its next round trip. *)
LocalsSound(r) ==
    /\ pc[r] \in {"insert_user", "insert_identity"} => person[r] \in Person
    /\ pc[r] \in {"idle", "insert_user"} <=> uid[r] = NoUser
    /\ pc[r] = "store_code" => via[r] # NoCode
    /\ via[r] # NoCode => pc[r] \in {"store_code", "rotate"}

(* u has been deleted, or somebody can sign in to it. *)
Known(u) ==
    /\ users[u] # "none"
    /\ users[u] = "live" => \E p \in Person : identity[p] = u

(* A user that is being created has no identity, nor a second creator;     *)
(* tokens and codes are for known users, and so is every other request.    *)
AccountInv ==
    /\ \A p \in Person : identity[p] # NoUser => users[identity[p]] = "live"
    /\ \A u \in served : Known(u)
    /\ \A c \in Code : /\ web[c] # NoUser => Known(web[c])
                       /\ oauth[c] # NoUser => Known(oauth[c])
    /\ \A r \in Req :
          /\ pc[r] \in {"store_web_code", "store_code", "rotate"} => Known(uid[r])
          /\ pc[r] = "insert_identity" =>
                /\ users[uid[r]] = "live"
                /\ \A p \in Person : identity[p] # uid[r]
                /\ \A q \in Req : uid[q] = uid[r] => q = r

(* A code is in one place: not made, in the store, in the hands of one     *)
(* request, or used up; and all along it stands for the phone's user.      *)
InStore(c) == web[c] # NoUser \/ oauth[c] # NoUser
Held(c) == \E r \in Req : via[r] = c
CodeInv ==
    \A c \in Code :
        /\ web[c] \in {NoUser, origin[c]} /\ oauth[c] \in {NoUser, origin[c]}
        /\ web[c] = NoUser \/ oauth[c] = NoUser
        /\ origin[c] = NoUser => ~InStore(c) /\ ~Held(c) /\ yield[c] = 0
        /\ InStore(c) => ~Held(c) /\ yield[c] = 0
        /\ Held(c) => yield[c] = 0
        /\ \A q, r \in Req : via[q] = c /\ via[r] = c => q = r
        /\ \A r \in Req : via[r] = c => uid[r] = origin[c]
        /\ yield[c] <= 1

SignInInv == TypeOK /\ (\A r \in Req : LocalsSound(r)) /\ AccountInv /\ CodeInv
=============================================================================
