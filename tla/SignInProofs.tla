---------------------------- MODULE SignInProofs ----------------------------
(***************************************************************************)
(* Proofs about SignIn for any people, users, codes and requests. There is *)
(* one lemma per action; SignInInv is the invariant they keep, because     *)
(* neither OneUse (a code in the store might have been used before), nor   *)
(* SameAccount, nor StrayUnused (a code or a request might still know the  *)
(* stray user) is inductive.                                               *)
(***************************************************************************)
EXTENDS SignIn, TLAPS

USE NoUserAssumption, NoCodeAssumption, NoPersonAssumption

LEMMA InitSound == Init => SignInInv
<1> SUFFICES ASSUME Init PROVE SignInInv
  OBVIOUS
<1>1. TypeOK
  BY DEF Init, TypeOK, PC
<1>2. \A r \in Req : LocalsSound(r)
  BY DEF Init, LocalsSound
<1>3. AccountInv
  BY DEF Init, AccountInv, Known
<1>4. CodeInv
  BY DEF Init, CodeInv, InStore, Held
<1> QED  BY <1>1, <1>2, <1>3, <1>4 DEF SignInInv

-----------------------------------------------------------------------------
(* An identity that is found has a known user.                             *)
LEMMA FindIdentityKeeps ==
    ASSUME SignInInv, NEW r \in Req, NEW p \in Person, FindIdentity(r, p)
    PROVE  SignInInv'
<1>1. TypeOK'
  BY DEF SignInInv, TypeOK, PC, FindIdentity, Goto, storeVars, history
<1>2. \A q \in Req : LocalsSound(q)'
  BY DEF SignInInv, TypeOK, LocalsSound, FindIdentity, Goto, storeVars, history
<1>3. AccountInv'
  BY DEF SignInInv, TypeOK, LocalsSound, AccountInv, Known, FindIdentity, Goto,
         storeVars, history
<1>4. CodeInv'
  BY DEF SignInInv, TypeOK, LocalsSound, CodeInv, InStore, Held, FindIdentity,
         Goto, storeVars, history
<1> QED  BY <1>1, <1>2, <1>3, <1>4 DEF SignInInv

(* A user id that was never drawn is nobody's: no token, no code and no    *)
(* request is about it.                                                    *)
LEMMA InsertUserKeeps ==
    ASSUME SignInInv, NEW r \in Req, InsertUser(r)
    PROVE  SignInInv'
<1>1. TypeOK'
  BY DEF SignInInv, TypeOK, PC, InsertUser, Goto, Finish, history
<1>2. \A q \in Req : LocalsSound(q)'
  BY DEF SignInInv, TypeOK, LocalsSound, InsertUser, Goto, Finish, history
<1>3. AccountInv'
  <2>1. CASE users' = users
    BY <2>1 DEF SignInInv, TypeOK, LocalsSound, AccountInv, Known, InsertUser,
                Goto,
                Finish
  <2>2. ASSUME NEW u \in User, users[u] = "none",
               users' = [users EXCEPT ![u] = "live"],
               Goto(r, "insert_identity", person[r], u, NoCode)
        PROVE  AccountInv'
    <3>1. /\ u \notin served
          /\ \A p \in Person : identity[p] # u
          /\ \A c \in Code : web[c] # u /\ oauth[c] # u
          /\ \A q \in Req : uid[q] # u
      BY <2>2 DEF SignInInv, TypeOK, PC, LocalsSound, AccountInv, Known
    <3>2. \A v \in User \ {u} : Known(v) => Known(v)'
      BY <2>2 DEF SignInInv, TypeOK, Known, InsertUser
    <3>3. \A q \in Req \ {r} :
             /\ pc'[q] = pc[q]
             /\ uid'[q] = uid[q]
             /\ pc[q] \in {"store_web_code", "store_code", "rotate", "insert_identity"}
                   => uid[q] \in User \ {u}
      BY <2>2, <3>1 DEF SignInInv, TypeOK, LocalsSound, Goto
    <3>4. pc'[r] = "insert_identity" /\ uid'[r] = u /\ users'[u] = "live"
      BY <2>2 DEF SignInInv, TypeOK, Goto
    <3>5. UNCHANGED <<identity, served, web, oauth>>
      BY DEF InsertUser
    <3>6. \A q \in Req :
             pc'[q] \in {"store_web_code", "store_code", "rotate"} => Known(uid[q])'
      <4> SUFFICES ASSUME NEW q \in Req,
                          pc'[q] \in {"store_web_code", "store_code", "rotate"}
                   PROVE  Known(uid[q])'
        OBVIOUS
      <4>1. q # r
        BY <3>4
      <4>2. pc[q] = pc'[q] /\ uid'[q] = uid[q] /\ uid[q] \in User \ {u}
        BY <3>3, <4>1
      <4>3. Known(uid[q])
        BY <4>2 DEF SignInInv, AccountInv
      <4> QED  BY <2>2, <3>5, <4>2, <4>3 DEF SignInInv, TypeOK, Known
    <3>7. ASSUME NEW q \in Req, pc'[q] = "insert_identity"
          PROVE  /\ users'[uid'[q]] = "live"
                 /\ \A p \in Person : identity[p] # uid'[q]
                 /\ \A s \in Req : uid'[s] = uid'[q] => s = q
      <4>1. CASE q = r
        BY <3>1, <3>3, <3>4, <4>1
      <4>2. CASE q # r
        <5>1. pc[q] = "insert_identity" /\ uid'[q] = uid[q] /\ uid[q] \in User \ {u}
          BY <3>3, <3>7, <4>2
        <5>2. users'[uid[q]] = users[uid[q]]
          BY <2>2, <5>1 DEF SignInInv, TypeOK
        <5> QED  BY <3>3, <3>4, <5>1, <5>2 DEF SignInInv, AccountInv
      <4> QED  BY <4>1, <4>2
    <3>8. /\ \A p \in Person : identity[p] # NoUser => users'[identity[p]] = "live"
          /\ \A v \in served : Known(v)'
          /\ \A c \in Code : web[c] # NoUser => Known(web[c])'
          /\ \A c \in Code : oauth[c] # NoUser => Known(oauth[c])'
      BY <2>2, <3>1, <3>2, <3>5 DEF SignInInv, TypeOK, AccountInv, Known
    <3> QED  BY <3>5, <3>6, <3>7, <3>8 DEF AccountInv
  <2> QED  BY <2>1, <2>2 DEF InsertUser
<1>4. CodeInv'
  BY DEF SignInInv, TypeOK, LocalsSound, CodeInv, InStore, Held, InsertUser,
         Goto, Finish, history
<1> QED  BY <1>1, <1>2, <1>3, <1>4 DEF SignInInv

(* The user becomes known, or its creator gives it up.                     *)
LEMMA InsertIdentityKeeps ==
    ASSUME SignInInv, NEW r \in Req, InsertIdentity(r)
    PROVE  SignInInv'
<1>1. TypeOK'
  BY DEF SignInInv, TypeOK, PC, InsertIdentity, Goto, Finish, history
<1>2. \A q \in Req : LocalsSound(q)'
  BY DEF SignInInv, TypeOK, LocalsSound, InsertIdentity, Goto, Finish, history
<1>3. AccountInv'
  BY DEF SignInInv, TypeOK, LocalsSound, AccountInv, Known, InsertIdentity,
         Goto, Finish, history
<1>4. CodeInv'
  BY DEF SignInInv, TypeOK, LocalsSound, CodeInv, InStore, Held, InsertIdentity,
         Goto, Finish, history
<1> QED  BY <1>1, <1>2, <1>3, <1>4 DEF SignInInv

(* The token goes to a known user, and the code was in this request's hands *)
(* only.                                                                   *)
LEMMA RotateKeeps ==
    ASSUME SignInInv, NEW r \in Req, Rotate(r)
    PROVE  SignInInv'
<1>1. TypeOK'
  <2>1. uid[r] \in User
    BY DEF SignInInv, TypeOK, LocalsSound, Rotate
  <2>2. via[r] # NoCode => via[r] \in Code /\ yield[via[r]] + 1 \in Nat
    BY DEF SignInInv, TypeOK
  <2>3. yield' \in [Code -> Nat]
    BY <2>2 DEF SignInInv, TypeOK, Rotate, Redeemed, history
  <2> QED  BY <2>1, <2>2, <2>3 DEF SignInInv, TypeOK, PC, LocalsSound, Rotate,
     Goto, Finish, Redeemed
<1>2. \A q \in Req : LocalsSound(q)'
  BY DEF SignInInv, TypeOK, LocalsSound, Rotate, Goto, Finish, Redeemed
<1>3. AccountInv'
  BY DEF SignInInv, TypeOK, LocalsSound, AccountInv, Known, Rotate, Goto,
         Finish, Redeemed
<1>4. CodeInv'
  BY DEF SignInInv, TypeOK, LocalsSound, CodeInv, InStore, Held, Rotate, Goto,
         Finish, Redeemed
<1> QED  BY <1>1, <1>2, <1>3, <1>4 DEF SignInInv

(* Whoever has a token is known.                                           *)
LEMMA WebCodeKeeps ==
    ASSUME SignInInv, NEW r \in Req, NEW u \in User, WebCode(r, u)
    PROVE  SignInInv'
<1>1. TypeOK'
  BY DEF SignInInv, TypeOK, PC, WebCode, Goto, Accepted, storeVars, history
<1>2. \A q \in Req : LocalsSound(q)'
  BY DEF SignInInv, TypeOK, LocalsSound, WebCode, Goto, Accepted, storeVars,
         history
<1>3. AccountInv'
  BY DEF SignInInv, TypeOK, LocalsSound, AccountInv, Known, WebCode, Goto,
         Accepted, storeVars, history
<1>4. CodeInv'
  BY DEF SignInInv, TypeOK, LocalsSound, CodeInv, InStore, Held, WebCode, Goto,
         Accepted, storeVars, history
<1> QED  BY <1>1, <1>2, <1>3, <1>4 DEF SignInInv

(* A fresh code is nowhere else.                                           *)
LEMMA StoreWebCodeKeeps ==
    ASSUME SignInInv, NEW r \in Req, StoreWebCode(r)
    PROVE  SignInInv'
<1>1. TypeOK'
  BY DEF SignInInv, TypeOK, PC, StoreWebCode, Goto, Finish, Fresh
<1>2. \A q \in Req : LocalsSound(q)'
  BY DEF SignInInv, TypeOK, LocalsSound, StoreWebCode, Goto, Finish, Fresh
<1>3. AccountInv'
  BY DEF SignInInv, TypeOK, LocalsSound, AccountInv, Known, StoreWebCode, Goto,
         Finish, Fresh
<1>4. CodeInv'
  BY DEF SignInInv, TypeOK, LocalsSound, CodeInv, InStore, Held, StoreWebCode,
         Goto, Finish, Fresh
<1> QED  BY <1>1, <1>2, <1>3, <1>4 DEF SignInInv

(* The code moves from the store to one request.                           *)
LEMMA WebLoginKeeps ==
    ASSUME SignInInv, NEW r \in Req, NEW c \in Code, WebLogin(r, c)
    PROVE  SignInInv'
<1>1. TypeOK'
  BY DEF SignInInv, TypeOK, PC, WebLogin, Goto, history
<1>2. \A q \in Req : LocalsSound(q)'
  BY DEF SignInInv, TypeOK, LocalsSound, WebLogin, Goto, history
<1>3. AccountInv'
  BY DEF SignInInv, TypeOK, LocalsSound, AccountInv, Known, WebLogin, Goto,
         history
<1>4. CodeInv'
  BY DEF SignInInv, TypeOK, LocalsSound, CodeInv, InStore, Held, WebLogin, Goto,
         history
<1> QED  BY <1>1, <1>2, <1>3, <1>4 DEF SignInInv

(* So it does here.                                                        *)
LEMMA OAuthAuthorizeKeeps ==
    ASSUME SignInInv, NEW r \in Req, NEW c \in Code, OAuthAuthorize(r, c)
    PROVE  SignInInv'
<1>1. TypeOK'
  BY DEF SignInInv, TypeOK, PC, OAuthAuthorize, Goto, history
<1>2. \A q \in Req : LocalsSound(q)'
  BY DEF SignInInv, TypeOK, LocalsSound, OAuthAuthorize, Goto, history
<1>3. AccountInv'
  BY DEF SignInInv, TypeOK, LocalsSound, AccountInv, Known, OAuthAuthorize,
         Goto, history
<1>4. CodeInv'
  BY DEF SignInInv, TypeOK, LocalsSound, CodeInv, InStore, Held, OAuthAuthorize,
         Goto, history
<1> QED  BY <1>1, <1>2, <1>3, <1>4 DEF SignInInv

(* One code is used up and another, a fresh one, takes its place and origin. *)
LEMMA StoreOAuthCodeKeeps ==
    ASSUME SignInInv, NEW r \in Req, StoreOAuthCode(r)
    PROVE  SignInInv'
<1>1. TypeOK'
  <2>1. uid[r] \in User
    BY DEF SignInInv, TypeOK, LocalsSound, StoreOAuthCode
  <2>2. via[r] # NoCode => via[r] \in Code /\ yield[via[r]] + 1 \in Nat
    BY DEF SignInInv, TypeOK
  <2>3. yield' \in [Code -> Nat]
    BY <2>2 DEF SignInInv, TypeOK, StoreOAuthCode, Redeemed, history
  <2> QED  BY <2>1, <2>2, <2>3 DEF SignInInv, TypeOK, PC, LocalsSound,
     StoreOAuthCode, Goto, Finish, Fresh, Redeemed, history
<1>2. \A q \in Req : LocalsSound(q)'
  BY DEF SignInInv, TypeOK, LocalsSound, StoreOAuthCode, Goto, Finish, Fresh,
         Redeemed, history
<1>3. AccountInv'
  BY DEF SignInInv, TypeOK, LocalsSound, AccountInv, Known, StoreOAuthCode,
         Goto, Finish, Fresh, Redeemed, history
<1>4. CodeInv'
  BY DEF SignInInv, TypeOK, LocalsSound, CodeInv, InStore, Held, StoreOAuthCode,
         Goto, Finish, Fresh, Redeemed, history
<1> QED  BY <1>1, <1>2, <1>3, <1>4 DEF SignInInv

(* The OAuth code moves to one request, or to nobody.                      *)
LEMMA OAuthTokenKeeps ==
    ASSUME SignInInv, NEW r \in Req, NEW c \in Code, OAuthToken(r, c)
    PROVE  SignInInv'
<1>1. TypeOK'
  BY DEF SignInInv, TypeOK, PC, OAuthToken, Goto, history
<1>2. \A q \in Req : LocalsSound(q)'
  BY DEF SignInInv, TypeOK, LocalsSound, OAuthToken, Goto, history
<1>3. AccountInv'
  BY DEF SignInInv, TypeOK, LocalsSound, AccountInv, Known, OAuthToken, Goto,
         history
<1>4. CodeInv'
  BY DEF SignInInv, TypeOK, LocalsSound, CodeInv, InStore, Held, OAuthToken,
         Goto, history
<1> QED  BY <1>1, <1>2, <1>3, <1>4 DEF SignInInv

(* The user is not one that is being created: those have no token.         *)
LEMMA DeleteAccountKeeps ==
    ASSUME SignInInv, NEW u \in User, DeleteAccount(u)
    PROVE  SignInInv'
<1>1. TypeOK'
  BY DEF SignInInv, TypeOK, PC, DeleteAccount, history
<1>2. \A q \in Req : LocalsSound(q)'
  BY DEF SignInInv, TypeOK, LocalsSound, DeleteAccount, history
<1>3. AccountInv'
  BY DEF SignInInv, TypeOK, LocalsSound, AccountInv, Known, DeleteAccount,
         history
<1>4. CodeInv'
  BY DEF SignInInv, TypeOK, LocalsSound, CodeInv, InStore, Held, DeleteAccount,
         history
<1> QED  BY <1>1, <1>2, <1>3, <1>4 DEF SignInInv

(* A deleted user stays known.                                             *)
LEMMA LapseKeeps ==
    ASSUME SignInInv, NEW u \in User, Lapse(u)
    PROVE  SignInInv'
<1>1. TypeOK'
  BY DEF SignInInv, TypeOK, PC, Lapse, history
<1>2. \A q \in Req : LocalsSound(q)'
  BY DEF SignInInv, TypeOK, LocalsSound, Lapse, history
<1>3. AccountInv'
  BY DEF SignInInv, TypeOK, LocalsSound, AccountInv, Known, Lapse, history
<1>4. CodeInv'
  BY DEF SignInInv, TypeOK, LocalsSound, CodeInv, InStore, Held, Lapse, history
<1> QED  BY <1>1, <1>2, <1>3, <1>4 DEF SignInInv

(* A code that expires is nowhere.                                         *)
LEMMA ExpireKeeps ==
    ASSUME SignInInv, NEW c \in Code, Expire(c)
    PROVE  SignInInv'
<1>1. TypeOK'
  BY DEF SignInInv, TypeOK, PC, Expire, history
<1>2. \A q \in Req : LocalsSound(q)'
  BY DEF SignInInv, TypeOK, LocalsSound, Expire, history
<1>3. AccountInv'
  BY DEF SignInInv, TypeOK, LocalsSound, AccountInv, Known, Expire, history
<1>4. CodeInv'
  BY DEF SignInInv, TypeOK, LocalsSound, CodeInv, InStore, Held, Expire, history
<1> QED  BY <1>1, <1>2, <1>3, <1>4 DEF SignInInv

(* What a request held is dropped: a code, or a user it was creating.      *)
LEMMA AbortKeeps ==
    ASSUME SignInInv, NEW r \in Req, Abort(r)
    PROVE  SignInInv'
<1>1. TypeOK'
  BY DEF SignInInv, TypeOK, PC, Abort, Goto, Finish, storeVars, history
<1>2. \A q \in Req : LocalsSound(q)'
  BY DEF SignInInv, TypeOK, LocalsSound, Abort, Goto, Finish, storeVars, history
<1>3. AccountInv'
  BY DEF SignInInv, TypeOK, LocalsSound, AccountInv, Known, Abort, Goto, Finish,
         storeVars, history
<1>4. CodeInv'
  BY DEF SignInInv, TypeOK, LocalsSound, CodeInv, InStore, Held, Abort, Goto,
         Finish, storeVars, history
<1> QED  BY <1>1, <1>2, <1>3, <1>4 DEF SignInInv

-----------------------------------------------------------------------------
LEMMA NextKeeps == SignInInv /\ [Next]_vars => SignInInv'
<1> SUFFICES ASSUME SignInInv, [Next]_vars PROVE SignInInv'
  OBVIOUS
<1>1. ASSUME NEW r \in Req, NEW p \in Person, FindIdentity(r, p) PROVE SignInInv'
  BY <1>1, FindIdentityKeeps
<1>2. ASSUME NEW r \in Req, NEW u \in User, WebCode(r, u) PROVE SignInInv'
  BY <1>2, WebCodeKeeps
<1>3. ASSUME NEW r \in Req, NEW c \in Code,
             WebLogin(r, c) \/ OAuthAuthorize(r, c) \/ OAuthToken(r, c)
      PROVE  SignInInv'
  BY <1>3, WebLoginKeeps, OAuthAuthorizeKeeps, OAuthTokenKeeps
<1>4. ASSUME NEW r \in Req, Step(r) PROVE SignInInv'
  BY <1>4, InsertUserKeeps, InsertIdentityKeeps, RotateKeeps, StoreWebCodeKeeps,
     StoreOAuthCodeKeeps DEF Step
<1>5. ASSUME NEW r \in Req, Abort(r) PROVE SignInInv'
  BY <1>5, AbortKeeps
<1>6. ASSUME NEW u \in User, DeleteAccount(u) \/ Lapse(u) PROVE SignInInv'
  BY <1>6, DeleteAccountKeeps, LapseKeeps
<1>7. ASSUME NEW c \in Code, Expire(c) PROVE SignInInv'
  BY <1>7, ExpireKeeps
<1>8. CASE UNCHANGED vars
  <2>1. TypeOK' /\ \A r \in Req : LocalsSound(r)'
    BY <1>8 DEF SignInInv, TypeOK, LocalsSound, vars
  <2>2. AccountInv'
    BY <1>8 DEF SignInInv, AccountInv, Known, vars
  <2>3. CodeInv'
    BY <1>8 DEF SignInInv, CodeInv, InStore, Held, vars
  <2> QED  BY <2>1, <2>2, <2>3 DEF SignInInv
<1> QED  BY <1>1, <1>2, <1>3, <1>4, <1>5, <1>6, <1>7, <1>8 DEF Next

(* SignInInv holds in every reachable state. *)
THEOREM SignInInvariant == Spec => []SignInInv
<1>1. Init => SignInInv
  BY InitSound
<1>2. SignInInv /\ [Next]_vars => SignInInv'
  BY NextKeeps
<1> QED  BY <1>1, <1>2, PTL DEF Spec

(* Every variable keeps its type. *)
THEOREM TypeCorrect == Spec => []TypeOK
<1>1. SignInInv => TypeOK
  BY DEF SignInInv
<1> QED  BY <1>1, SignInInvariant, PTL

(* Whoever presents it and whatever fails, a code is good for one thing.   *)
THEOREM CodesAreOneUse == Spec => []OneUse
<1>1. SignInInv => OneUse
  BY DEF SignInInv, CodeInv, OneUse
<1> QED  BY <1>1, SignInInvariant, PTL

(* A token obtained by a code is for the account of the phone that made    *)
(* the code, or made the code this one was exchanged for.                  *)
THEOREM CodesKeepTheAccount == Spec => []SameAccount
<1>1. SignInInv => SameAccount
  BY DEF SignInInv, TypeOK, CodeInv, SameAccount
<1> QED  BY <1>1, SignInInvariant, PTL

(* The user left over by a lost race or a failure stays without token,     *)
(* code and request.                                                       *)
THEOREM StrayUsersAreUnused == Spec => []StrayUnused
<1>1. SignInInv => StrayUnused
  <2> SUFFICES ASSUME SignInInv, NEW u \in User, Stray(u)
               PROVE  /\ u \notin served
                      /\ \A c \in Code : web[c] # u /\ oauth[c] # u
                      /\ \A r \in Req : pc[r] # "insert_identity" => uid[r] # u
    BY DEF StrayUnused
  <2>1. ~Known(u)
    BY DEF Stray, Known
  <2>2. u \notin served /\ \A c \in Code : web[c] # u /\ oauth[c] # u
    BY <2>1 DEF SignInInv, AccountInv
  <2>3. ASSUME NEW r \in Req, pc[r] # "insert_identity", uid[r] = u PROVE FALSE
    <3>1. pc[r] \in {"store_web_code", "store_code", "rotate"}
      BY <2>3 DEF SignInInv, TypeOK, PC, LocalsSound
    <3> QED  BY <2>1, <2>3, <3>1 DEF SignInInv, AccountInv
  <2> QED  BY <2>2, <2>3
<1> QED  BY <1>1, SignInInvariant, PTL

(* An identity leaves its account only when the account is deleted. *)
THEOREM IdentityIsForGood == Spec => IdentityStays
<1>1. SignInInv /\ [Next]_vars =>
         [\A p \in Person : identity[p] # NoUser =>
             identity'[p] = identity[p] \/ users'[identity[p]] # "live"]_vars
  <2> SUFFICES ASSUME SignInInv, Next, NEW p \in Person, identity[p] # NoUser
               PROVE  identity'[p] = identity[p] \/ users'[identity[p]] # "live"
    BY DEF vars
  <2>1. ASSUME NEW r \in Req, InsertIdentity(r) PROVE identity'[p] = identity[p]
    BY <2>1 DEF InsertIdentity, SignInInv, TypeOK
  <2>2. ASSUME NEW u \in User, DeleteAccount(u)
        PROVE  identity'[p] = identity[p] \/ users'[identity[p]] # "live"
    BY <2>2 DEF DeleteAccount, SignInInv, TypeOK
  <2>3. ASSUME UNCHANGED identity PROVE identity'[p] = identity[p]
    BY <2>3
  <2> QED  BY <2>1, <2>2, <2>3
           DEF Next, Step, FindIdentity, InsertUser, Rotate, WebCode, StoreWebCode,
               WebLogin, OAuthAuthorize, StoreOAuthCode, OAuthToken, Lapse, Expire,
               Abort, storeVars
<1> QED  BY <1>1, SignInInvariant, PTL DEF Spec, IdentityStays
=============================================================================
