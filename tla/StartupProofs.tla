----------------------------- MODULE StartupProofs -----------------------------
(***************************************************************************)
(* Proofs about Startup, for any number of processes, started in either    *)
(* mode and killed anywhere, and about the verdict of SocialVerify, for    *)
(* any client ids and lists of audiences of any length.                    *)
(***************************************************************************)
EXTENDS Startup, WellFoundedInduction, TLAPS

(* Two functions that start alike and go on alike are alike: induction     *)
(* over the rounds of a loop, by the first round where they would differ.  *)
LEMMA SameLoop ==
    ASSUME NEW n \in Nat, NEW f, NEW g, f[0] = g[0],
           \A i \in 1..n : f[i - 1] = g[i - 1] => f[i] = g[i]
    PROVE  \A i \in 0..n : f[i] = g[i]
<1> DEFINE Differ == {i \in 0..n : f[i] # g[i]}
<1> SUFFICES ASSUME Differ # {} PROVE FALSE
  OBVIOUS
<1>1. Differ \subseteq Nat
  OBVIOUS
<1>2. PICK first \in Differ :
          \A j \in Differ : ~(<<j, first>> \in OpToRel(<, Nat))
  <2> HIDE DEF Differ
  <2> QED  BY <1>1, NatLessThanWellFounded, WFMin
<1>3. \A j \in Differ : ~(j < first)
  BY <1>1, <1>2 DEF OpToRel
<1>4. first # 0 /\ first - 1 \in 0..n
  OBVIOUS
<1>5. f[first - 1] = g[first - 1]
  BY <1>3, <1>4
<1> QED  BY <1>4, <1>5

(* What the first i rounds of the issuer loop make of st, said without the *)
(* loop.                                                                   *)
Parsed(p, tok, aud, i) == \E j \in 1..i : Parses(p, tok, aud, Issuers[p][j])

LEMMA IssuerLists ==
    ASSUME NEW p \in Provider
    PROVE  Len(Issuers[p]) \in Nat \ {0} /\ DOMAIN Issuers[p] = 1..Len(Issuers[p])
<1>1. CASE p = "apple"
  <2>1. Issuers[p] = <<"https://appleid.apple.com">>
    BY <1>1 DEF Issuers
  <2> QED  BY <2>1
<1>2. CASE p = "google"
  <2>1. Issuers[p] = <<"https://accounts.google.com", "accounts.google.com">>
    BY <1>2 DEF Issuers
  <2> QED  BY <2>1
<1> QED  BY <1>1, <1>2 DEF Provider

LEMMA IssuerLoop ==
    ASSUME NEW st \in {"none", "invalid"}, NEW p \in Provider, NEW tok, NEW aud
    PROVE  TryIssuers(st, p, tok, aud) =
             IF Parsed(p, tok, aud, Len(Issuers[p])) THEN "valid" ELSE "invalid"
<1> DEFINE n == Len(Issuers[p])
           Is(f) == f = [i \in 0..n |->
                           IF i = 0 THEN st
                           ELSE IF f[i - 1] = "valid" \/ Parses(p, tok, aud, Issuers[p][i])
                                THEN "valid" ELSE "invalid"]
           closed == [i \in 0..n |->
                        IF i = 0 THEN st
                        ELSE IF Parsed(p, tok, aud, i) THEN "valid" ELSE "invalid"]
           loop == CHOOSE f : Is(f)
<1>1. n \in Nat /\ n # 0
  BY IssuerLists
<1>2. TryIssuers(st, p, tok, aud) = loop[n]
  BY DEF TryIssuers
<1> HIDE DEF n
<1>3. Is(closed)
  <2>1. ASSUME NEW i \in 1..n
        PROVE  Parsed(p, tok, aud, i) <=>
                 closed[i - 1] = "valid" \/ Parses(p, tok, aud, Issuers[p][i])
    <3>1. CASE i = 1
      <4>1. closed[i - 1] = st
        BY <1>1, <3>1
      <4>2. Parsed(p, tok, aud, i) <=> Parses(p, tok, aud, Issuers[p][i])
        BY <3>1 DEF Parsed
      <4> QED  BY <4>1, <4>2
    <3>2. CASE i # 1
      <4>1. closed[i - 1] = IF Parsed(p, tok, aud, i - 1) THEN "valid" ELSE "invalid"
        BY <1>1, <3>2
      <4>2. 1..i = (1..(i - 1)) \cup {i}
        OBVIOUS
      <4>3. Parsed(p, tok, aud, i) <=>
              Parsed(p, tok, aud, i - 1) \/ Parses(p, tok, aud, Issuers[p][i])
        BY <4>2 DEF Parsed
      <4> QED  BY <4>1, <4>3
    <3> QED  BY <3>1, <3>2
  <2>2. \A i \in 0..n : closed[i] = IF i = 0 THEN st
                           ELSE IF closed[i - 1] = "valid" \/ Parses(p, tok, aud, Issuers[p][i])
                                THEN "valid" ELSE "invalid"
    BY <1>1, <2>1
  <2> QED  BY <2>2
<1>4. Is(loop)
  <2> HIDE DEF Is
  <2> QED  BY <1>3
<1>5. \A i \in 0..n : loop[i] = closed[i]
  <2> HIDE DEF closed, loop
  <2>1. \A i \in 0..n : loop[i] =
           IF i = 0 THEN st
           ELSE IF loop[i - 1] = "valid" \/ Parses(p, tok, aud, Issuers[p][i])
                THEN "valid" ELSE "invalid"
    BY <1>4
  <2>2. \A i \in 0..n : closed[i] =
           IF i = 0 THEN st
           ELSE IF closed[i - 1] = "valid" \/ Parses(p, tok, aud, Issuers[p][i])
                THEN "valid" ELSE "invalid"
    BY <1>3
  <2>3. loop[0] = closed[0]
    BY <1>1, <2>1, <2>2
  <2>4. \A i \in 1..n : loop[i - 1] = closed[i - 1] => loop[i] = closed[i]
    BY <1>1, <2>1, <2>2
  <2> QED  BY <1>1, <2>3, <2>4, SameLoop
<1>6. loop[n] = closed[n]
  BY <1>1, <1>5
<1>7. closed[n] = IF Parsed(p, tok, aud, n) THEN "valid" ELSE "invalid"
  BY <1>1
<1> HIDE DEF closed, loop
<1> QED  BY <1>2, <1>6, <1>7 DEF n

-----------------------------------------------------------------------------
(* An audience counts if it is not the empty string.                       *)
Asked(audiences, i) == \E j \in 1..i : audiences[j] # NoClient
Found(p, tok, audiences, i) ==
    \E j \in 1..i : /\ audiences[j] # NoClient
                    /\ Parsed(p, tok, audiences[j], Len(Issuers[p]))
Reached(p, tok, audiences, i) ==
    IF Found(p, tok, audiences, i) THEN "valid"
    ELSE IF Asked(audiences, i) THEN "invalid" ELSE "none"

LEMMA NextRound ==
    ASSUME NEW p \in Provider, NEW tok, NEW audiences, NEW i \in Nat \ {0}
    PROVE  Reached(p, tok, audiences, i) =
             LET a == Reached(p, tok, audiences, i - 1)
             IN  IF a = "valid" \/ audiences[i] = NoClient THEN a
                 ELSE TryIssuers(a, p, tok, audiences[i])
<1>1. 1..i = (1..(i - 1)) \cup {i}
  OBVIOUS
<1>2. Asked(audiences, i) <=> Asked(audiences, i - 1) \/ audiences[i] # NoClient
  BY <1>1 DEF Asked
<1>3. Found(p, tok, audiences, i) <=>
         \/ Found(p, tok, audiences, i - 1)
         \/ /\ audiences[i] # NoClient
            /\ Parsed(p, tok, audiences[i], Len(Issuers[p]))
  BY <1>1 DEF Found
<1>4. CASE Found(p, tok, audiences, i - 1)
  BY <1>3, <1>4 DEF Reached
<1>5. CASE ~Found(p, tok, audiences, i - 1)
  <2>1. Reached(p, tok, audiences, i - 1) \in {"none", "invalid"}
    BY <1>5 DEF Reached
  <2>2. CASE audiences[i] = NoClient
    BY <1>2, <1>3, <1>5, <2>2 DEF Reached
  <2>3. CASE audiences[i] # NoClient
    <3>1. TryIssuers(Reached(p, tok, audiences, i - 1), p, tok, audiences[i]) =
            IF Parsed(p, tok, audiences[i], Len(Issuers[p])) THEN "valid" ELSE "invalid"
      BY <2>1, IssuerLoop
    <3> QED  BY <1>2, <1>3, <1>5, <2>1, <2>3, <3>1 DEF Reached
  <2> QED  BY <2>2, <2>3
<1> QED  BY <1>4, <1>5

LEMMA AudienceLoop ==
    ASSUME NEW p \in Provider, NEW tok, NEW audiences \in Seq(Client \cup {NoClient})
    PROVE  TryAudiences(p, tok, audiences) = Reached(p, tok, audiences, Len(audiences))
<1> DEFINE n == Len(audiences)
           Round(f, i) == IF i = 0 THEN "none"
                          ELSE IF f[i - 1] = "valid" \/ audiences[i] = NoClient
                               THEN f[i - 1]
                               ELSE TryIssuers(f[i - 1], p, tok, audiences[i])
           Is(f) == f = [i \in 0..n |-> Round(f, i)]
           closed == [i \in 0..n |-> Reached(p, tok, audiences, i)]
           loop == CHOOSE f : Is(f)
<1>1. n \in Nat
  OBVIOUS
<1>2. TryAudiences(p, tok, audiences) = loop[n]
  BY DEF TryAudiences
<1> HIDE DEF n
<1>3. \A i \in 0..n : closed[i] = Round(closed, i)
  <2>1. closed[0] = Round(closed, 0)
    BY <1>1 DEF Reached, Found, Asked
  <2>2. ASSUME NEW i \in 1..n PROVE closed[i] = Round(closed, i)
    <3>1. closed[i] = Reached(p, tok, audiences, i)
          /\ closed[i - 1] = Reached(p, tok, audiences, i - 1)
      BY <1>1
    <3>2. i \in Nat \ {0}
      OBVIOUS
    <3> HIDE DEF closed
    <3> QED  BY <3>1, <3>2, NextRound
  <2>3. \A i \in 0..n : i = 0 \/ i \in 1..n
    BY <1>1
  <2> HIDE DEF closed, Round
  <2> QED  BY <2>1, <2>2, <2>3
<1>4. Is(loop)
  <2>1. Is(closed)
    <3> HIDE DEF Round
    <3> QED  BY <1>3
  <2> HIDE DEF Is
  <2> QED  BY <2>1
<1>5. \A i \in 0..n : loop[i] = Round(loop, i)
  <2> HIDE DEF loop, Round
  <2> QED  BY <1>4
<1>6. loop[n] = closed[n]
  <2> HIDE DEF loop, closed, Is
  <2>1. loop[0] = closed[0]
    BY <1>1, <1>3, <1>5
  <2>2. \A i \in 1..n : loop[i - 1] = closed[i - 1] => loop[i] = closed[i]
    BY <1>1, <1>3, <1>5
  <2> HIDE DEF Round
  <2>3. \A i \in 0..n : loop[i] = closed[i]
    BY <1>1, <2>1, <2>2, SameLoop
  <2> QED  BY <1>1, <2>3
<1>7. closed[n] = Reached(p, tok, audiences, n)
  BY <1>1
<1> HIDE DEF closed, loop
<1> QED  BY <1>2, <1>6, <1>7 DEF n

(* The verdict of Verify, said without its loops: what Genuine asks for.   *)
LEMMA VerifyIsRight ==
    ASSUME NEW p \in Provider, NEW tok \in IdToken,
           NEW audiences \in Seq(Client \cup {NoClient}), NEW keys \in BOOLEAN
    PROVE  /\ Verify(p, tok, audiences, keys) = "identity"
                <=> keys /\ Genuine(p, tok, audiences)
           /\ Verify(p, tok, audiences, keys) = "panic"
                <=> keys /\ \A i \in DOMAIN audiences : audiences[i] = NoClient
<1> DEFINE n == Len(audiences)
           st == TryAudiences(p, tok, audiences)
           Right == /\ tok.signer = p /\ tok.alg \in Methods[p] /\ ~tok.expired
                    /\ tok.iss \in ToSet(Issuers[p]) /\ tok.aud \in ToSet(audiences)
<1>1. n \in Nat /\ DOMAIN audiences = 1..n
  OBVIOUS
<1>2. st = Reached(p, tok, audiences, n)
  BY AudienceLoop
<1>3. tok.aud # NoClient
  BY NoClientAssumption DEF IdToken
<1>4. Found(p, tok, audiences, n) <=> Right
  <2>1. \A aud : Parsed(p, tok, aud, Len(Issuers[p])) <=>
          /\ tok.signer = p /\ tok.alg \in Methods[p] /\ ~tok.expired
          /\ tok.aud = aud /\ tok.iss \in ToSet(Issuers[p])
    BY IssuerLists DEF Parsed, Parses, ToSet
  <2>2. tok.aud \in ToSet(audiences) <=> \E j \in 1..n : audiences[j] = tok.aud
    BY <1>1 DEF ToSet
  <2> HIDE DEF n
  <2> QED  BY <1>3, <2>1, <2>2 DEF Found
<1>5. st = "valid" <=> Right
  <2> HIDE DEF Right, st
  <2> QED  BY <1>2, <1>4 DEF Reached
<1>6. st = "none" <=> \A i \in DOMAIN audiences : audiences[i] = NoClient
  <2>1. Found(p, tok, audiences, n) => Asked(audiences, n)
    BY DEF Found, Asked
  <2>2. Asked(audiences, n) <=> ~\A i \in DOMAIN audiences : audiences[i] = NoClient
    BY <1>1 DEF Asked
  <2> HIDE DEF st, n
  <2> QED  BY <1>2, <2>1, <2>2 DEF Reached
<1>7. Genuine(p, tok, audiences) <=> Right /\ tok.sub
  BY DEF Genuine
<1>8. st \in {"valid", "invalid", "none"}
  <2> HIDE DEF st
  <2> QED  BY <1>2 DEF Reached
<1>9. Verify(p, tok, audiences, keys) =
        IF ~keys \/ st = "invalid" THEN "error"
        ELSE IF st = "none" THEN "panic"
        ELSE IF tok.sub THEN "identity" ELSE "error"
  BY DEF Verify
<1> HIDE DEF st, Right
<1> QED  BY <1>5, <1>6, <1>7, <1>8, <1>9

-----------------------------------------------------------------------------

(* A process that is past its schema has run it, and a statement that was  *)
(* run has left its table.                                                 *)
SchemaInv ==
    /\ \A l \in Launch : done[l] <= tables
    /\ \A l \in Launch :
          pc[l] \notin {"off", "ping", "schema", "exited"} => done[l] = Tables

(* As long as nothing has overlapped its statements, a process that is     *)
(* about to insert a token is alone, and there is none.                    *)
TokenInv ==
    /\ rows > 0 => user
    /\ ~mixed =>
         /\ rows <= 1
         /\ \A l, q \in Launch : pc[l] \in Between /\ pc[q] \in Between => l = q
         /\ \A l \in Launch : pc[l] \in Between => rows = 0
         /\ \A l \in Launch : pc[l] = "insert_token" => user

StartupInv == TypeOK /\ SchemaInv /\ TokenInv /\ LockedOutExplained

LEMMA InitInv == Init => StartupInv
<1> SUFFICES ASSUME Init PROVE StartupInv
  OBVIOUS
<1> USE DEF Init
<1>1. TypeOK
  <2>1. call \in [provider : Provider, genuine : BOOLEAN,
                  result : {"none", "identity", "error", "panic"}]
    BY DEF NoCall, Provider
  <2>2. /\ pc \in [Launch -> PC] /\ flag \in [Launch -> BOOLEAN]
        /\ done \in [Launch -> 0..Tables] /\ tables \in 0..Tables
    BY DEF Tables, PC
  <2>3. config \in [apple : AppleAudiences, google : GoogleAudiences]
    OBVIOUS
  <2> QED
    BY <2>1, <2>2, <2>3 DEF TypeOK
<1>2. SchemaInv /\ TokenInv /\ LockedOutExplained
  BY DEF SchemaInv, TokenInv, LockedOutExplained, Between
<1> QED
  BY <1>1, <1>2 DEF StartupInv

-----------------------------------------------------------------------------
(* What Goto does. *)
Elsewhere(l) == \A q \in Launch : q # l => pc'[q] = pc[q]

LEMMA GotoEffect ==
    ASSUME TypeOK, NEW l \in Launch, NEW s \in PC, Goto(l, s)
    PROVE  pc' \in [Launch -> PC] /\ pc'[l] = s /\ Elsewhere(l)
BY DEF TypeOK, Goto, Elsewhere

(* Steps of one process that touch no token and stay clear of the token    *)
(* statements.                                                             *)
LEMMA ClearStep ==
    ASSUME StartupInv, NEW l \in Launch, Elsewhere(l),
           UNCHANGED <<user, rows, history>>,
           pc[l] \notin Between, pc'[l] \notin Between
    PROVE  TokenInv' /\ LockedOutExplained'
<1>1. \A q \in Launch : pc'[q] \in Between <=> pc[q] \in Between
  BY DEF Elsewhere
<1>2. \A q \in Launch : pc'[q] = "insert_token" <=> pc[q] = "insert_token"
  BY DEF Elsewhere, Between
<1> QED
  BY <1>1, <1>2 DEF StartupInv, TokenInv, LockedOutExplained, history

LEMMA StartInv ==
    ASSUME StartupInv, NEW l \in Launch, NEW f \in BOOLEAN, Start(l, f)
    PROVE  StartupInv'
<1> USE DEF StartupInv
<1>1. PICK s \in {"schema", "ping"} :
          /\ pc[l] = "off" /\ Goto(l, s) /\ flag' = [flag EXCEPT ![l] = f]
          /\ UNCHANGED <<mode, dbVars, accepted, done, config, call, history>>
  BY DEF Start
<1>2. pc' \in [Launch -> PC] /\ pc'[l] = s /\ Elsewhere(l)
  BY <1>1, GotoEffect DEF PC
<1>3. TypeOK'
  BY <1>1, <1>2 DEF TypeOK, dbVars, history
<1>4. SchemaInv'
  BY <1>1, <1>2 DEF SchemaInv, Elsewhere, dbVars
<1> QED
  BY <1>1, <1>2, <1>3, <1>4, ClearStep DEF Between, dbVars

LEMMA WaitInv ==
    ASSUME StartupInv, NEW l \in Launch, InitDB(l) \/ InitRedis(l)
    PROVE  StartupInv'
<1> USE DEF StartupInv
<1>1. PICK s \in {"schema", "listen", "exited"} :
          /\ Goto(l, s) /\ pc[l] \in {"ping", "redis"}
          /\ s = "listen" => pc[l] = "redis"
          /\ UNCHANGED <<mode, dbVars, accepted, flag, done, config, call, history>>
  BY DEF InitDB, InitRedis
<1>2. pc' \in [Launch -> PC] /\ pc'[l] = s /\ Elsewhere(l)
  BY <1>1, GotoEffect DEF PC
<1>3. TypeOK'
  BY <1>1, <1>2 DEF TypeOK, dbVars, history
<1>4. SchemaInv'
  BY <1>1, <1>2 DEF SchemaInv, Elsewhere, dbVars
<1> QED
  BY <1>1, <1>2, <1>3, <1>4, ClearStep DEF Between, dbVars

LEMMA ApplySchemaInv ==
    ASSUME StartupInv, NEW l \in Launch, ApplySchema(l) PROVE StartupInv'
<1> USE DEF StartupInv
<1>0. /\ pc[l] = "schema"
      /\ UNCHANGED <<mode, user, rows, session, accepted, flag, config, call, history>>
  BY DEF ApplySchema
<1>1. /\ done \in [Launch -> 0..Tables] /\ tables \in 0..Tables
      /\ \A q \in Launch : done[q] <= tables
  BY DEF TypeOK, SchemaInv
<1>a. CASE /\ done[l] < Tables
           /\ done' = [done EXCEPT ![l] = @ + 1]
           /\ tables' = IF tables = done[l] THEN tables + 1 ELSE tables
           /\ UNCHANGED pc
  <2>1. done' \in [Launch -> 0..Tables] /\ tables' \in 0..Tables
    BY <1>1, <1>a DEF Tables
  <2>2. \A q \in Launch : done'[q] <= tables'
    BY <1>1, <1>a DEF Tables
  <2>3. \A q \in Launch : q # l => done'[q] = done[q]
    BY <1>1, <1>a
  <2>4. TypeOK' /\ SchemaInv'
    BY <1>0, <1>a, <2>1, <2>2, <2>3 DEF TypeOK, SchemaInv, history
  <2> QED
    BY <1>0, <1>a, <2>4, ClearStep DEF Between, Elsewhere
<1>b. ASSUME NEW s \in {"count", "redis", "exited"}, Goto(l, s),
             s # "exited" => done[l] = Tables, UNCHANGED <<done, tables>>
      PROVE  StartupInv'
  <2>1. pc' \in [Launch -> PC] /\ pc'[l] = s /\ Elsewhere(l)
    BY <1>b, GotoEffect DEF PC
  <2>2. TypeOK'
    BY <1>0, <1>b, <2>1 DEF TypeOK, history
  <2>3. SchemaInv'
    BY <1>b, <2>1 DEF SchemaInv, Elsewhere
  <2> QED
    BY <1>0, <1>b, <2>1, <2>2, <2>3, ClearStep DEF Between
<1> QED
  BY <1>0, <1>a, <1>b DEF ApplySchema

-----------------------------------------------------------------------------
(* A step of a process past its schema: nothing of the schema moves. *)
LEMMA LaterSchema ==
    ASSUME StartupInv, NEW l \in Launch, Elsewhere(l), UNCHANGED <<tables, done>>,
           pc[l] \notin {"off", "ping", "schema", "exited"}
    PROVE  SchemaInv'
BY DEF StartupInv, SchemaInv, Elsewhere

LEMMA CountUsersInv ==
    ASSUME StartupInv, NEW l \in Launch, CountUsers(l) PROVE StartupInv'
<1> USE DEF StartupInv
<1>1. PICK s \in {"insert_user", "rotate_delete", "listen"} :
          /\ pc[l] = "count" /\ Goto(l, s)
          /\ UNCHANGED <<mode, dbVars, accepted, flag, done, config, call, history>>
  BY DEF CountUsers, Bootstrapped
<1>2. pc' \in [Launch -> PC] /\ pc'[l] = s /\ Elsewhere(l)
  BY <1>1, GotoEffect DEF PC
<1>3. TypeOK'
  BY <1>1, <1>2 DEF TypeOK, dbVars, history
<1> QED
  BY <1>1, <1>2, <1>3, LaterSchema, ClearStep DEF Between, dbVars

LEMMA InsertUserInv ==
    ASSUME StartupInv, NEW l \in Launch, InsertUser(l) PROVE StartupInv'
<1> USE DEF StartupInv
<1>0. /\ pc[l] = "insert_user"
      /\ UNCHANGED <<mode, tables, rows, session, accepted, flag, done, config, call,
                 torn>>
  BY DEF InsertUser
<1>a. CASE /\ ~user /\ user' = TRUE
           /\ mixed' = (mixed \/ \E q \in Launch : pc[q] = "rotate_insert")
           /\ Goto(l, "insert_token")
  <2>1. pc' \in [Launch -> PC] /\ pc'[l] = "insert_token" /\ Elsewhere(l)
    BY <1>a, GotoEffect DEF PC
  <2>2. TypeOK'
    BY <1>0, <1>a, <2>1 DEF TypeOK
  <2>3. SchemaInv'
    BY <1>0, <2>1, LaterSchema
  <2>4. TokenInv'
    <3>1. rows = 0 /\ rows' = 0
      BY <1>0, <1>a DEF TokenInv, TypeOK
    <3>2. ASSUME ~mixed', NEW q \in Launch, pc'[q] \in Between PROVE q = l
      <4>1. (~mixed /\ pc[q] # "rotate_insert") \/ q = l
        BY <1>a, <3>2
      <4>2. CASE q # l
        BY <1>a, <2>1, <3>2, <4>1, <4>2 DEF TokenInv, Between, Elsewhere, TypeOK
      <4> QED
        BY <4>2
    <3> QED
      BY <1>a, <3>1, <3>2 DEF TokenInv
  <2>5. LockedOutExplained'
    BY <2>1 DEF LockedOutExplained, Between
  <2> QED
    BY <2>2, <2>3, <2>4, <2>5
<1>b. CASE Goto(l, Bootstrapped(l)) /\ UNCHANGED <<user, mixed>>
  <2>1. PICK s \in {"rotate_delete", "listen"} : Goto(l, s)
    BY <1>b DEF Bootstrapped
  <2>2. pc' \in [Launch -> PC] /\ pc'[l] = s /\ Elsewhere(l)
    BY <2>1, GotoEffect DEF PC
  <2>3. TypeOK'
    BY <1>0, <1>b, <2>2 DEF TypeOK
  <2> QED
    BY <1>0, <1>b, <2>2, <2>3, LaterSchema, ClearStep DEF Between, history
<1> QED
  BY <1>a, <1>b DEF InsertUser

(* The process that inserts a token is alone between its statements, unless*)
(* its start was mixed up with another, a rotation or a deletion.          *)
LEMMA InsertTokenInv ==
    ASSUME StartupInv, NEW l \in Launch, InsertToken(l) PROVE StartupInv'
<1> USE DEF StartupInv
<1>1. PICK s \in {"rotate_delete", "listen"} :
          /\ pc[l] \in Between /\ Goto(l, s)
          /\ UNCHANGED <<mode, tables, user, session, accepted, flag, done, config,
                         call, mixed>>
          /\ \/ user /\ rows' = rows + 1 /\ torn' = FALSE
             \/ torn' = TRUE /\ UNCHANGED rows
  BY DEF InsertToken, Bootstrapped
<1>2. pc' \in [Launch -> PC] /\ pc'[l] = s /\ Elsewhere(l)
  BY <1>1, GotoEffect DEF PC
<1>3. TypeOK'
  <2>1. rows \in Nat
    BY DEF TypeOK
  <2>2. torn' \in BOOLEAN
    BY <1>1
  <2>3. rows' \in {rows, rows + 1}
    BY <1>1
  <2>4. rows' \in Nat
    BY <2>1, <2>3
  <2> QED
    BY <1>1, <1>2, <2>2, <2>4 DEF TypeOK
<1>4. SchemaInv'
  BY <1>1, <1>2, LaterSchema DEF Between
<1>5. TokenInv'
  <2>1. \A q \in Launch : pc'[q] \in Between => q # l /\ pc[q] \in Between
    BY <1>2 DEF Between, Elsewhere
  <2>2. ~mixed => \A q \in Launch : pc'[q] \notin Between
    BY <1>1, <2>1 DEF TokenInv
  <2>3. ~mixed => rows = 0
    BY <1>1 DEF TokenInv
  <2>4. \A q \in Launch : pc'[q] = "insert_token" => pc'[q] \in Between
    BY DEF Between
  <2> QED
    BY <1>1, <2>2, <2>3, <2>4 DEF TokenInv
<1>6. LockedOutExplained'
  BY <1>1 DEF LockedOutExplained, TypeOK
<1> QED
  BY <1>3, <1>4, <1>5, <1>6

LEMMA RotateDeleteInv ==
    ASSUME StartupInv, NEW l \in Launch, RotateDelete(l) PROVE StartupInv'
<1> USE DEF StartupInv
<1>0. /\ pc[l] = "rotate_delete"
      /\ UNCHANGED <<mode, tables, user, session, accepted, flag, done, config, call,
                 torn>>
  BY DEF RotateDelete
<1>a. CASE /\ rows' = 0
           /\ mixed' = OtherBetween(l)
           /\ Goto(l, "rotate_insert")
  <2>1. pc' \in [Launch -> PC] /\ pc'[l] = "rotate_insert" /\ Elsewhere(l)
    BY <1>a, GotoEffect DEF PC
  <2>2. TypeOK'
    <3>1. rows' \in Nat /\ mixed' \in BOOLEAN
      BY <1>a DEF OtherBetween
    <3> QED
      BY <1>0, <2>1, <3>1 DEF TypeOK
  <2>3. TokenInv'
    BY <1>a, <2>1 DEF TokenInv, OtherBetween, Elsewhere, Between
  <2>4. LockedOutExplained'
    BY <2>1 DEF LockedOutExplained, Between
  <2> QED
    BY <1>0, <2>1, <2>2, <2>3, <2>4, LaterSchema
<1>b. CASE Goto(l, "listen") /\ UNCHANGED <<rows, mixed>>
  <2>1. pc' \in [Launch -> PC] /\ pc'[l] = "listen" /\ Elsewhere(l)
    BY <1>b, GotoEffect DEF PC
  <2>2. TypeOK'
    BY <1>0, <1>b, <2>1 DEF TypeOK
  <2> QED
    BY <1>0, <1>b, <2>1, <2>2, LaterSchema, ClearStep DEF Between, history
<1> QED
  BY <1>a, <1>b DEF RotateDelete

-----------------------------------------------------------------------------
LEMMA ListenInv ==
    ASSUME StartupInv, NEW l \in Launch, Listen(l) PROVE StartupInv'
<1> USE DEF StartupInv
<1>1. PICK s \in {"serving", "exited"} :
          /\ pc[l] = "listen" /\ Goto(l, s)
          /\ UNCHANGED <<mode, dbVars, accepted, flag, done, config, call, history>>
  BY DEF Listen
<1>2. pc' \in [Launch -> PC] /\ pc'[l] = s /\ Elsewhere(l)
  BY <1>1, GotoEffect DEF PC
<1>3. TypeOK'
  BY <1>1, <1>2 DEF TypeOK, dbVars, history
<1> QED
  BY <1>1, <1>2, <1>3, LaterSchema, ClearStep DEF Between, dbVars

LEMMA KillInv ==
    ASSUME StartupInv, NEW l \in Launch, Kill(l) PROVE StartupInv'
<1> USE DEF StartupInv
<1>1. /\ Goto(l, "exited") /\ torn' = (torn \/ pc[l] \in Between)
      /\ accepted' \in {{}, accepted}
      /\ UNCHANGED <<mode, dbVars, flag, done, config, call, mixed>>
  BY DEF Kill
<1>2. pc' \in [Launch -> PC] /\ pc'[l] = "exited" /\ Elsewhere(l)
  BY <1>1, GotoEffect DEF PC
<1>3. TypeOK'
  BY <1>1, <1>2 DEF TypeOK, dbVars
<1>4. SchemaInv'
  BY <1>1, <1>2 DEF SchemaInv, Elsewhere, dbVars
<1>5. TokenInv'
  <2>1. \A q \in Launch : /\ pc'[q] \in Between => pc[q] \in Between
                          /\ pc'[q] = "insert_token" => pc[q] = "insert_token"
    BY <1>2 DEF Elsewhere, Between
  <2> QED
    BY <1>1, <2>1 DEF TokenInv, dbVars
<1>6. LockedOutExplained'
  BY <1>1, <1>2 DEF LockedOutExplained, Elsewhere, dbVars
<1> QED
  BY <1>3, <1>4, <1>5, <1>6

(* When a serving process replaces or deletes the tokens, nobody is        *)
(* between two statements, or the history says so.                         *)
LEMMA ServingInv ==
    ASSUME StartupInv, NEW l \in Launch, WebLogin(l) \/ RotatePairingToken(l)
                                           \/ DeleteAccount(l)
    PROVE  StartupInv'
<1> USE DEF StartupInv
<1>1. pc[l] \notin Between
  BY DEF WebLogin, RotatePairingToken, DeleteAccount, ServesLocally, Between
<1>2. UNCHANGED <<mode, tables, accepted, pc, flag, done, config, call>>
  BY DEF WebLogin, RotatePairingToken, DeleteAccount
<1>3. SchemaInv'
  BY <1>2 DEF SchemaInv
<1>4. CASE WebLogin(l)
  <2>1. session' = TRUE /\ UNCHANGED <<user, rows, history>>
    BY <1>4 DEF WebLogin
  <2>2. TypeOK'
    BY <1>2, <2>1 DEF TypeOK, history
  <2> QED
    BY <1>2, <1>3, <2>1, <2>2 DEF TokenInv, LockedOutExplained, history
<1>5. CASE RotatePairingToken(l)
  <2>1. /\ user /\ rows' = 1 /\ torn' = FALSE /\ mixed' = OtherBetween(l)
        /\ UNCHANGED <<user, session>>
    BY <1>5 DEF RotatePairingToken
  <2>2. TypeOK'
    BY <1>2, <2>1 DEF TypeOK, OtherBetween
  <2>3. TokenInv'
    BY <1>1, <1>2, <2>1 DEF TokenInv, OtherBetween, Between
  <2>4. LockedOutExplained'
    BY <2>1 DEF LockedOutExplained
  <2> QED
    BY <1>3, <2>2, <2>3, <2>4
<1>6. CASE DeleteAccount(l)
  <2>1. /\ user' = FALSE /\ rows' = 0 /\ session' = FALSE /\ torn' = torn
        /\ mixed' = OtherBetween(l)
    BY <1>6 DEF DeleteAccount
  <2>2. TypeOK'
    BY <1>2, <2>1 DEF TypeOK, OtherBetween
  <2>3. TokenInv'
    BY <1>1, <1>2, <2>1 DEF TokenInv, OtherBetween, Between
  <2>4. LockedOutExplained'
    BY <2>1 DEF LockedOutExplained
  <2> QED
    BY <1>3, <2>2, <2>3, <2>4
<1> QED
  BY <1>4, <1>5, <1>6

LEMMA SameInv ==
    ASSUME StartupInv, UNCHANGED <<mode, dbVars, pc, flag, done, config, history>>,
           accepted' \subseteq Kind,
           call' \in [provider : Provider, genuine : BOOLEAN,
                      result : {"none", "identity", "error", "panic"}]
    PROVE  StartupInv'
<1> USE DEF StartupInv, dbVars, history
<1>1. TypeOK'
  BY DEF TypeOK
<1> QED
  BY <1>1 DEF SchemaInv, TokenInv, LockedOutExplained

LEMMA SocialAuthInv ==
    ASSUME StartupInv, NEW l \in Launch, NEW p \in Provider, NEW tok \in IdToken,
           SocialAuth(l, p, tok)
    PROVE  StartupInv'
<1>1. PICK keys \in BOOLEAN :
          call' = [provider |-> p, result |-> Verify(p, tok, config[p], keys),
                   genuine |-> keys /\ Genuine(p, tok, config[p])]
  BY DEF SocialAuth
<1>0. UNCHANGED accepted /\ accepted \subseteq Kind
  BY DEF SocialAuth, StartupInv, TypeOK
<1>2. Verify(p, tok, config[p], keys) \in {"none", "identity", "error", "panic"}
  BY DEF Verify
<1>3. (keys /\ Genuine(p, tok, config[p])) \in BOOLEAN
  BY DEF Genuine
<1> QED
  BY <1>0, <1>1, <1>2, <1>3, SameInv DEF SocialAuth

LEMMA AcceptInv ==
    ASSUME StartupInv, NEW k \in Kind, Forget(k) \/ \E l \in Launch : Accept(l, k)
    PROVE  StartupInv'
<1>1. /\ UNCHANGED <<mode, dbVars, pc, flag, done, config, call, history>>
      /\ accepted' \subseteq Kind
  BY DEF Forget, Accept, StartupInv, TypeOK
<1>2. call' \in [provider : Provider, genuine : BOOLEAN,
                 result : {"none", "identity", "error", "panic"}]
  BY <1>1 DEF StartupInv, TypeOK
<1> QED
  BY <1>1, <1>2, SameInv

LEMMA NextInv == StartupInv /\ [Next]_vars => StartupInv'
<1> SUFFICES ASSUME StartupInv, [Next]_vars PROVE StartupInv'
  OBVIOUS
<1>1. CASE UNCHANGED vars
  <2>1. call \in [provider : Provider, genuine : BOOLEAN,
                  result : {"none", "identity", "error", "panic"}]
    BY DEF StartupInv, TypeOK
  <2>2. accepted' \subseteq Kind
    BY <1>1 DEF StartupInv, TypeOK, vars
  <2> QED
    BY <1>1, <2>1, <2>2, SameInv DEF vars, dbVars, history
<1>2. CASE Next
  BY <1>2, StartInv, WaitInv, ApplySchemaInv, CountUsersInv, InsertUserInv,
     InsertTokenInv, RotateDeleteInv, ListenInv, KillInv, ServingInv,
     AcceptInv, SocialAuthInv DEF Next
<1> QED
  BY <1>1, <1>2

(* StartupInv holds whatever processes are started, killed or fail, in     *)
(* either mode, and whatever the local user does at the one that serves    *)
(* (main.go 296-540, handlers.go 841-897, 1050-1081).                      *)
THEOREM StartupInvariance == Spec => []StartupInv
<1>1. Init => StartupInv
  BY InitInv
<1>2. StartupInv /\ [Next]_vars => StartupInv'
  BY NextInv
<1> QED
  BY <1>1, <1>2, PTL DEF Spec

(* A server that serves has every table: CREATE TABLE IF NOT EXISTS makes  *)
(* up for the starts that died half-way (main.go 296-444).                 *)
THEOREM ServesWithWholeSchema == Spec => []SchemaComplete
<1>1. StartupInv => SchemaComplete
  <2> SUFFICES ASSUME StartupInv, NEW l \in Launch, pc[l] = "serving"
               PROVE  tables = Tables
    BY DEF SchemaComplete
  <2>1. done[l] = Tables /\ done[l] <= tables /\ tables \in 0..Tables
    BY DEF StartupInv, SchemaInv, TypeOK
  <2> QED
    BY <2>1 DEF Tables
<1> QED
  BY <1>1, StartupInvariance, PTL

(* Two pairing tokens at once take a start whose statements overlap a      *)
(* --token, a rotation or a deletion of the account (main.go 494-506,      *)
(* 525-540, handlers.go 857-879, 1076).                                    *)
THEOREM TwoTokensAreExplained == Spec => []TwoTokensExplained
<1>1. StartupInv => TwoTokensExplained
  BY DEF StartupInv, TokenInv, TypeOK, TwoTokensExplained
<1> QED
  BY <1>1, StartupInvariance, PTL

(* A user whom no plain start gives a token comes only from a start that   *)
(* ended between its statements (main.go 486-489, 500-506, 525-537).       *)
THEOREM LockoutsAreExplained == Spec => []LockedOutExplained
<1>1. StartupInv => LockedOutExplained
  BY DEF StartupInv
<1> QED
  BY <1>1, StartupInvariance, PTL

-----------------------------------------------------------------------------
LEMMA AudienceLists ==
    ASSUME TypeOK, NEW p \in Provider
    PROVE  config[p] \in Seq(Client \cup {NoClient})
<1>1. CASE p = "apple"
  <2>1. config[p] \in AppleAudiences
    BY <1>1 DEF TypeOK
  <2>2. PICK n \in 1..MaxAudiences : config[p] \in [1..n -> Audience]
    BY <2>1 DEF AppleAudiences
  <2>3. n \in Nat
    BY <2>2, AudiencesAssumption
  <2> QED  BY <2>2, <2>3 DEF Audience
<1>2. CASE p = "google"
  <2>1. config[p] \in [1..2 -> Audience]
    BY <1>2 DEF TypeOK, GoogleAudiences
  <2>2. 2 \in Nat
    OBVIOUS
  <2>3. \A n \in Nat : [1..n -> Audience] \subseteq Seq(Audience)
    OBVIOUS
  <2> QED  BY <2>1, <2>2, <2>3 DEF Audience
<1> QED  BY <1>1, <1>2 DEF Provider

(* A request that never gets an answer, of Verify, comes only from a        *)
(* provider none of whose client ids is set (google.go 41-44, 58-66).       *)
PanicExplained ==
    call.result = "panic" =>
        \A i \in DOMAIN config[call.provider] : config[call.provider][i] = NoClient

LEMMA VerdictKept ==
    ASSUME TypeOK, VerdictRight, PanicExplained, [Next]_vars
    PROVE  VerdictRight' /\ PanicExplained'
<1>1. ASSUME UNCHANGED <<call, config>> PROVE VerdictRight' /\ PanicExplained'
  BY <1>1 DEF VerdictRight, PanicExplained
<1>2. ASSUME NEW l \in Launch, NEW p \in Provider, NEW tok \in IdToken,
             SocialAuth(l, p, tok)
      PROVE  VerdictRight' /\ PanicExplained'
  <2>1. PICK keys \in BOOLEAN :
          call' = [provider |-> p, result |-> Verify(p, tok, config[p], keys),
                   genuine |-> keys /\ Genuine(p, tok, config[p])]
    BY <1>2 DEF SocialAuth
  <2>2. UNCHANGED config
    BY <1>2 DEF SocialAuth
  <2>3. /\ call'.provider = p
        /\ call'.result = Verify(p, tok, config[p], keys)
        /\ call'.genuine = (keys /\ Genuine(p, tok, config[p]))
    BY <2>1
  <2>4. /\ Verify(p, tok, config[p], keys) = "identity"
              <=> keys /\ Genuine(p, tok, config[p])
        /\ Verify(p, tok, config[p], keys) = "panic"
              => \A i \in DOMAIN config[p] : config[p][i] = NoClient
    BY AudienceLists, VerifyIsRight
  <2>5. VerdictRight'
    BY <2>3, <2>4 DEF VerdictRight
  <2>6. PanicExplained'
    BY <2>2, <2>3, <2>4 DEF PanicExplained
  <2> QED  BY <2>5, <2>6
<1>3. ASSUME NEW l \in Launch,
             \/ \E f \in BOOLEAN : Start(l, f)
             \/ InitDB(l) \/ InitRedis(l) \/ ApplySchema(l)
             \/ CountUsers(l) \/ InsertUser(l) \/ InsertToken(l) \/ RotateDelete(l)
             \/ Listen(l) \/ Kill(l)
             \/ WebLogin(l) \/ RotatePairingToken(l) \/ DeleteAccount(l)
             \/ \E k \in Kind : Accept(l, k) \/ Forget(k)
      PROVE  UNCHANGED <<call, config>>
  BY <1>3 DEF Start, InitDB, InitRedis, ApplySchema, CountUsers, InsertUser,
     InsertToken, RotateDelete, Listen, Kill, WebLogin, RotatePairingToken,
     DeleteAccount, Accept, Forget
<1> QED
  BY <1>1, <1>2, <1>3 DEF Next, vars

LEMMA VerdictInvariance == Spec => [](VerdictRight /\ PanicExplained)
<1>1. Init => StartupInv /\ VerdictRight /\ PanicExplained
  BY InitInv DEF Init, NoCall, VerdictRight, PanicExplained
<1>2. StartupInv /\ VerdictRight /\ PanicExplained /\ [Next]_vars =>
        StartupInv' /\ VerdictRight' /\ PanicExplained'
  BY NextInv, VerdictKept DEF StartupInv
<1> QED
  BY <1>1, <1>2, PTL DEF Spec

(* The loops over audiences and issuers let through what the provider      *)
(* issued for one of the clients and nothing else, wherever the client is  *)
(* in a list of any length (google.go 37-70, apple.go 32-60).              *)
THEOREM VerdictIsRight == Spec => []VerdictRight
BY VerdictInvariance, PTL

(* The nil dereference of verify takes a provider all of whose client ids  *)
(* are empty: one that is set turns it into an error, in any position.     *)
THEOREM PanicsAreExplained == Spec => []PanicExplained
BY VerdictInvariance, PTL
=============================================================================
