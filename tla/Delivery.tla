------------------------------- MODULE Delivery -------------------------------
(***************************************************************************)
(* From the phone to the receivers of one user: the location the server    *)
(* stores, the goroutines that forward it, and the packets under way.      *)
(*                                                                         *)
(*   PostLocation          write the location; per receiver that is        *)
(*                         registered, go fireUserWebhook, deliverToOpenClaw *)
(*   fireUserWebhook       one POST, never repeated                        *)
(*   deliverToOpenClaw     a second POST after an error, unless 401 or 404 *)
(*   SendOpenClawLocation  one POST of the stored location                 *)
(*                                                                         *)
(* Locations are numbered as the phone posts them. A POST is a packet that *)
(* is lost, or handled at any later time, also when the client has given   *)
(* it up. The caches of the lookups are in UserData, the limiter in        *)
(* RateLimiter; the receivers are external.                                *)
(***************************************************************************)
EXTENDS Integers, FiniteSets

CONSTANTS
    MaxPost,   \* how many locations the phone posts (a bound)
    Setup,     \* the sets of receivers a user may have registered
    Faulty     \* TRUE: packets and answers get lost, calls fail,
               \*       processes die

ASSUME MaxPostAssumption == MaxPost \in Nat
ASSUME SetupAssumption == Setup \subseteq SUBSET {"webhook", "openclaw"}
ASSUME FaultyAssumption == Faulty \in BOOLEAN

Post == 1..MaxPost
Slot == {"webhook", "openclaw"}

(* Mutant: a third attempt (attempt <= 2). *)
MutTries == [s \in Slot |-> IF s = "openclaw" THEN 3 ELSE 1]

(* The attempts of the goroutine of each receiver. *)
Tries == [s \in Slot |-> IF s = "openclaw" THEN 2 ELSE 1]

(* <<s, n, k>>: attempt k at telling s of location n; k = 0 is the POST of *)
(* SendOpenClawLocation.                                                   *)
Packet == Slot \X Post \X (0..2)

VARIABLES
    post,     \* post[n]: where the request that posts location n is
    stored,   \* loc:<user>: the number of a location, 0 for none
    task,     \* task[s][n]: the goroutine that delivers n to s
    try,      \* try[s][n]: its current attempt
    wire,     \* packets under way
    latest,   \* latest[s]: the location s was told last, 0 for none
    copies,   \* copies[s][n]: how often s got n from the goroutine
    send,     \* where a SendOpenClawLocation is
    calm      \* calm[n]: n was posted with nothing else under way (history)

phoneVars == <<post, stored>>
taskVars == <<task, try>>
vars == <<post, stored, task, try, wire, latest, copies, send, calm>>

Handling == {"write", "webhook", "openclaw"}
Stored == {"webhook", "openclaw", "done"}
Ended == {"delivered", "lost"}
Running == {"post", "wait"}

TypeOK ==
    /\ post \in [Post -> {"unsent", "failed", "done"} \cup Handling]
    /\ stored \in 0..MaxPost
    /\ task \in [Slot -> [Post -> {"off", "none"} \cup Running \cup Ended]]
    /\ try \in [Slot -> [Post -> 1..2]]
    /\ wire \subseteq Packet
    /\ latest \in [Slot -> 0..MaxPost]
    /\ copies \in [Slot -> [Post -> 0..2]]
    /\ send \in {"idle", "read", "wait"}
    /\ calm \in [Post -> BOOLEAN]

Init ==
    /\ post = [n \in Post |-> "unsent"]
    /\ stored = 0
    /\ \E w \in Setup :
          task = [s \in Slot |-> [n \in Post |->
                    IF s \in w THEN "none" ELSE "off"]]
    /\ try = [s \in Slot |-> [n \in Post |-> 1]]
    /\ wire = {}
    /\ latest = [s \in Slot |-> 0]
    /\ copies = [s \in Slot |-> [n \in Post |-> 0]]
    /\ send = "idle"
    /\ calm = [n \in Post |-> FALSE]

-----------------------------------------------------------------------------
(* Operators named Mut... are faults planted on purpose in the definition  *)
(* that follows them; they are no part of the specification.               *)

(* Nothing that began with location n is still going on. *)
Settled(n) ==
    /\ post[n] \notin Handling
    /\ \A s \in Slot : task[s][n] \notin Running
    /\ \A p \in wire : p[2] # n
Quiet == send = "idle" /\ \A n \in Post : Settled(n)

SetTask(s, n, t) == task' = [task EXCEPT ![s][n] = t]
SetPost(n, l) == post' = [post EXCEPT ![n] = l]

(* The phone posts location n; the limiter admits it and the body decodes. *)
Arrive(n) ==
    /\ post[n] = "unsent"
    /\ \A m \in Post : m < n => post[m] # "unsent"
    /\ SetPost(n, "write")
    /\ calm' = [calm EXCEPT ![n] = Quiet]
    /\ UNCHANGED <<stored, taskVars, wire, latest, copies, send>>

(* Mutant: an error of the store does not end the request. *)
MutWriteLocation(n) ==
    /\ post[n] = "write"
    /\ stored' \in {stored, n}
    /\ SetPost(n, "webhook")
    /\ UNCHANGED <<taskVars, wire, latest, copies, send, calm>>

(* writeLocation, whatever is stored already; an error is the answer, also *)
(* when the store has taken the value.                                     *)
WriteLocation(n) ==
    /\ post[n] = "write"
    /\ \/ stored' = n /\ SetPost(n, "webhook")
       \/ Faulty /\ stored' = n /\ SetPost(n, "done")
       \/ Faulty /\ stored' = stored /\ SetPost(n, "failed")
    /\ UNCHANGED <<taskVars, wire, latest, copies, send, calm>>

(* The lookup of receiver s finds one or finds none (or fails); a          *)
(* goroutine takes over, and the request goes on.                          *)
HandOver(s, n) ==
    /\ post[n] = s
    /\ SetPost(n, IF s = "webhook" THEN "openclaw" ELSE "done")
    /\ \/ task[s][n] = "none" /\ SetTask(s, n, "post")
       \/ UNCHANGED task
    /\ UNCHANGED <<stored, try, wire, latest, copies, send, calm>>

-----------------------------------------------------------------------------
(* One iteration of the loop: the POST leaves, or the host cannot be       *)
(* resolved, is a private address, or refuses the connection.              *)
GiveUp(s, n) ==
    SetTask(s, n, "lost") /\ try' = [try EXCEPT ![s][n] = 1]
NextTry(s, n) ==
    IF try[s][n] < Tries[s]
    THEN SetTask(s, n, "post") /\ try' = [try EXCEPT ![s][n] = @ + 1]
    ELSE GiveUp(s, n)

Attempt(s, n) ==
    /\ task[s][n] = "post"
    /\ \/ /\ SetTask(s, n, "wait")
          /\ wire' = wire \cup {<<s, n, try[s][n]>>}
          /\ UNCHANGED try
       \/ /\ Faulty
          /\ NextTry(s, n)
          /\ UNCHANGED wire
    /\ UNCHANGED <<phoneVars, latest, copies, send, calm>>

(* Mutant: a client without a timeout. *)
MutTimeOut(s, n) == FALSE

(* The timeout of the client, or a broken connection. *)
TimeOut(s, n) ==
    /\ Faulty
    /\ task[s][n] = "wait"
    /\ NextTry(s, n)
    /\ UNCHANGED <<phoneVars, wire, latest, copies, send, calm>>

Lose(p) ==
    /\ Faulty
    /\ p \in wire
    /\ wire' = wire \ {p}
    /\ UNCHANGED <<phoneVars, taskVars, latest, copies, send, calm>>

(* What the receiver answers, and whether it took the location in. *)
Status == {"ok", "rejected", "error"}
Answer ==
    {a \in [status : Status, taken : BOOLEAN] :
        /\ a.status = "ok" => a.taken
        /\ a.status = "rejected" => ~a.taken
        /\ a.status # "ok" => Faulty}

(* fireUserWebhook takes any answer for a delivery. *)
Delivered(s, n) == SetTask(s, n, "delivered") /\ UNCHANGED try

(* Mutant: deliverToOpenClaw looks at no status either. *)
MutHear(s, n, status) == Delivered(s, n)

(* The answer reaches the goroutine; deliverToOpenClaw looks at its status. *)
Hear(s, n, status) ==
    \/ (s = "webhook" \/ status = "ok") /\ Delivered(s, n)
    \/ s = "openclaw" /\ status = "rejected" /\ GiveUp(s, n)
    \/ s = "openclaw" /\ status = "error" /\ NextTry(s, n)

Receive(p) ==
    /\ p \in wire
    /\ wire' = wire \ {p}
    /\ LET s == p[1]
           n == p[2]
           k == p[3]
           waiting == IF k = 0 THEN send = "wait"
                               ELSE task[s][n] = "wait" /\ try[s][n] = k
       IN  \E a \in Answer, heard \in BOOLEAN :
             /\ heard => waiting
             /\ waiting /\ ~heard => Faulty
             /\ latest' = IF a.taken THEN [latest EXCEPT ![s] = n] ELSE latest
             /\ copies' = IF a.taken /\ k > 0
                          THEN [copies EXCEPT ![s][n] = @ + 1] ELSE copies
             /\ IF heard /\ k > 0 THEN Hear(s, n, a.status)
                                  ELSE UNCHANGED <<task, try>>
             /\ send' = IF heard /\ k = 0 THEN "idle" ELSE send
    /\ UNCHANGED <<phoneVars, calm>>

-----------------------------------------------------------------------------
(* SendOpenClawLocation: look the destination up, read the location (404   *)
(* if there is none), POST it once. A packet it has given up is gone       *)
(* before the next call (a bound).                                         *)
StartSend ==
    /\ send = "idle"
    /\ \A p \in wire : p[3] # 0
    /\ send' = "read"
    /\ UNCHANGED <<phoneVars, taskVars, wire, latest, copies, calm>>

(* Mutant: the location is read from a replica that lags. *)
MutReadAndSend ==
    /\ send = "read"
    /\ stored # 0
    /\ send' = "wait"
    /\ \E n \in 1..stored : wire' = wire \cup {<<"openclaw", n, 0>>}
    /\ calm' = [n \in Post |-> calm[n] /\ post[n] \notin Handling]
    /\ UNCHANGED <<phoneVars, taskVars, latest, copies>>

ReadAndSend ==
    /\ send = "read"
    /\ \/ /\ stored # 0
          /\ send' = "wait"
          /\ wire' = wire \cup {<<"openclaw", stored, 0>>}
       \/ /\ Faulty \/ stored = 0
          /\ send' = "idle"
          /\ UNCHANGED wire
    /\ calm' = [n \in Post |-> calm[n] /\ post[n] \notin Handling]
    /\ UNCHANGED <<phoneVars, taskVars, latest, copies>>

AbandonSend ==
    /\ Faulty
    /\ send = "wait"
    /\ send' = "idle"
    /\ UNCHANGED <<phoneVars, taskVars, wire, latest, copies, calm>>

-----------------------------------------------------------------------------
(* locationTTL *)
Expire ==
    /\ stored # 0
    /\ stored' = 0
    /\ UNCHANGED <<post, taskVars, wire, latest, copies, send, calm>>

(* A process dies with the requests and goroutines of the posts S it       *)
(* serves; nothing takes them up again. In local mode the location in its  *)
(* memory is gone, too, as after Expire.                                   *)
Busy(n) == post[n] \in Handling \/ \E s \in Slot : task[s][n] \in Running

Die(S) ==
    /\ Faulty
    /\ S # {}
    /\ \A n \in S : Busy(n)
    /\ post' = [n \in Post |->
                  CASE n \notin S \/ post[n] \notin Handling -> post[n]
                    [] post[n] = "write"                      -> "failed"
                    [] OTHER                                  -> "done"]
    /\ LET Hit(s, n) == n \in S /\ task[s][n] \in Running
       IN  /\ task' = [s \in Slot |-> [n \in Post |->
                         IF Hit(s, n) THEN "lost" ELSE task[s][n]]]
           /\ try' = [s \in Slot |-> [n \in Post |->
                        IF Hit(s, n) THEN 1 ELSE try[s][n]]]
    /\ UNCHANGED <<stored, wire, latest, copies, send, calm>>

Deliver(s, n) == Attempt(s, n) \/ TimeOut(s, n)

Next ==
    \/ \E n \in Post : Arrive(n) \/ WriteLocation(n)
    \/ \E s \in Slot, n \in Post : HandOver(s, n) \/ Deliver(s, n)
    \/ \E p \in Packet : Receive(p) \/ Lose(p)
    \/ StartSend \/ ReadAndSend \/ AbandonSend
    \/ Expire
    \/ \E S \in SUBSET Post : Die(S)

Spec == Init /\ [][Next]_vars

(* The goroutines run, and the timeout of the client ends every POST that  *)
(* gets no answer. Nothing obliges the phone, the user or the network.     *)
Fairness ==
    \A s \in Slot, n \in Post : WF_vars(Deliver(s, n))

FairSpec == Spec /\ Fairness

-----------------------------------------------------------------------------
(* A location is stored or arrives after a newer one only if the two were  *)
(* under way together: a location posted when all before it was settled is *)
(* never overtaken by an older one, through whichever of the goroutine,    *)
(* its retry, SendOpenClawLocation or a late packet (handlers.go 583, 603, *)
(* 609, 1263, 1558-1588).                                                  *)
OlderOnlyIfOverlapping ==
    [][/\ stored' # 0 /\ stored' < stored => ~calm[stored]
       /\ \A s \in Slot : latest'[s] < latest[s] => ~calm[latest[s]]]_vars

(* A location that deliverToOpenClaw takes for delivered has arrived at    *)
(* the gateway, and once only if its first POST was acknowledged; no       *)
(* crash, late packet or lost answer makes the goroutine send again what   *)
(* it knows to have arrived (handlers.go 1262-1297). Of a webhook it is    *)
(* not claimed: fireUserWebhook takes a 404 or 500 for a delivery, too     *)
(* (671-677).                                                              *)
AcknowledgedArrived ==
    \A n \in Post : task["openclaw"][n] = "delivered" =>
        /\ copies["openclaw"][n] >= 1
        /\ try["openclaw"][n] = 1 => copies["openclaw"][n] = 1

(* Every goroutine ends, whatever the receiver does (handlers.go 653-675,  *)
(* 1260-1300).                                                             *)
DeliveriesEnd ==
    \A s \in Slot, n \in Post : task[s][n] \in Running ~> task[s][n] \in Ended

(* The promise of Relay: what was not stored is not forwarded, a receiver  *)
(* gets at most Tries copies, and nothing after its delivery is closed.    *)
Written == {n \in Post : post[n] \in Stored}
InOpen(s, n) ==
    task[s][n] \in Running \/ \E k \in 1..2 : <<s, n, k>> \in wire
RelayOpen == {d \in Slot \X Post : InOpen(d[1], d[2])}
RelayClosed == {d \in Slot \X Post : task[d[1]][d[2]] \notin {"off", "none"}} \ RelayOpen

Promised == [webhook |-> 1, openclaw |-> 2]

Promise == INSTANCE Relay WITH
    Tries <- Promised, loc <- stored,
    written <- Written, open <- RelayOpen, closed <- RelayClosed

ImplementsRelay == Promise!RelaySpec
=============================================================================
