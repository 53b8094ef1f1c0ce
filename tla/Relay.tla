-------------------------------- MODULE Relay ---------------------------------
(***************************************************************************)
(* What the receivers of a user may count on: only locations the server    *)
(* has stored are forwarded, each of them to a receiver at most Tries      *)
(* times, and never again once its delivery is closed. Nothing is promised *)
(* about the order of two deliveries, nor that one arrives at all.         *)
(***************************************************************************)
EXTENDS Naturals

CONSTANTS
    Slot,      \* the receivers
    Post,      \* the locations the phone posts
    Tries      \* Tries[s]: how often s may be sent one location

VARIABLES
    loc,       \* the location kept, 0 for none
    written,   \* locations that have been stored
    open,      \* deliveries that have begun and are not closed
    closed,    \* deliveries that are over
    copies     \* copies[s][n]: how often s got n

relayVars == <<loc, written, open, closed, copies>>

RelayInit ==
    /\ loc = 0
    /\ written = {}
    /\ open = {}
    /\ closed = {}
    /\ copies = [s \in Slot |-> [n \in Post |-> 0]]

Store(n) ==
    /\ loc' = n
    /\ written' = written \cup {n}
    /\ UNCHANGED <<open, closed, copies>>

(* A delivery begins. *)
Forward(s, n) ==
    /\ n \in written
    /\ <<s, n>> \notin open \cup closed
    /\ open' = open \cup {<<s, n>>}
    /\ UNCHANGED <<loc, written, closed, copies>>

(* A copy arrives; with the last packet of the delivery it may close. *)
Arrival(s, n) ==
    /\ <<s, n>> \in open
    /\ copies[s][n] < Tries[s]
    /\ copies' = [copies EXCEPT ![s][n] = @ + 1]
    /\ \/ UNCHANGED <<open, closed>>
       \/ open' = open \ {<<s, n>>} /\ closed' = closed \cup {<<s, n>>}
    /\ UNCHANGED <<loc, written>>

(* Deliveries end: acknowledged, given up, or their process has died,      *)
(* which may take the location along.                                      *)
Close(S) ==
    /\ S \subseteq open
    /\ open' = open \ S
    /\ closed' = closed \cup S
    /\ loc' \in {loc, 0}
    /\ UNCHANGED <<written, copies>>

RelayNext ==
    \/ \E n \in Post : Store(n)
    \/ \E s \in Slot, n \in Post : Forward(s, n) \/ Arrival(s, n)
    \/ \E S \in SUBSET open : Close(S)

RelaySpec == RelayInit /\ [][RelayNext]_relayVars
=============================================================================
