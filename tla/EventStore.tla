----------------------------- MODULE EventStore -----------------------------
(***************************************************************************)
(* What the table of learned events promises a node that keeps its power:  *)
(* a set of at most Capacity distinct events with their event variables,   *)
(* and an answer to each frame that agrees with it.  Slots, hash values    *)
(* and the way an event is found do not appear.                            *)
(*                                                                         *)
(* Two weak promises are the code's: an event variable above 1 of an event *)
(* that is not stored is acknowledged and dropped, and the variables of a  *)
(* newly stored event other than the one taught are arbitrary (they are    *)
(* what the slot held before).  Forgetting an event is acknowledged and    *)
(* removes some event, or none: see EVULN in EventTable.                   *)
(***************************************************************************)
EXTENDS Integers, FiniteSets

CONSTANTS
    Capacity,   \* the number of slots
    NumEVs,     \* event variables per event
    Value,      \* values of an event variable
    Events,     \* the events frames carry
    EVIndices,  \* the event-variable numbers frames carry, all in 1..NumEVs
    EVValues    \* the event-variable values frames carry

VARIABLES
    store,      \* the stored events and their variables
    learning,   \* the node is in learn mode
    request,    \* the last frame
    answer      \* the answer to it

vars == <<store, learning, request, answer>>

stored == DOMAIN store
Full == Cardinality(stored) = Capacity
EVs == [1 .. NumEVs -> Value]

None == [kind |-> "none"]
Ack == [kind |-> "ack"]
Refused == [kind |-> "refused"]

Init == store = <<>> /\ learning = FALSE /\ request = [op |-> "none"] /\ answer = None

SetLearning(b) ==
    /\ request' = [op |-> IF b THEN "NNLRN" ELSE "NNULN"]
    /\ learning' = b
    /\ answer' = None
    /\ UNCHANGED store

\* Store e with variables evs, in place of what was stored for e.
Put(e, evs) == store' = [x \in stored \cup {e} |-> IF x = e THEN evs ELSE store[x]]

Teach(e, n, v) ==
    /\ learning
    /\ request' = [op |-> "EVLRN", event |-> e, ev |-> n, value |-> v]
    /\ UNCHANGED learning
    /\ \/ e \in stored /\ Put(e, [store[e] EXCEPT ![n] = v]) /\ answer' = Ack
       \/ /\ e \notin stored /\ ~Full /\ n = 1
          /\ \E evs \in EVs : evs[n] = v /\ Put(e, evs)
          /\ answer' = Ack
       \/ e \notin stored /\ ~Full /\ n > 1 /\ UNCHANGED store /\ answer' = Ack
       \/ e \notin stored /\ Full /\ UNCHANGED store /\ answer' = Refused

Forget(e) ==
    /\ learning
    /\ request' = [op |-> "EVULN", event |-> e]
    /\ UNCHANGED learning
    /\ \/ /\ e \in stored
          /\ \E gone \in SUBSET stored :
               /\ Cardinality(gone) <= 1
               /\ store' = [x \in stored \ gone |-> store[x]]
          /\ answer' = Ack
       \/ e \notin stored /\ UNCHANGED store /\ answer' = Refused

Clear ==
    /\ learning
    /\ request' = [op |-> "NNCLR"]
    /\ store' = <<>>
    /\ answer' = Ack
    /\ UNCHANGED learning

Say(r, a) == request' = r /\ answer' = a /\ UNCHANGED <<store, learning>>

Count == Say([op |-> "RQEVN"], [kind |-> "count", count |-> Cardinality(stored)])
CountFree ==
    Say([op |-> "NNEVN"], [kind |-> "free", count |-> Capacity - Cardinality(stored)])
List == Say([op |-> "NERD"], [kind |-> "list", events |-> stored])

\* A variable is read by a slot number, which names some stored event or none.
Read(n) ==
    \E a \in {[kind |-> "value", value |-> store[e][n]] : e \in stored} \cup {Refused} :
        Say([op |-> "REVAL", ev |-> n], a)

\* The sketch hears of an event if and only if it is stored.
Hear(e, on) ==
    Say([op |-> "accessory", event |-> e],
        IF e \in stored
        THEN [kind |-> "event", event |-> e, on |-> on,
              ev1 |-> IF NumEVs > 0 THEN store[e][1] ELSE 0]
        ELSE None)

Short(e) == [e EXCEPT ![0] = 0, ![1] = 0]

Next ==
    \/ \E b \in BOOLEAN : SetLearning(b)
    \/ \E e \in Events, n \in EVIndices, v \in EVValues : Teach(e, n, v)
    \/ \E e \in Events : Forget(e)
    \/ Clear
    \/ Count
    \/ CountFree
    \/ List
    \/ \E n \in EVIndices : Read(n)
    \/ \E e \in Events, on \in BOOLEAN : Hear(e, on) \/ Hear(Short(e), on)

Spec == Init /\ [][Next]_vars

=============================================================================
