----------------------------- MODULE EventTable -----------------------------
(***************************************************************************)
(* The table of learned events of one node: the event slots in EEPROM      *)
(* (MLCBConfig), the hash table over them in RAM, and the opcode handlers  *)
(* of MLCBbase::process() that teach, forget, list and consume events.     *)
(*                                                                         *)
(* A slot is EE_BYTES_PER_EVENT bytes: the node number and event number    *)
(* (four bytes, offsets 0..3) and the event variables, EV n at offset      *)
(* 3+n.  The hash table holds one byte per slot, 0 for a free one; it is   *)
(* written after the slot by each handler and rebuilt from the slots when  *)
(* the node starts.  Frames addressed to another node number change        *)
(* nothing here and are left out; EVLRN and EVULN carry the number of the  *)
(* event's producer and reach every node in learn mode.                    *)
(***************************************************************************)
EXTENDS Integers, FiniteSetsExt

CONSTANTS
    EE_MAX_EVENTS,  \* the number of slots
    EE_NUM_EVS,     \* event variables per event
    Byte,           \* the byte values that occur
    makeHash(_),    \* the hash of an event, 1..255
    Events,         \* the events that frames carry
    EVIndices,      \* the event-variable numbers that frames carry
    EVValues        \* the event-variable values that EVLRN carries

EE_HASH_BYTES == 4
EE_BYTES_PER_EVENT == EE_NUM_EVS + EE_HASH_BYTES

Slots == 0 .. EE_MAX_EVENTS - 1
Offsets == 0 .. EE_BYTES_PER_EVENT - 1

\* The four bytes of an event: node number hi, lo, event number hi, lo.
Event == [0 .. EE_HASH_BYTES - 1 -> Byte]

\* The content of a free slot.
unused_entry == [k \in 0 .. EE_HASH_BYTES - 1 |-> 255]

ASSUME SizeAssumption == EE_MAX_EVENTS \in 1 .. 254 /\ EE_NUM_EVS \in Nat
ASSUME ByteAssumption == Byte \subseteq 0 .. 255 /\ {0, 255} \subseteq Byte
ASSUME HashAssumption == \A e \in Event : makeHash(e) \in 1 .. 255
ASSUME FrameAssumption ==
    Events \subseteq Event /\ EVIndices \subseteq 0 .. 255 /\ EVValues \subseteq Byte

VARIABLES
    eeprom,          \* the slots, Slots -> Offsets -> Byte
    evhashtbl,       \* the hash table in RAM
    hash_collision,  \* two used slots have the same hash
    bLearn,          \* the node is in learn mode
    frame,           \* the last frame the node has handled
    reply            \* what it made the node send or call

vars == <<eeprom, evhashtbl, hash_collision, bLearn, frame, reply>>
table == <<eeprom, evhashtbl, hash_collision>>

-----------------------------------------------------------------------------
(* What the node receives, what it sends, and the call of the sketch's      *)
(* event handler.                                                          *)

NoFrame == [op |-> "none"]
Simple(op) == [op |-> op]
About(op, e) == [op |-> op, event |-> e]

NoReply == [op |-> "none"]
WRACK == [op |-> "WRACK"]
CMDERR(code) == [op |-> "GRSP", code |-> code]

-----------------------------------------------------------------------------
(* MLCBConfig: slots and hash table.  Operators that read the slots take    *)
(* the memory as a parameter, for the handlers read back what they wrote.   *)

readEvent(mem, i) == [k \in 0 .. EE_HASH_BYTES - 1 |-> mem[i][k]]

\* The first n bytes of event e written to slot i; a whole write has n = 4.
writeEventBytes(mem, i, e, n) ==
    [mem EXCEPT ![i] = [k \in Offsets |-> IF k < n THEN e[k] ELSE mem[i][k]]]

writeEvent(mem, i, e) == writeEventBytes(mem, i, e, EE_HASH_BYTES)

\* Mutant: slots one byte too short for the event and its variables.
EVCellShortStride(i, n) ==
    [slot |-> i + (n + 3) \div (EE_BYTES_PER_EVENT - 1),
     offset |-> (n + 3) % (EE_BYTES_PER_EVENT - 1)]

\* Where EV n of slot i is stored.  The number is not checked: EV 0 is the
\* last byte of the event itself, and an EV above EE_NUM_EVS is in a later slot.
EVCell(i, n) ==
    IF n <= EE_NUM_EVS
    THEN [slot |-> i, offset |-> n + 3]
    ELSE [slot |-> i + (n + 3) \div EE_BYTES_PER_EVENT,
          offset |-> (n + 3) % EE_BYTES_PER_EVENT]

\* A write past the last slot is outside the table.
writeEventEV(mem, i, n, v) ==
    LET c == EVCell(i, n)
    IN  IF c.slot \in Slots THEN [mem EXCEPT ![c.slot][c.offset] = v] ELSE mem

\* Mutant: -1 marks a free slot.
hashEntryMinusOne(mem, i) ==
    IF readEvent(mem, i) = unused_entry THEN -1 ELSE makeHash(readEvent(mem, i))

hashEntry(mem, i) ==
    IF readEvent(mem, i) = unused_entry THEN 0 ELSE makeHash(readEvent(mem, i))

check_hash_collisions(tbl) ==
    \E i, j \in Slots : i # j /\ tbl[i] = tbl[j] /\ tbl[i] # 0

makeEvHashTable(mem) == [i \in Slots |-> hashEntry(mem, i)]

\* Mutants: the entry, or the collision flag, is not remade.
updateEvHashEntryDropped(i) ==
    UNCHANGED evhashtbl /\ hash_collision' = check_hash_collisions(evhashtbl)

updateEvHashEntryNoFlag(i) ==
    /\ evhashtbl' = [evhashtbl EXCEPT ![i] = hashEntry(eeprom', i)]
    /\ UNCHANGED hash_collision

updateEvHashEntry(i) ==
    /\ evhashtbl' = [evhashtbl EXCEPT ![i] = hashEntry(eeprom', i)]
    /\ hash_collision' = check_hash_collisions(evhashtbl')

clearEvHashTable ==
    /\ evhashtbl' = [i \in Slots |-> 0]
    /\ hash_collision' = FALSE

usedSlots == {i \in Slots : evhashtbl[i] # 0}
freeSlots == Slots \ usedSlots

\* The scans return the index that ends them, EE_MAX_EVENTS if nothing does.
firstOf(S) == IF S = {} THEN EE_MAX_EVENTS ELSE Min(S)

findEventSpace == firstOf(freeSlots)

\* Mutant: the first slot with the hash is taken for the event's.
findExistingEventUnconfirmed(e) == firstOf({i \in Slots : evhashtbl[i] = makeHash(e)})

\* Without a collision on this hash only the first slot with the hash is
\* compared with the event; with one, every slot with the hash is.
findExistingEvent(e) ==
    LET hits == {i \in Slots : evhashtbl[i] = makeHash(e)}
        confirmed == {i \in hits : readEvent(eeprom, i) = e}
        collided == hash_collision /\ \E i, j \in hits : i # j
    IN  IF collided \/ firstOf(hits) \in confirmed
        THEN firstOf(confirmed)
        ELSE EE_MAX_EVENTS

\* Memory past the last slot reads as erased.
getEventEVval(i, n) ==
    LET c == EVCell(i, n) IN IF c.slot \in Slots THEN eeprom[c.slot][c.offset] ELSE 255

-----------------------------------------------------------------------------
(* The opcode handlers of MLCBbase::process().                             *)

Init ==
    /\ eeprom = [i \in Slots |-> [k \in Offsets |-> 255]]
    /\ evhashtbl = makeEvHashTable(eeprom)
    /\ hash_collision = check_hash_collisions(evhashtbl)
    /\ bLearn = FALSE
    /\ frame = NoFrame
    /\ reply = NoReply

\* Enter and leave learn mode.
setLearn(op, b) ==
    /\ frame' = Simple(op)
    /\ bLearn' = b
    /\ reply' = NoReply
    /\ UNCHANGED table

NNLRN == setLearn("NNLRN", TRUE)
NNULN == setLearn("NNULN", FALSE)

\* Mutant: EVLRN does not look for the event first.
learnSlotFresh(e) == findEventSpace

\* The slot EVLRN uses for an event: its own, or else the first free one.
learnSlot(e) ==
    IF findExistingEvent(e) \in Slots THEN findExistingEvent(e) ELSE findEventSpace

\* Mutant: the event is never written, only its variable.
learntEVOnly(e, evindex, evval) == writeEventEV(eeprom, learnSlot(e), evindex, evval)

\* The slots after EVLRN: the event itself is only written with EV 0 or 1.
learnt(e, evindex, evval) ==
    LET index == learnSlot(e)
    IN  writeEventEV(IF evindex < 2 THEN writeEvent(eeprom, index, e) ELSE eeprom,
                     index, evindex, evval)

EVLRN(e, evindex, evval) ==
    /\ bLearn
    /\ frame' = [op |-> "EVLRN", event |-> e, ev |-> evindex, value |-> evval]
    /\ \/ /\ learnSlot(e) \in Slots
          /\ eeprom' = learnt(e, evindex, evval)
          /\ updateEvHashEntry(learnSlot(e))
          /\ reply' = WRACK
       \/ /\ learnSlot(e) \notin Slots
          /\ reply' = CMDERR(10)
          /\ UNCHANGED table
    /\ UNCHANGED bLearn

\* The handler looks the event up and then clears slot j, a local of
\* process() that is never assigned and is 0.
unlearnSlot == 0

EVULN(e) ==
    /\ bLearn
    /\ frame' = About("EVULN", e)
    /\ \/ /\ findExistingEvent(e) \in Slots
          /\ eeprom' = writeEvent(eeprom, unlearnSlot, unused_entry)
          /\ updateEvHashEntry(unlearnSlot)
          /\ reply' = WRACK
       \/ /\ findExistingEvent(e) \notin Slots
          /\ reply' = CMDERR(10)
          /\ UNCHANGED table
    /\ UNCHANGED bLearn

\* The slots when NNCLR has cleared the first n of them.
cleared(n) ==
    [i \in Slots |-> IF i < n THEN writeEvent(eeprom, i, unused_entry)[i] ELSE eeprom[i]]

NNCLR ==
    /\ bLearn
    /\ frame' = Simple("NNCLR")
    /\ eeprom' = cleared(EE_MAX_EVENTS)
    /\ clearEvHashTable
    /\ reply' = WRACK
    /\ UNCHANGED bLearn

\* The queries: number of events, free slots, all events, one EV.
Answer(f, r) == frame' = f /\ reply' = r /\ UNCHANGED <<table, bLearn>>

RQEVN == Answer(Simple("RQEVN"), [op |-> "NUMEV", count |-> Cardinality(usedSlots)])
NNEVN == Answer(Simple("NNEVN"), [op |-> "EVNLF", count |-> Cardinality(freeSlots)])
NERD  == Answer(Simple("NERD"),
                [op |-> "ENRSP", entries |-> {<<i, readEvent(eeprom, i)>> : i \in usedSlots}])

REVAL(i, n) ==
    Answer([op |-> "REVAL", ev |-> n],
           IF i \in usedSlots
           THEN [op |-> "NEVAL", value |-> getEventEVval(i, n)]
           ELSE CMDERR(6))

\* An accessory event: the sketch's handler is called for a learned event.
\* A short event is looked up under node number 0.  On is an even opcode.
processAccessoryEvent(e, is_on) ==
    LET index == findExistingEvent(e)
    IN  Answer(About("accessory", e),
               IF index \in Slots
               THEN [op |-> "event", index |-> index, event |-> e, on |-> is_on,
                     ev1 |-> IF EE_NUM_EVS > 0 THEN getEventEVval(index, 1) ELSE 0]
               ELSE NoReply)

ACON == 144
ACOF == 145
ARON == 147
AROF == 148
ASON == 152
ASOF == 153

Accessory(opc, e) ==
    IF opc \in {ASON, ASOF}
    THEN processAccessoryEvent([e EXCEPT ![0] = 0, ![1] = 0], opc % 2 = 0)
    ELSE processAccessoryEvent(e, opc % 2 = 0)

-----------------------------------------------------------------------------
(* Power loss.  The EEPROM keeps every byte written so far; the node starts *)
(* again out of learn mode with a hash table made from the slots.           *)

\* Mutant: the table is not remade.
RestartKeepsTable(mem) ==
    /\ eeprom' = mem
    /\ bLearn' = FALSE
    /\ frame' = NoFrame
    /\ reply' = NoReply
    /\ UNCHANGED <<evhashtbl, hash_collision>>

Restart(mem) ==
    /\ eeprom' = mem
    /\ evhashtbl' = makeEvHashTable(mem)
    /\ hash_collision' = check_hash_collisions(evhashtbl')
    /\ bLearn' = FALSE
    /\ frame' = NoFrame
    /\ reply' = NoReply

PowerLossIdle == Restart(eeprom)

\* During writeEvent of EVLRN, n bytes written.
PowerLossLearning(e, n) ==
    /\ bLearn
    /\ learnSlot(e) \in Slots
    /\ Restart(writeEventBytes(eeprom, learnSlot(e), e, n))

\* During cleareventEEPROM of EVULN.
PowerLossUnlearning(e, n) ==
    /\ bLearn
    /\ findExistingEvent(e) \in Slots
    /\ Restart(writeEventBytes(eeprom, unlearnSlot, unused_entry, n))

\* During NNCLR, s slots and n bytes of the next one cleared.
PowerLossClearing(s, n) ==
    /\ bLearn
    /\ Restart([cleared(s) EXCEPT
                  ![s] = writeEventBytes(eeprom, s, unused_entry, n)[s]])

-----------------------------------------------------------------------------
Step ==
    \/ NNLRN
    \/ NNULN
    \/ \E e \in Events, n \in EVIndices, v \in EVValues : EVLRN(e, n, v)
    \/ \E e \in Events : EVULN(e)
    \/ NNCLR
    \/ RQEVN
    \/ NNEVN
    \/ NERD
    \/ \E i \in 0 .. EE_MAX_EVENTS, n \in EVIndices : REVAL(i, n)
    \/ \E e \in Events, opc \in {ACON, ACOF, ARON, AROF, ASON, ASOF} : Accessory(opc, e)

PowerLoss ==
    \/ PowerLossIdle
    \/ \E e \in Events, n \in 1 .. EE_HASH_BYTES :
          PowerLossLearning(e, n) \/ PowerLossUnlearning(e, n)
    \/ \E s \in Slots, n \in 1 .. EE_HASH_BYTES : PowerLossClearing(s, n)

Next == Step \/ PowerLoss

Spec == Init /\ [][Next]_vars

\* A node that keeps its power.
SpecPowered == Init /\ [][Step]_vars

-----------------------------------------------------------------------------
(* Properties.                                                             *)

TypeOK ==
    /\ eeprom \in [Slots -> [Offsets -> Byte]]
    /\ evhashtbl \in [Slots -> 0 .. 255]
    /\ hash_collision \in BOOLEAN
    /\ bLearn \in BOOLEAN

\* The hash table, changed one entry at a time by the handlers, is the one a
\* restart would make from the slots (updateEvHashEntry, clearEvHashTable
\* against makeEvHashTable): in particular a zero entry is a free slot.
HashMirror == evhashtbl = makeEvHashTable(eeprom)

\* The collision flag that lets findExistingEvent take its short way is exact.
CollisionExact == hash_collision = check_hash_collisions(evhashtbl)

\* The slots a reader of the memory would say store event e.
storing(e) == {i \in Slots : readEvent(eeprom, i) = e /\ e # unused_entry}

\* findExistingEvent finds an event if and only if some slot stores it, and
\* then returns a slot that does, whichever way it takes through the hashes.
LookupExact ==
    \A e \in Events :
        /\ storing(e) # {} => findExistingEvent(e) \in storing(e)
        /\ storing(e) = {} => findExistingEvent(e) = EE_MAX_EVENTS

\* No event has two slots, so that teaching and forgetting it reach the one
\* that accessory events find.
NoDuplicates ==
    \A i, j \in usedSlots : readEvent(eeprom, i) = readEvent(eeprom, j) => i = j

\* A frame, even one cut short by power loss, changes the bytes of one slot
\* only, or else (NNCLR) frees slots from the first one on: the events in all
\* other slots survive with their variables.
OthersSurvive ==
    [][\E s \in Slots :
          \A i \in Slots \ {s} :
              \/ eeprom'[i] = eeprom[i]
              \/ /\ i < s
                 /\ readEvent(eeprom', i) = unused_entry
                 /\ \A j \in 0 .. i : readEvent(eeprom', j) = unused_entry]_vars

\* Once EVULN is acknowledged the event it names is no longer stored ("unlearn
\* an event, by event number").
UnlearnForgets ==
    [][\A e \in Events :
          EVULN(e) /\ reply' = WRACK => e \notin {readEvent(eeprom', i) : i \in Slots}]_vars

\* The abstract store: the events in the used slots with their variables.
slotOf(e) == CHOOSE i \in usedSlots : readEvent(eeprom, i) = e

storeOf ==
    [e \in {readEvent(eeprom, i) : i \in usedSlots} |->
        [n \in 1 .. EE_NUM_EVS |-> eeprom[slotOf(e)][n + 3]]]

answerOf ==
    CASE reply.op = "none"  -> [kind |-> "none"]
      [] reply.op = "WRACK" -> [kind |-> "ack"]
      [] reply.op = "GRSP"  -> [kind |-> "refused"]
      [] reply.op = "NUMEV" -> [kind |-> "count", count |-> reply.count]
      [] reply.op = "EVNLF" -> [kind |-> "free", count |-> reply.count]
      [] reply.op = "ENRSP" -> [kind |-> "list", events |-> {x[2] : x \in reply.entries}]
      [] reply.op = "NEVAL" -> [kind |-> "value", value |-> reply.value]
      [] reply.op = "event" -> [kind |-> "event", event |-> reply.event,
                                on |-> reply.on, ev1 |-> reply.ev1]

Store == INSTANCE EventStore
    WITH Capacity <- EE_MAX_EVENTS, NumEVs <- EE_NUM_EVS, Value <- Byte,
         store <- storeOf, learning <- bLearn, request <- frame, answer <- answerOf

\* A powered node whose frames carry legal event-variable numbers implements
\* the event store: slots, hashes, collisions and slot reuse never show.
ImplementsStore == Store!Spec

=============================================================================
