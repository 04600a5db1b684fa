-------------------------- MODULE EventTableProofs --------------------------
(***************************************************************************)
(* Proofs about EventTable, for every number of slots and event variables, *)
(* every hash function and every set of events.                            *)
(***************************************************************************)
EXTENDS EventTable, LeastElement, FiniteSetTheorems, TLAPS

Memory == [Slots -> [Offsets -> Byte]]

-----------------------------------------------------------------------------
(* The operators the handlers are made of.                                 *)

\* A slot's first four bytes are an event.
LEMMA ReadEventType ==
    ASSUME NEW mem \in Memory, NEW i \in Slots
    PROVE  readEvent(mem, i) \in Event
<1>1. 0 .. EE_HASH_BYTES - 1 \subseteq Offsets
  BY SizeAssumption DEF Offsets, EE_BYTES_PER_EVENT, EE_HASH_BYTES
<1>2. mem[i] \in [Offsets -> Byte]
  BY DEF Memory
<1> QED
  BY <1>1, <1>2 DEF readEvent, Event

\* The erased pattern is an event as well.
LEMMA UnusedType == unused_entry \in Event
BY ByteAssumption DEF unused_entry, Event

\* A hash entry is a byte, and 0 exactly for a free slot.
LEMMA HashEntryType ==
    ASSUME NEW mem \in Memory, NEW i \in Slots
    PROVE  /\ hashEntry(mem, i) \in 0 .. 255
           /\ hashEntry(mem, i) = 0 <=> readEvent(mem, i) = unused_entry
<1>1. makeHash(readEvent(mem, i)) \in 1 .. 255
  BY ReadEventType, HashAssumption
<1> QED
  BY <1>1 DEF hashEntry

\* Writing some bytes of an event gives a memory that differs in that slot only.
LEMMA WriteBytesType ==
    ASSUME NEW mem \in Memory, NEW i \in Slots, NEW e \in Event,
           NEW n \in 0 .. EE_HASH_BYTES
    PROVE  /\ writeEventBytes(mem, i, e, n) \in Memory
           /\ \A j \in Slots \ {i} : writeEventBytes(mem, i, e, n)[j] = mem[j]
<1>1. ASSUME NEW k \in Offsets
      PROVE  (IF k < n THEN e[k] ELSE mem[i][k]) \in Byte
  BY <1>1, SizeAssumption DEF Memory, Event, Offsets, EE_BYTES_PER_EVENT, EE_HASH_BYTES
<1> QED
  BY <1>1 DEF writeEventBytes, Memory

\* After a whole write the slot reads back as the event.
LEMMA WriteEventReads ==
    ASSUME NEW mem \in Memory, NEW i \in Slots, NEW e \in Event
    PROVE  readEvent(writeEvent(mem, i, e), i) = e
<1>1. 0 .. EE_HASH_BYTES - 1 \subseteq Offsets
  BY SizeAssumption DEF Offsets, EE_BYTES_PER_EVENT, EE_HASH_BYTES
<1>2. writeEvent(mem, i, e)[i] = [k \in Offsets |-> IF k < EE_HASH_BYTES THEN e[k] ELSE mem[i][k]]
  BY DEF writeEvent, writeEventBytes, Memory
<1>3. \A k \in 0 .. EE_HASH_BYTES - 1 : writeEvent(mem, i, e)[i][k] = e[k]
  BY <1>1, <1>2 DEF EE_HASH_BYTES
<1> QED
  BY <1>3 DEF readEvent, Event

\* Every event-variable number, legal or not, addresses a byte of some slot or
\* nothing; a legal one addresses a byte of the slot itself.
LEMMA EVCellOffset ==
    ASSUME NEW i \in Slots, NEW n \in 0 .. 255
    PROVE  /\ EVCell(i, n).offset \in Offsets
           /\ n <= EE_NUM_EVS => EVCell(i, n).slot = i
<1>1. (n + 3) % EE_BYTES_PER_EVENT \in Offsets
  BY SizeAssumption DEF Offsets, EE_BYTES_PER_EVENT, EE_HASH_BYTES
<1> QED
  BY <1>1, SizeAssumption DEF EVCell, Offsets, EE_BYTES_PER_EVENT, EE_HASH_BYTES

\* Writing an event variable keeps the memory's type, and with a legal number
\* it changes no other slot.
LEMMA WriteEVType ==
    ASSUME NEW mem \in Memory, NEW i \in Slots, NEW n \in 0 .. 255, NEW v \in Byte
    PROVE  /\ writeEventEV(mem, i, n, v) \in Memory
           /\ n <= EE_NUM_EVS =>
                \A j \in Slots \ {i} : writeEventEV(mem, i, n, v)[j] = mem[j]
<1> DEFINE s == EVCell(i, n).slot
           o == EVCell(i, n).offset
<1>1. o \in Offsets /\ (n <= EE_NUM_EVS => s = i)
  BY EVCellOffset
<1>2. writeEventEV(mem, i, n, v) =
        IF s \in Slots THEN [mem EXCEPT ![s][o] = v] ELSE mem
  BY DEF writeEventEV
<1> HIDE DEF s, o
<1>3. CASE s \in Slots
  BY <1>1, <1>2, <1>3 DEF Memory
<1>4. CASE s \notin Slots
  BY <1>2, <1>4, <1>1
<1> QED
  BY <1>3, <1>4

\* What is left of learning an event, one that EVLRN has a slot for.
LEMMA LearntType ==
    ASSUME NEW e \in Event, NEW n \in 0 .. 255, NEW v \in Byte,
           eeprom \in Memory, learnSlot(e) \in Slots
    PROVE  /\ learnt(e, n, v) \in Memory
           /\ n <= EE_NUM_EVS =>
                \A j \in Slots \ {learnSlot(e)} : learnt(e, n, v)[j] = eeprom[j]
<1> DEFINE i == learnSlot(e)
           mem == IF n < 2 THEN writeEvent(eeprom, i, e) ELSE eeprom
<1>1. learnt(e, n, v) = writeEventEV(mem, i, n, v)
  BY DEF learnt
<1>2. mem \in Memory /\ \A j \in Slots \ {i} : mem[j] = eeprom[j]
  <2>1. 4 \in 0 .. EE_HASH_BYTES
    BY DEF EE_HASH_BYTES
  <2> QED
    BY <2>1, WriteBytesType DEF writeEvent, EE_HASH_BYTES
<1>3. i \in Slots
  OBVIOUS
<1> HIDE DEF mem, i
<1>4. /\ writeEventEV(mem, i, n, v) \in Memory
      /\ n <= EE_NUM_EVS =>
           \A j \in Slots \ {i} : writeEventEV(mem, i, n, v)[j] = mem[j]
  BY <1>2, <1>3, WriteEVType
<1> QED
  BY <1>1, <1>2, <1>4 DEF i

\* The slots NNCLR has cleared are erased, the others untouched.
LEMMA ClearedType ==
    ASSUME NEW n \in Nat, eeprom \in Memory
    PROVE  /\ cleared(n) \in Memory
           /\ \A i \in Slots : i < n => readEvent(cleared(n), i) = unused_entry
<1>1. ASSUME NEW i \in Slots
      PROVE  /\ writeEvent(eeprom, i, unused_entry) \in Memory
             /\ readEvent(writeEvent(eeprom, i, unused_entry), i) = unused_entry
  <2>1. 4 \in 0 .. EE_HASH_BYTES
    BY DEF EE_HASH_BYTES
  <2> QED
    BY <1>1, <2>1, WriteBytesType, WriteEventReads, UnusedType DEF writeEvent, EE_HASH_BYTES
<1>2. cleared(n) \in Memory
  BY <1>1 DEF cleared, Memory
<1>3. ASSUME NEW i \in Slots, i < n
      PROVE  readEvent(cleared(n), i) = unused_entry
  <2>1. cleared(n)[i] = writeEvent(eeprom, i, unused_entry)[i]
    BY <1>3 DEF cleared
  <2> QED
    BY <1>1, <2>1 DEF readEvent
<1> QED
  BY <1>2, <1>3

-----------------------------------------------------------------------------
(* The hash table mirrors the slots.                                       *)

\* Remaking one entry is enough when one slot has changed.
LEMMA UpdateKeepsMirror ==
    ASSUME NEW i \in Slots, eeprom \in Memory, eeprom' \in Memory, HashMirror,
           \A j \in Slots \ {i} : eeprom'[j] = eeprom[j],
           updateEvHashEntry(i)
    PROVE  HashMirror' /\ CollisionExact'
<1>1. evhashtbl' = [evhashtbl EXCEPT ![i] = hashEntry(eeprom', i)]
  BY DEF updateEvHashEntry
<1>2. \A j \in Slots \ {i} : hashEntry(eeprom', j) = hashEntry(eeprom, j)
  BY DEF hashEntry, readEvent
<1>3. evhashtbl' = [j \in Slots |-> hashEntry(eeprom', j)]
  BY <1>1, <1>2 DEF HashMirror, makeEvHashTable
<1> QED
  BY <1>3 DEF updateEvHashEntry, HashMirror, CollisionExact, makeEvHashTable,
              check_hash_collisions

\* A table made from the slots has byte entries.
LEMMA MirrorType ==
    ASSUME eeprom \in Memory, HashMirror, CollisionExact
    PROVE  evhashtbl \in [Slots -> 0 .. 255] /\ hash_collision \in BOOLEAN
BY HashEntryType DEF HashMirror, CollisionExact, makeEvHashTable, check_hash_collisions

\* A restart remakes the table from whatever the slots hold.
LEMMA RestartMirror ==
    ASSUME NEW mem \in Memory, Restart(mem)
    PROVE  eeprom' \in Memory /\ HashMirror' /\ CollisionExact' /\ bLearn' \in BOOLEAN
BY DEF Restart, HashMirror, CollisionExact, makeEvHashTable, check_hash_collisions

\* The inductive invariant: the slots have their type and the RAM mirrors them.
IInv == eeprom \in Memory /\ bLearn \in BOOLEAN /\ HashMirror /\ CollisionExact

\* A factory-new node, all slots erased, satisfies it.
LEMMA InitIInv == Init => IInv
<1> SUFFICES ASSUME Init PROVE IInv
  OBVIOUS
<1>1. eeprom \in Memory
  BY ByteAssumption DEF Init, Memory
<1> QED
  BY <1>1 DEF Init, IInv, HashMirror, CollisionExact

\* Legal event-variable numbers keep the mirror: one above EE_NUM_EVS writes
\* into a slot whose hash entry is not remade.
LegalEVs == EVIndices \subseteq 0 .. EE_NUM_EVS

\* Every frame and every power loss keeps the invariant.
LEMMA NextIInv ==
    ASSUME LegalEVs, IInv, [Next]_vars
    PROVE  IInv'
<1> USE DEF IInv
<1>1. ASSUME UNCHANGED <<table, bLearn>>
      PROVE  IInv'
  BY <1>1 DEF table, HashMirror, CollisionExact, makeEvHashTable, check_hash_collisions,
              hashEntry, readEvent
<1>2. ASSUME UNCHANGED table, bLearn' \in BOOLEAN
      PROVE  IInv'
  BY <1>2 DEF table, HashMirror, CollisionExact, makeEvHashTable, check_hash_collisions,
              hashEntry, readEvent
<1>3. CASE NNLRN \/ NNULN
  BY <1>2, <1>3 DEF NNLRN, NNULN, setLearn
<1>4. ASSUME NEW e \in Events, NEW n \in EVIndices, NEW v \in EVValues, EVLRN(e, n, v)
      PROVE  IInv'
  <2>1. e \in Event /\ n \in 0 .. 255 /\ n <= EE_NUM_EVS /\ v \in Byte
    BY FrameAssumption, SizeAssumption DEF LegalEVs
  <2>2. CASE learnSlot(e) \in Slots /\ eeprom' = learnt(e, n, v) /\ updateEvHashEntry(learnSlot(e))
    <3>1. eeprom' \in Memory /\ \A j \in Slots \ {learnSlot(e)} : eeprom'[j] = eeprom[j]
      BY <2>1, <2>2, LearntType
    <3>2. HashMirror' /\ CollisionExact'
      BY <2>2, <3>1, UpdateKeepsMirror
    <3> QED
      BY <1>4, <3>1, <3>2 DEF EVLRN
  <2> QED
    BY <1>1, <1>4, <2>2 DEF EVLRN
<1>5. ASSUME NEW e \in Events, EVULN(e)
      PROVE  IInv'
  <2>1. unlearnSlot \in Slots
    BY SizeAssumption DEF unlearnSlot, Slots
  <2>2. CASE /\ eeprom' = writeEvent(eeprom, unlearnSlot, unused_entry)
             /\ updateEvHashEntry(unlearnSlot)
    <3>1. 4 \in 0 .. EE_HASH_BYTES
      BY DEF EE_HASH_BYTES
    <3>2. eeprom' \in Memory /\ \A j \in Slots \ {unlearnSlot} : eeprom'[j] = eeprom[j]
      BY <2>1, <2>2, <3>1, WriteBytesType, UnusedType DEF writeEvent, EE_HASH_BYTES
    <3>3. HashMirror' /\ CollisionExact'
      BY <2>1, <2>2, <3>2, UpdateKeepsMirror
    <3> QED
      BY <1>5, <3>2, <3>3 DEF EVULN
  <2> QED
    BY <1>1, <1>5, <2>2 DEF EVULN
<1>6. CASE NNCLR
  <2>1. EE_MAX_EVENTS \in Nat /\ \A i \in Slots : i < EE_MAX_EVENTS
    BY SizeAssumption DEF Slots
  <2>2. eeprom' \in Memory /\ \A i \in Slots : readEvent(eeprom', i) = unused_entry
    BY <1>6, <2>1, ClearedType DEF NNCLR
  <2>3. HashMirror'
    BY <1>6, <2>2 DEF NNCLR, clearEvHashTable, HashMirror, makeEvHashTable, hashEntry
  <2>4. CollisionExact'
    BY <1>6 DEF NNCLR, clearEvHashTable, CollisionExact, check_hash_collisions
  <2> QED
    BY <1>6, <2>2, <2>3, <2>4 DEF NNCLR
<1>7. CASE RQEVN \/ NNEVN \/ NERD
  BY <1>1, <1>7 DEF RQEVN, NNEVN, NERD, Answer
<1>8. ASSUME NEW i \in 0 .. EE_MAX_EVENTS, NEW n \in EVIndices, REVAL(i, n)
      PROVE  IInv'
  BY <1>1, <1>8 DEF REVAL, Answer
<1>9. ASSUME NEW e \in Events, NEW opc, Accessory(opc, e)
      PROVE  IInv'
  BY <1>1, <1>9 DEF Accessory, processAccessoryEvent, Answer
<1>10. CASE PowerLoss
  <2>1. ASSUME NEW mem \in Memory, Restart(mem)
        PROVE  IInv'
    BY <2>1, RestartMirror
  <2>2. CASE PowerLossIdle
    BY <2>1, <2>2 DEF PowerLossIdle
  <2>3. ASSUME NEW e \in Events, NEW n \in 1 .. EE_HASH_BYTES, PowerLossLearning(e, n)
        PROVE  IInv'
    <3>1. e \in Event /\ n \in 0 .. EE_HASH_BYTES
      BY FrameAssumption DEF EE_HASH_BYTES
    <3>2. writeEventBytes(eeprom, learnSlot(e), e, n) \in Memory
      BY <2>3, <3>1, WriteBytesType DEF PowerLossLearning
    <3> QED
      BY <2>1, <2>3, <3>2 DEF PowerLossLearning
  <2>4. ASSUME NEW e \in Events, NEW n \in 1 .. EE_HASH_BYTES, PowerLossUnlearning(e, n)
        PROVE  IInv'
    <3>1. unlearnSlot \in Slots /\ n \in 0 .. EE_HASH_BYTES
      BY SizeAssumption DEF unlearnSlot, Slots, EE_HASH_BYTES
    <3>2. writeEventBytes(eeprom, unlearnSlot, unused_entry, n) \in Memory
      BY <3>1, WriteBytesType, UnusedType
    <3> QED
      BY <2>1, <2>4, <3>2 DEF PowerLossUnlearning
  <2>5. ASSUME NEW s \in Slots, NEW n \in 1 .. EE_HASH_BYTES, PowerLossClearing(s, n)
        PROVE  IInv'
    <3>1. s \in Nat /\ n \in 0 .. EE_HASH_BYTES
      BY SizeAssumption DEF Slots, EE_HASH_BYTES
    <3>2. cleared(s) \in Memory /\ writeEventBytes(eeprom, s, unused_entry, n) \in Memory
      BY <3>1, ClearedType, WriteBytesType, UnusedType
    <3>3. [cleared(s) EXCEPT ![s] = writeEventBytes(eeprom, s, unused_entry, n)[s]] \in Memory
      BY <3>2 DEF Memory
    <3> QED
      BY <2>1, <2>5, <3>3 DEF PowerLossClearing
  <2> QED
    BY <1>10, <2>2, <2>3, <2>4, <2>5 DEF PowerLoss
<1>11. CASE UNCHANGED vars
  BY <1>1, <1>11 DEF vars, table
<1> QED
  BY <1>3, <1>4, <1>5, <1>6, <1>7, <1>8, <1>9, <1>10, <1>11 DEF Next, Step

-----------------------------------------------------------------------------
(* Finding an event.                                                       *)

\* A scan that something ends returns a slot of the set it looks for.
LEMMA FirstOfMember ==
    ASSUME NEW S, S \subseteq Slots, S # {}
    PROVE  firstOf(S) \in S
<1>1. S \subseteq Nat
  BY SizeAssumption DEF Slots
<1>2. \E x \in S : \A y \in S : x <= y
  BY <1>1, LeastNat
<1> QED
  BY <1>2 DEF firstOf, Min

\* With the mirror, findExistingEvent finds exactly the stored events.
LEMMA FindExact ==
    ASSUME IInv, NEW e \in Event
    PROVE  /\ storing(e) # {} => findExistingEvent(e) \in storing(e)
           /\ storing(e) = {} => findExistingEvent(e) = EE_MAX_EVENTS
<1> DEFINE hits == {i \in Slots : evhashtbl[i] = makeHash(e)}
           confirmed == {i \in hits : readEvent(eeprom, i) = e}
           collided == hash_collision /\ \E i, j \in hits : i # j
<1>1. findExistingEvent(e) = IF collided \/ firstOf(hits) \in confirmed
                             THEN firstOf(confirmed) ELSE EE_MAX_EVENTS
  BY DEF findExistingEvent
<1>2. makeHash(e) # 0
  BY HashAssumption
<1>3. \A i \in Slots : /\ evhashtbl[i] = hashEntry(eeprom, i)
                       /\ hashEntry(eeprom, i) = 0 <=> readEvent(eeprom, i) = unused_entry
  BY HashEntryType DEF IInv, HashMirror, makeEvHashTable
<1>4. confirmed = storing(e)
  <2>1. ASSUME NEW i \in Slots, readEvent(eeprom, i) = e
        PROVE  evhashtbl[i] = makeHash(e) <=> e # unused_entry
    BY <1>2, <1>3, <2>1 DEF hashEntry
  <2> QED
    BY <2>1 DEF storing
<1>5. (\E i, j \in hits : i # j) => collided
  BY <1>2 DEF IInv, CollisionExact, check_hash_collisions
<1>6. hits \subseteq Slots /\ confirmed \subseteq hits
  OBVIOUS
<1>7. firstOf({}) = EE_MAX_EVENTS
  BY DEF firstOf
<1> HIDE DEF hits, confirmed, collided
<1>8. CASE storing(e) = {}
  BY <1>1, <1>4, <1>7, <1>8
<1>9. CASE storing(e) # {}
  <2>1. firstOf(confirmed) \in storing(e)
    BY <1>4, <1>6, <1>9, FirstOfMember
  <2>2. firstOf(hits) \in hits
    BY <1>4, <1>6, <1>9, FirstOfMember
  <2>3. ~collided => firstOf(hits) \in confirmed
    BY <1>4, <1>5, <1>6, <1>9, <2>2
  <2> QED
    BY <1>1, <1>9, <2>1, <2>3
<1> QED
  BY <1>8, <1>9

-----------------------------------------------------------------------------
(* The theorems.                                                           *)

\* What all else rests on: slots of bytes, mirrored by the RAM, for ever.
THEOREM Inductive ==
    ASSUME LegalEVs PROVE Spec => []IInv
<1>1. Init => IInv
  BY InitIInv
<1>2. IInv /\ [Next]_vars => IInv'
  BY NextIInv
<1> QED
  BY <1>1, <1>2, PTL DEF Spec

\* Every variable keeps its type, through every frame and every power loss.
THEOREM TypeCorrect ==
    ASSUME LegalEVs PROVE Spec => []TypeOK
<1>1. IInv => TypeOK
  BY MirrorType DEF IInv, TypeOK, Memory
<1> QED
  BY <1>1, Inductive, PTL

\* The hash table in RAM always agrees with the slots, however frames and power
\* losses interleave.
THEOREM MirrorHolds ==
    ASSUME LegalEVs PROVE Spec => []HashMirror
<1>1. IInv => HashMirror
  BY DEF IInv
<1> QED
  BY <1>1, Inductive, PTL

\* And so does the collision flag: no lookup takes the short way where it must not.
THEOREM CollisionFlagExact ==
    ASSUME LegalEVs PROVE Spec => []CollisionExact
<1>1. IInv => CollisionExact
  BY DEF IInv
<1> QED
  BY <1>1, Inductive, PTL

\* findExistingEvent finds an event if and only if it is stored, for every hash
\* function, however many hashes collide.
THEOREM LookupCorrect ==
    ASSUME LegalEVs PROVE Spec => []LookupExact
<1>1. IInv => LookupExact
  BY FindExact, FrameAssumption DEF LookupExact
<1> QED
  BY <1>1, Inductive, PTL

-----------------------------------------------------------------------------
(* No event is stored twice by a node that keeps its power.                *)

\* EV 0, whose cell is the last byte of the event, could make two slots equal.
NoEVZero == EVIndices \subseteq 1 .. EE_NUM_EVS

\* NoDuplicates said of the slots.
Distinct(mem) ==
    \A i, j \in Slots :
        readEvent(mem, i) = readEvent(mem, j) /\ readEvent(mem, i) # unused_entry => i = j

\* With the mirror, distinct used slots are what NoDuplicates asks for.
LEMMA DistinctIsNoDuplicates ==
    ASSUME IInv PROVE Distinct(eeprom) <=> NoDuplicates
<1>1. \A i \in Slots : i \in usedSlots <=> readEvent(eeprom, i) # unused_entry
  BY HashEntryType DEF IInv, HashMirror, makeEvHashTable, usedSlots
<1> QED
  BY <1>1 DEF Distinct, NoDuplicates, usedSlots

\* EVLRN leaves its slot with the event it had or the event it teaches.
LEMMA LearntEvent ==
    ASSUME NEW e \in Event, NEW n \in 1 .. EE_NUM_EVS, NEW v \in Byte,
           eeprom \in Memory, learnSlot(e) \in Slots
    PROVE  readEvent(learnt(e, n, v), learnSlot(e)) \in {e, readEvent(eeprom, learnSlot(e))}
<1> DEFINE i == learnSlot(e)
           mem == IF n < 2 THEN writeEvent(eeprom, i, e) ELSE eeprom
<1>1. learnt(e, n, v) = writeEventEV(mem, i, n, v)
  BY DEF learnt
<1>2. mem \in Memory /\ readEvent(mem, i) \in {e, readEvent(eeprom, i)}
  <2>1. 4 \in 0 .. EE_HASH_BYTES
    BY DEF EE_HASH_BYTES
  <2> QED
    BY <2>1, WriteBytesType, WriteEventReads DEF writeEvent, EE_HASH_BYTES
<1>3. i \in Slots /\ EVCell(i, n) = [slot |-> i, offset |-> n + 3]
  BY SizeAssumption DEF EVCell
<1> HIDE DEF mem, i
<1>4. writeEventEV(mem, i, n, v) = [mem EXCEPT ![i][n + 3] = v]
  BY <1>3 DEF writeEventEV
<1>5. \A k \in 0 .. EE_HASH_BYTES - 1 : writeEventEV(mem, i, n, v)[i][k] = mem[i][k]
  <2>1. \A k \in 0 .. EE_HASH_BYTES - 1 : k \in Offsets /\ k # n + 3
    BY SizeAssumption DEF Offsets, EE_BYTES_PER_EVENT, EE_HASH_BYTES
  <2> QED
    BY <1>2, <1>3, <1>4, <2>1 DEF Memory
<1>6. readEvent(writeEventEV(mem, i, n, v), i) = readEvent(mem, i)
  BY <1>5 DEF readEvent
<1> QED
  BY <1>1, <1>2, <1>6 DEF i

\* No frame makes two used slots equal.
LEMMA StepDistinct ==
    ASSUME NoEVZero, IInv, Distinct(eeprom), [Step]_vars
    PROVE  Distinct(eeprom')
<1>1. CASE UNCHANGED eeprom
  BY <1>1
<1>2. ASSUME NEW i \in Slots, \A j \in Slots \ {i} : eeprom'[j] = eeprom[j],
             readEvent(eeprom', i) \in {unused_entry, readEvent(eeprom, i)}
      PROVE  Distinct(eeprom')
  <2>1. \A j \in Slots \ {i} : readEvent(eeprom', j) = readEvent(eeprom, j)
    BY <1>2 DEF readEvent
  <2> QED
    BY <1>2, <2>1 DEF Distinct
<1>3. ASSUME NEW e \in Events, NEW n \in EVIndices, NEW v \in EVValues, EVLRN(e, n, v)
      PROVE  Distinct(eeprom')
  <2> DEFINE i == learnSlot(e)
  <2>1. /\ e \in Event /\ n \in 1 .. EE_NUM_EVS /\ n \in 0 .. 255 /\ n <= EE_NUM_EVS
        /\ v \in Byte /\ eeprom \in Memory
    BY FrameAssumption, SizeAssumption DEF NoEVZero, IInv
  <2>2. CASE i \notin Slots
    BY <1>1, <1>3, <2>2 DEF EVLRN, table
  <2>3. CASE i \in Slots
    <3>1. eeprom' = learnt(e, n, v)
      BY <1>3, <2>3 DEF EVLRN
    <3>2. /\ \A j \in Slots \ {i} : eeprom'[j] = eeprom[j]
          /\ readEvent(eeprom', i) \in {e, readEvent(eeprom, i)}
      BY <2>1, <2>3, <3>1, LearntType, LearntEvent
    <3>3. CASE storing(e) # {}
      <4>1. readEvent(eeprom, i) = e
        BY <2>1, <3>3, FindExact DEF learnSlot, storing
      <4> QED
        BY <1>2, <2>3, <3>2, <4>1
    <3>4. CASE storing(e) = {}
      <4>1. \A j \in Slots : readEvent(eeprom, j) = e => e = unused_entry
        BY <3>4 DEF storing
      <4>2. \A j \in Slots \ {i} : readEvent(eeprom', j) = readEvent(eeprom, j)
        BY <3>2 DEF readEvent
      <4>3. CASE readEvent(eeprom', i) = e
        BY <4>1, <4>2, <4>3 DEF Distinct
      <4>4. CASE readEvent(eeprom', i) = readEvent(eeprom, i)
        BY <1>2, <2>3, <3>2, <4>4
      <4> QED
        BY <3>2, <4>3, <4>4
    <3> QED
      BY <3>3, <3>4
  <2> QED
    BY <2>2, <2>3
<1>4. ASSUME NEW e \in Events, EVULN(e)
      PROVE  Distinct(eeprom')
  <2>1. unlearnSlot \in Slots /\ 4 \in 0 .. EE_HASH_BYTES /\ eeprom \in Memory
    BY SizeAssumption DEF unlearnSlot, Slots, EE_HASH_BYTES, IInv
  <2>2. CASE eeprom' = writeEvent(eeprom, unlearnSlot, unused_entry)
    <3>1. /\ \A j \in Slots \ {unlearnSlot} : eeprom'[j] = eeprom[j]
          /\ readEvent(eeprom', unlearnSlot) = unused_entry
      BY <2>1, <2>2, WriteBytesType, WriteEventReads, UnusedType DEF writeEvent, EE_HASH_BYTES
    <3> QED
      BY <1>2, <2>1, <3>1
  <2> QED
    BY <1>1, <1>4, <2>2 DEF EVULN, table
<1>5. CASE NNCLR
  <2>1. EE_MAX_EVENTS \in Nat /\ \A i \in Slots : i < EE_MAX_EVENTS
    BY SizeAssumption DEF Slots
  <2>2. \A i \in Slots : readEvent(eeprom', i) = unused_entry
    BY <1>5, <2>1, ClearedType DEF NNCLR, IInv
  <2> QED
    BY <2>2 DEF Distinct
<1>6. CASE NNLRN \/ NNULN \/ RQEVN \/ NNEVN \/ NERD
  BY <1>1, <1>6 DEF NNLRN, NNULN, setLearn, RQEVN, NNEVN, NERD, Answer, table
<1>7. ASSUME NEW i \in 0 .. EE_MAX_EVENTS, NEW n \in EVIndices, REVAL(i, n)
      PROVE  Distinct(eeprom')
  BY <1>1, <1>7 DEF REVAL, Answer, table
<1>8. ASSUME NEW e \in Events, NEW opc, Accessory(opc, e)
      PROVE  Distinct(eeprom')
  BY <1>1, <1>8 DEF Accessory, processAccessoryEvent, Answer, table
<1>9. CASE UNCHANGED vars
  BY <1>1, <1>9 DEF vars
<1> QED
  BY <1>3, <1>4, <1>5, <1>6, <1>7, <1>8, <1>9 DEF Step

\* While a node keeps its power and frames carry EV numbers 1..EE_NUM_EVS, no
\* event ever occupies two slots: EVLRN looks before it takes a free slot, and
\* its lookup is exact.
THEOREM NoDuplicatesHolds ==
    ASSUME NoEVZero PROVE SpecPowered => []NoDuplicates
<1>1. Init => IInv /\ Distinct(eeprom)
  <2> SUFFICES ASSUME Init PROVE IInv /\ Distinct(eeprom)
    OBVIOUS
  <2>1. \A i \in Slots : readEvent(eeprom, i) = unused_entry
    <3>1. 0 .. EE_HASH_BYTES - 1 \subseteq Offsets
      BY SizeAssumption DEF Offsets, EE_BYTES_PER_EVENT, EE_HASH_BYTES
    <3> QED
      BY <3>1 DEF Init, readEvent, unused_entry
  <2> QED
    BY <2>1, InitIInv DEF Distinct
<1>2. IInv /\ Distinct(eeprom) /\ [Step]_vars => (IInv /\ Distinct(eeprom))'
  <2> SUFFICES ASSUME IInv, Distinct(eeprom), [Step]_vars PROVE IInv' /\ Distinct(eeprom')
    BY DEF Distinct
  <2>1. LegalEVs /\ [Next]_vars
    BY NoEVZero DEF NoEVZero, LegalEVs, Next
  <2> QED
    BY <2>1, NextIInv, StepDistinct
<1>3. IInv /\ Distinct(eeprom) => NoDuplicates
  BY DistinctIsNoDuplicates
<1> QED
  BY <1>1, <1>2, <1>3, PTL DEF SpecPowered

-----------------------------------------------------------------------------
(* What a frame, cut short or not, may do to the slots.                     *)

\* OthersSurvive said of one step, with the slot that bears the change.
SparesOthers(s) ==
    \A i \in Slots \ {s} :
        \/ eeprom'[i] = eeprom[i]
        \/ /\ i < s
           /\ readEvent(eeprom', i) = unused_entry
           /\ \A j \in 0 .. i : readEvent(eeprom', j) = unused_entry

\* Every step, a loss of power included, leaves all slots but one as they are or freed.
LEMMA StepSpares ==
    ASSUME LegalEVs, IInv, Next
    PROVE  \E s \in Slots : SparesOthers(s)
<1>1. /\ 0 \in Slots /\ EE_MAX_EVENTS - 1 \in Slots /\ eeprom \in Memory
      /\ 4 \in 0 .. EE_HASH_BYTES /\ unlearnSlot \in Slots
  BY SizeAssumption DEF Slots, IInv, EE_HASH_BYTES, unlearnSlot
<1>2. ASSUME NEW s \in Slots, \A i \in Slots \ {s} : eeprom'[i] = eeprom[i]
      PROVE  \E t \in Slots : SparesOthers(t)
  BY <1>2 DEF SparesOthers
<1>3. CASE UNCHANGED eeprom
  BY <1>1, <1>2, <1>3
<1>4. ASSUME NEW e \in Events, NEW n \in EVIndices, NEW v \in EVValues, EVLRN(e, n, v)
      PROVE  \E s \in Slots : SparesOthers(s)
  <2>1. e \in Event /\ n \in 0 .. 255 /\ n <= EE_NUM_EVS /\ v \in Byte
    BY FrameAssumption, SizeAssumption DEF LegalEVs
  <2>2. CASE learnSlot(e) \in Slots
    <3>1. eeprom' = learnt(e, n, v)
      BY <1>4, <2>2 DEF EVLRN
    <3> QED
      BY <1>1, <1>2, <2>1, <2>2, <3>1, LearntType
  <2> QED
    BY <1>3, <1>4, <2>2 DEF EVLRN, table
<1>5. ASSUME NEW e \in Events, EVULN(e)
      PROVE  \E s \in Slots : SparesOthers(s)
  <2>1. CASE eeprom' = writeEvent(eeprom, unlearnSlot, unused_entry)
    <3>1. \A j \in Slots \ {unlearnSlot} : eeprom'[j] = eeprom[j]
      BY <1>1, <2>1, WriteBytesType, UnusedType DEF writeEvent, EE_HASH_BYTES
    <3> QED
      BY <1>1, <1>2, <3>1
  <2> QED
    BY <1>3, <1>5, <2>1 DEF EVULN, table
<1>6. CASE NNCLR
  <2>1. EE_MAX_EVENTS \in Nat /\ \A i \in Slots : i < EE_MAX_EVENTS /\ 0 .. i \subseteq Slots
    BY SizeAssumption DEF Slots
  <2>2. \A i \in Slots : readEvent(eeprom', i) = unused_entry
    BY <1>1, <1>6, <2>1, ClearedType DEF NNCLR
  <2>3. \A i \in Slots \ {EE_MAX_EVENTS - 1} : i < EE_MAX_EVENTS - 1
    BY SizeAssumption DEF Slots
  <2> QED
    BY <1>1, <2>1, <2>2, <2>3 DEF SparesOthers
<1>7. CASE NNLRN \/ NNULN \/ RQEVN \/ NNEVN \/ NERD
  BY <1>3, <1>7 DEF NNLRN, NNULN, setLearn, RQEVN, NNEVN, NERD, Answer, table
<1>8. ASSUME NEW i \in 0 .. EE_MAX_EVENTS, NEW n \in EVIndices, REVAL(i, n)
      PROVE  \E s \in Slots : SparesOthers(s)
  BY <1>3, <1>8 DEF REVAL, Answer, table
<1>9. ASSUME NEW e \in Events, NEW opc, Accessory(opc, e)
      PROVE  \E s \in Slots : SparesOthers(s)
  BY <1>3, <1>9 DEF Accessory, processAccessoryEvent, Answer, table
<1>10. CASE PowerLoss
  <2>1. CASE PowerLossIdle
    BY <1>3, <2>1 DEF PowerLossIdle, Restart
  <2>2. ASSUME NEW e \in Events, NEW n \in 1 .. EE_HASH_BYTES,
               PowerLossLearning(e, n) \/ PowerLossUnlearning(e, n)
        PROVE  \E s \in Slots : SparesOthers(s)
    <3>1. e \in Event /\ n \in 0 .. EE_HASH_BYTES
      BY FrameAssumption DEF EE_HASH_BYTES
    <3>2. CASE PowerLossLearning(e, n)
      <4>1. /\ learnSlot(e) \in Slots
            /\ eeprom' = writeEventBytes(eeprom, learnSlot(e), e, n)
        BY <3>2 DEF PowerLossLearning, Restart
      <4>2. \A j \in Slots \ {learnSlot(e)} : eeprom'[j] = eeprom[j]
        BY <1>1, <3>1, <4>1, WriteBytesType
      <4> QED
        BY <1>2, <4>1, <4>2
    <3>3. CASE PowerLossUnlearning(e, n)
      <4>1. eeprom' = writeEventBytes(eeprom, unlearnSlot, unused_entry, n)
        BY <3>3 DEF PowerLossUnlearning, Restart
      <4>2. \A j \in Slots \ {unlearnSlot} : eeprom'[j] = eeprom[j]
        BY <1>1, <3>1, <4>1, WriteBytesType, UnusedType
      <4> QED
        BY <1>1, <1>2, <4>2
    <3> QED
      BY <2>2, <3>2, <3>3
  <2>3. ASSUME NEW s \in Slots, NEW n \in 1 .. EE_HASH_BYTES, PowerLossClearing(s, n)
        PROVE  \E t \in Slots : SparesOthers(t)
    <3> DEFINE clear == cleared(s)
    <3>1. /\ s \in Nat /\ \A i \in Slots : i \in Nat /\ 0 .. i \subseteq Slots
          /\ \A i \in Slots : \A j \in 0 .. i : i < s => j < s /\ j # s
      BY SizeAssumption DEF Slots
    <3>2. /\ clear \in Memory
          /\ \A i \in Slots : i < s => readEvent(clear, i) = unused_entry
      BY <1>1, <3>1, ClearedType
    <3>3. \A i \in Slots : ~(i < s) => clear[i] = eeprom[i]
      BY DEF cleared
    <3>4. \A i \in Slots \ {s} : eeprom'[i] = clear[i]
      BY <2>3, <3>2 DEF PowerLossClearing, Restart, Memory
    <3> HIDE DEF clear
    <3>5. \A i \in Slots \ {s} : readEvent(eeprom', i) = readEvent(clear, i)
      BY <3>4 DEF readEvent
    <3> QED
      BY <3>1, <3>2, <3>3, <3>4, <3>5 DEF SparesOthers
  <2> QED
    BY <1>10, <2>1, <2>2, <2>3 DEF PowerLoss
<1> QED
  BY <1>4, <1>5, <1>6, <1>7, <1>8, <1>9, <1>10 DEF Next, Step

\* A frame, even one cut short by a loss of power, changes the bytes of one slot
\* only, or frees slots from the first one on (NNCLR).
THEOREM OthersSurviveHolds ==
    ASSUME LegalEVs PROVE Spec => OthersSurvive
<1>1. IInv /\ [Next]_vars =>
        [\E s \in Slots :
            \A i \in Slots \ {s} :
              \/ eeprom'[i] = eeprom[i]
              \/ /\ i < s
                 /\ readEvent(eeprom', i) = unused_entry
                 /\ \A j \in 0 .. i : readEvent(eeprom', j) = unused_entry]_vars
  BY StepSpares DEF SparesOthers
<1> QED
  BY <1>1, Inductive, PTL DEF Spec, OthersSurvive

-----------------------------------------------------------------------------
(* The event store behind the slots.                                        *)

\* The used slots of a memory, the variables of a slot, and the store it all is.
usedIn(mem) == {i \in Slots : readEvent(mem, i) # unused_entry}
evsOf(mem, i) == [n \in 1 .. EE_NUM_EVS |-> mem[i][n + 3]]
eventsIn(mem) == {readEvent(mem, i) : i \in usedIn(mem)}
storeIn(mem) ==
    [e \in eventsIn(mem) |->
        evsOf(mem, CHOOSE i \in usedIn(mem) : readEvent(mem, i) = e)]

\* With the mirror the abstract store is that of the slots.
LEMMA StoreOfSlots ==
    ASSUME IInv
    PROVE  usedSlots = usedIn(eeprom) /\ storeOf = storeIn(eeprom)
<1>1. usedSlots = usedIn(eeprom)
  BY HashEntryType DEF IInv, HashMirror, makeEvHashTable, usedSlots, usedIn
<1> QED
  BY <1>1 DEF storeOf, storeIn, slotOf, evsOf, eventsIn

\* The events of the store are read off the new slots as off the old.
LEMMA StoreOfSlotsNext ==
    ASSUME IInv'
    PROVE  usedSlots' = usedIn(eeprom') /\ storeOf' = storeIn(eeprom')
<1>1. usedSlots' = usedIn(eeprom')
  BY HashEntryType DEF IInv, HashMirror, makeEvHashTable, usedSlots, usedIn
<1> QED
  BY <1>1 DEF storeOf, storeIn, slotOf, evsOf, eventsIn

\* Without duplicates the store has, for each used slot, its event and variables,
\* and nothing else.
LEMMA StoreValue ==
    ASSUME NEW mem, Distinct(mem)
    PROVE  /\ DOMAIN storeIn(mem) = eventsIn(mem)
           /\ \A i \in usedIn(mem) : /\ readEvent(mem, i) \in eventsIn(mem)
                                     /\ storeIn(mem)[readEvent(mem, i)] = evsOf(mem, i)
<1>1. ASSUME NEW i \in usedIn(mem)
      PROVE  (CHOOSE j \in usedIn(mem) : readEvent(mem, j) = readEvent(mem, i)) = i
  <2>1. \A j \in usedIn(mem) : readEvent(mem, j) = readEvent(mem, i) => j = i
    BY DEF Distinct, usedIn
  <2> QED
    BY <2>1
<1> QED
  BY <1>1 DEF storeIn, eventsIn

\* The same, for a store that is told by its value at each used slot.
LEMMA StoreIs ==
    ASSUME NEW mem, Distinct(mem), NEW s, s = [e \in DOMAIN s |-> s[e]],
           DOMAIN s = eventsIn(mem),
           \A i \in usedIn(mem) : s[readEvent(mem, i)] = evsOf(mem, i)
    PROVE  storeIn(mem) = s
<1>1. ASSUME NEW e \in eventsIn(mem)
      PROVE  storeIn(mem)[e] = s[e]
  <2>1. PICK i \in usedIn(mem) : e = readEvent(mem, i)
    BY DEF eventsIn
  <2> QED
    BY <2>1, StoreValue
<1> QED
  BY <1>1 DEF storeIn

\* The type of what is stored, and the number of events.
LEMMA StoreType ==
    ASSUME NEW mem \in Memory
    PROVE  \A i \in Slots : /\ evsOf(mem, i) \in [1 .. EE_NUM_EVS -> Byte]
                            /\ readEvent(mem, i) \in Event
<1>1. \A n \in 1 .. EE_NUM_EVS : n + 3 \in Offsets
  BY SizeAssumption DEF Offsets, EE_BYTES_PER_EVENT, EE_HASH_BYTES
<1>2. ASSUME NEW i \in Slots PROVE evsOf(mem, i) \in [1 .. EE_NUM_EVS -> Byte]
  BY <1>1 DEF evsOf, Memory
<1> QED
  BY <1>2, ReadEventType

\* With no event in two slots, there are as many events as used slots.
LEMMA StoreSize ==
    ASSUME NEW mem, Distinct(mem)
    PROVE  /\ IsFiniteSet(Slots) /\ Cardinality(Slots) = EE_MAX_EVENTS
           /\ IsFiniteSet(usedIn(mem)) /\ Cardinality(usedIn(mem)) \in Nat
           /\ Cardinality(eventsIn(mem)) = Cardinality(usedIn(mem))
           /\ Cardinality(Slots \ usedIn(mem)) = EE_MAX_EVENTS - Cardinality(usedIn(mem))
           /\ Cardinality(eventsIn(mem)) = EE_MAX_EVENTS <=> usedIn(mem) = Slots
<1>1. IsFiniteSet(Slots) /\ Cardinality(Slots) = EE_MAX_EVENTS
  <2>1. EE_MAX_EVENTS \in Int /\ EE_MAX_EVENTS > 0 /\ EE_MAX_EVENTS - 1 \in Int /\ 0 \in Int
    BY SizeAssumption
  <2>2. /\ IsFiniteSet(0 .. EE_MAX_EVENTS - 1)
        /\ Cardinality(0 .. EE_MAX_EVENTS - 1) =
             IF 0 > EE_MAX_EVENTS - 1 THEN 0 ELSE EE_MAX_EVENTS - 1 - 0 + 1
    BY <2>1, FS_Interval
  <2> QED
    BY <2>1, <2>2 DEF Slots
<1>2. usedIn(mem) \in SUBSET Slots
  BY DEF usedIn
<1>3. /\ IsFiniteSet(usedIn(mem)) /\ Cardinality(usedIn(mem)) \in Nat
      /\ (Cardinality(usedIn(mem)) = EE_MAX_EVENTS <=> usedIn(mem) = Slots)
  BY <1>1, <1>2, FS_Subset, FS_CardinalityType
<1>4. Cardinality(eventsIn(mem)) = Cardinality(usedIn(mem))
  <2> DEFINE read == [i \in usedIn(mem) |-> readEvent(mem, i)]
  <2>1. read \in Bijection(usedIn(mem), eventsIn(mem))
    BY DEF Bijection, Injection, Surjection, IsInjective, eventsIn, Distinct, usedIn
  <2> QED
    BY <1>3, <2>1, FS_Bijection DEF ExistsBijection
<1>5. Cardinality(Slots \ usedIn(mem)) = EE_MAX_EVENTS - Cardinality(usedIn(mem))
  <2>1. Slots \cap usedIn(mem) = usedIn(mem)
    BY <1>2
  <2> QED
    BY <1>1, <2>1, FS_Difference
<1> QED
  BY <1>1, <1>3, <1>4, <1>5

\* A slot comes into use, or gets other variables for the event it stores.
LEMMA SlotStored ==
    ASSUME NEW mem, NEW new, Distinct(mem), Distinct(new), NEW i \in usedIn(new),
           \A j \in Slots \ {i} : new[j] = mem[j],
           i \in usedIn(mem) => readEvent(mem, i) = readEvent(new, i)
    PROVE  storeIn(new) = [x \in DOMAIN storeIn(mem) \cup {readEvent(new, i)} |->
                              IF x = readEvent(new, i) THEN evsOf(new, i) ELSE storeIn(mem)[x]]
<1> DEFINE e == readEvent(new, i)
           s == [x \in DOMAIN storeIn(mem) \cup {e} |->
                    IF x = e THEN evsOf(new, i) ELSE storeIn(mem)[x]]
<1>1. \A j \in Slots \ {i} : /\ readEvent(new, j) = readEvent(mem, j)
                             /\ evsOf(new, j) = evsOf(mem, j)
  BY DEF readEvent, evsOf
<1>2. DOMAIN s = eventsIn(new)
  <2>1. usedIn(new) = usedIn(mem) \cup {i} /\ \A j \in usedIn(mem) : j \in Slots
    BY <1>1 DEF usedIn
  <2>2. \A j \in usedIn(mem) : readEvent(new, j) = readEvent(mem, j)
    BY <1>1, <2>1
  <2>3. eventsIn(new) = eventsIn(mem) \cup {e}
    BY <2>1, <2>2 DEF eventsIn
  <2> QED
    BY <2>3, StoreValue
<1>3. \A j \in usedIn(new) : s[readEvent(new, j)] = evsOf(new, j)
  <2>1. \A j \in usedIn(new) \ {i} : readEvent(new, j) # e /\ j \in usedIn(mem)
    BY <1>1 DEF Distinct, usedIn
  <2>2. \A j \in usedIn(new) \ {i} : s[readEvent(new, j)] = storeIn(mem)[readEvent(mem, j)]
    BY <1>1, <1>2, <2>1 DEF usedIn, eventsIn
  <2>3. \A j \in usedIn(new) \ {i} : s[readEvent(new, j)] = evsOf(new, j)
    BY <1>1, <2>1, <2>2, StoreValue DEF usedIn
  <2>4. s[readEvent(new, i)] = evsOf(new, i)
    OBVIOUS
  <2> QED
    BY <2>3, <2>4
<1> QED
  BY <1>2, <1>3, StoreIs

\* The event a slot stores, if it is used.
eventOf(mem, i) == IF i \in usedIn(mem) THEN {readEvent(mem, i)} ELSE {}

\* A slot is free afterwards: of its event nothing is left.
LEMMA SlotFreed ==
    ASSUME NEW mem, NEW new, Distinct(mem), Distinct(new), NEW i \in Slots \ usedIn(new),
           \A j \in Slots \ {i} : new[j] = mem[j]
    PROVE  /\ eventOf(mem, i) \in SUBSET DOMAIN storeIn(mem)
           /\ Cardinality(eventOf(mem, i)) <= 1
           /\ storeIn(new) = [x \in DOMAIN storeIn(mem) \ eventOf(mem, i) |-> storeIn(mem)[x]]
<1> DEFINE gone == eventOf(mem, i)
           s == [x \in DOMAIN storeIn(mem) \ gone |-> storeIn(mem)[x]]
<1>1. gone = IF i \in usedIn(mem) THEN {readEvent(mem, i)} ELSE {}
  BY DEF eventOf
<1>2. \A j \in Slots \ {i} : /\ readEvent(new, j) = readEvent(mem, j)
                             /\ evsOf(new, j) = evsOf(mem, j)
  BY DEF readEvent, evsOf
<1>3. gone \in SUBSET DOMAIN storeIn(mem) /\ Cardinality(gone) <= 1
  BY <1>1, StoreValue, FS_EmptySet, FS_Singleton
<1>4. usedIn(new) = usedIn(mem) \ {i}
  BY <1>2 DEF usedIn
<1>5. \A j \in usedIn(new) : readEvent(mem, j) \notin gone
  BY <1>1, <1>4 DEF Distinct, usedIn
<1>6. DOMAIN s = eventsIn(new)
  <2>1. \A x : x \in eventsIn(mem) /\ x \notin gone => x \in eventsIn(new)
    BY <1>1, <1>2, <1>4 DEF eventsIn, usedIn
  <2>2. \A x : x \in eventsIn(new) => x \in eventsIn(mem) /\ x \notin gone
    BY <1>2, <1>4, <1>5 DEF eventsIn, usedIn
  <2> QED
    BY <2>1, <2>2, StoreValue
<1>7. \A j \in usedIn(new) : s[readEvent(new, j)] = evsOf(new, j)
  <2>1. \A j \in usedIn(new) : j \in Slots \ {i} /\ j \in usedIn(mem)
    BY <1>4 DEF usedIn
  <2>2. \A j \in usedIn(new) : readEvent(mem, j) \in DOMAIN s
    BY <1>2, <1>6, <2>1 DEF eventsIn
  <2>3. \A j \in usedIn(new) : s[readEvent(new, j)] = storeIn(mem)[readEvent(mem, j)]
    BY <1>2, <2>1, <2>2
  <2> QED
    BY <1>2, <2>1, <2>3, StoreValue
<1> QED
  BY <1>3, <1>6, <1>7, StoreIs

\* findExistingEvent tells whether the store has an event, and where.
LEMMA FoundIsStored ==
    ASSUME IInv, Distinct(eeprom), NEW e \in Event, e # unused_entry
    PROVE  /\ e \in DOMAIN storeOf <=> findExistingEvent(e) \in Slots
           /\ findExistingEvent(e) \in Slots =>
                /\ findExistingEvent(e) \in usedIn(eeprom)
                /\ readEvent(eeprom, findExistingEvent(e)) = e
                /\ storeOf[e] = evsOf(eeprom, findExistingEvent(e))
<1>1. EE_MAX_EVENTS \notin Slots
  BY SizeAssumption DEF Slots
<1>2. DOMAIN storeOf = eventsIn(eeprom)
  BY StoreOfSlots, StoreValue
<1>3. e \in eventsIn(eeprom) <=> storing(e) # {}
  BY DEF eventsIn, storing, usedIn
<1>4. storing(e) \subseteq Slots /\ \A i \in storing(e) : i \in usedIn(eeprom) /\ readEvent(eeprom, i) = e
  BY DEF storing, usedIn
<1>5. findExistingEvent(e) \in Slots => findExistingEvent(e) \in storing(e)
  BY <1>1, FindExact
<1> QED
  BY <1>1, <1>2, <1>3, <1>4, <1>5, FindExact, StoreOfSlots, StoreValue

\* findEventSpace finds a slot exactly when the store is not full.
LEMMA SpaceIsFree ==
    ASSUME IInv, Distinct(eeprom)
    PROVE  /\ findEventSpace \in Slots <=> Cardinality(DOMAIN storeOf) # EE_MAX_EVENTS
           /\ findEventSpace \in Slots => findEventSpace \in Slots \ usedIn(eeprom)
<1>1. EE_MAX_EVENTS \notin Slots
  BY SizeAssumption DEF Slots
<1>2. freeSlots = Slots \ usedIn(eeprom) /\ usedIn(eeprom) \subseteq Slots
  BY StoreOfSlots DEF freeSlots, usedIn
<1>3. freeSlots # {} => findEventSpace \in freeSlots
  BY <1>2, FirstOfMember DEF findEventSpace
<1>4. freeSlots = {} => findEventSpace \notin Slots
  BY <1>1 DEF findEventSpace, firstOf
<1>5. Cardinality(DOMAIN storeOf) = EE_MAX_EVENTS <=> usedIn(eeprom) = Slots
  BY StoreOfSlots, StoreValue, StoreSize
<1> QED
  BY <1>2, <1>3, <1>4, <1>5

-----------------------------------------------------------------------------
(* Each frame does to the store what EventStore says.                       *)

\* Frames whose events are not the erased pattern, with EVs 1..EE_NUM_EVS.  FFFF:FFFF
\* cannot be told from a free slot.
LegalFrames == NoEVZero /\ unused_entry \notin Events

RInv == IInv /\ Distinct(eeprom)

\* A frame that is only answered.
LEMMA AnswerKeepsStore ==
    ASSUME RInv, UNCHANGED <<table, bLearn>>
    PROVE  storeOf' = storeOf /\ usedSlots' = usedSlots
BY DEF table, storeOf, slotOf, usedSlots

\* EventStore counts with the Cardinality of its own instance of FiniteSets.
LEMMA SameCardinality ==
    ASSUME NEW S
    PROVE  Store!Cardinality(S) = Cardinality(S)
BY Zenon DEF Store!Cardinality, Cardinality

\* EVLRN with EV 1 writes the event and the variable, with a later EV the variable
\* only; the other variables stay.
LEMMA LearntEVs ==
    ASSUME NEW e \in Event, NEW n \in 1 .. EE_NUM_EVS, NEW v \in Byte,
           eeprom \in Memory, learnSlot(e) \in Slots
    PROVE  /\ readEvent(learnt(e, n, v), learnSlot(e)) =
                IF n = 1 THEN e ELSE readEvent(eeprom, learnSlot(e))
           /\ evsOf(learnt(e, n, v), learnSlot(e)) =
                [evsOf(eeprom, learnSlot(e)) EXCEPT ![n] = v]
<1> DEFINE i == learnSlot(e)
           mem == IF n < 2 THEN writeEvent(eeprom, i, e) ELSE eeprom
<1>1. learnt(e, n, v) = writeEventEV(mem, i, n, v)
  BY DEF learnt
<1>2. /\ \A k \in 0 .. EE_HASH_BYTES - 1 : k \in Offsets /\ k # n + 3 /\ k < EE_HASH_BYTES
      /\ \A m \in 1 .. EE_NUM_EVS : m + 3 \in Offsets /\ ~(m + 3 < EE_HASH_BYTES)
      /\ EVCell(i, n) = [slot |-> i, offset |-> n + 3]
  BY SizeAssumption DEF Offsets, EE_BYTES_PER_EVENT, EE_HASH_BYTES, EVCell
<1>3. /\ mem \in Memory /\ readEvent(mem, i) = IF n = 1 THEN e ELSE readEvent(eeprom, i)
      /\ \A m \in 1 .. EE_NUM_EVS : mem[i][m + 3] = eeprom[i][m + 3]
  <2>1. CASE n = 1
    <3>1. mem = writeEvent(eeprom, i, e) /\ 4 \in 0 .. EE_HASH_BYTES
      BY <2>1 DEF EE_HASH_BYTES
    <3>2. mem \in Memory /\ readEvent(mem, i) = e
      BY <3>1, WriteBytesType, WriteEventReads DEF writeEvent, EE_HASH_BYTES
    <3>3. mem[i] = [k \in Offsets |-> IF k < EE_HASH_BYTES THEN e[k] ELSE eeprom[i][k]]
      BY <3>1 DEF writeEvent, writeEventBytes, Memory
    <3> HIDE DEF mem
    <3> QED
      BY <1>2, <2>1, <3>2, <3>3
  <2>2. CASE n # 1
    BY <2>2
  <2> QED
    BY <2>1, <2>2
<1>4. i \in Slots
  OBVIOUS
<1> HIDE DEF mem, i
<1>5. writeEventEV(mem, i, n, v) = [mem EXCEPT ![i][n + 3] = v]
  BY <1>2, <1>4 DEF writeEventEV
<1>6. writeEventEV(mem, i, n, v)[i] = [mem[i] EXCEPT ![n + 3] = v] /\ DOMAIN mem[i] = Offsets
  BY <1>3, <1>4, <1>5 DEF Memory
<1>7. \A k \in 0 .. EE_HASH_BYTES - 1 : writeEventEV(mem, i, n, v)[i][k] = mem[i][k]
  BY <1>2, <1>6
<1>8. readEvent(writeEventEV(mem, i, n, v), i) = readEvent(mem, i)
  BY <1>7 DEF readEvent
<1>9. \A m \in 1 .. EE_NUM_EVS :
        writeEventEV(mem, i, n, v)[i][m + 3] = IF m = n THEN v ELSE eeprom[i][m + 3]
  BY <1>2, <1>3, <1>6
<1>10. evsOf(writeEventEV(mem, i, n, v), i) = [evsOf(eeprom, i) EXCEPT ![n] = v]
  BY <1>9 DEF evsOf
<1> QED
  BY <1>1, <1>3, <1>8, <1>10 DEF i

\* EVLRN is Teach of the store, also where the table is full.
LEMMA LearnRefines ==
    ASSUME LegalFrames, RInv, RInv',
           NEW e \in Events, NEW n \in EVIndices, NEW v \in EVValues, EVLRN(e, n, v)
    PROVE  Store!Teach(e, n, v)
<1> DEFINE i == learnSlot(e)
<1>1. /\ e \in Event /\ e # unused_entry /\ n \in 1 .. EE_NUM_EVS /\ n \in 0 .. 255
      /\ n <= EE_NUM_EVS /\ v \in Byte /\ eeprom \in Memory /\ eeprom' \in Memory
  BY FrameAssumption, SizeAssumption DEF LegalFrames, NoEVZero, RInv, IInv
<1>2. /\ usedSlots = usedIn(eeprom) /\ storeOf = storeIn(eeprom)
      /\ usedSlots' = usedIn(eeprom') /\ storeOf' = storeIn(eeprom')
      /\ Distinct(eeprom) /\ Distinct(eeprom')
  BY StoreOfSlots, StoreOfSlotsNext DEF RInv, Distinct
<1>3. /\ bLearn /\ UNCHANGED bLearn
      /\ frame' = [op |-> "EVLRN", event |-> e, ev |-> n, value |-> v]
  BY DEF EVLRN
<1>4. CASE i \notin Slots
  <2>1. storeOf' = storeOf /\ answerOf' = Store!Refused
    BY <1>3, <1>4, AnswerKeepsStore DEF EVLRN, CMDERR, answerOf, Store!Refused
  <2>2. e \notin DOMAIN storeOf /\ Cardinality(DOMAIN storeOf) = EE_MAX_EVENTS
    BY <1>1, <1>4, FoundIsStored, SpaceIsFree DEF RInv, learnSlot
  <2> QED
    BY <1>3, <2>1, <2>2, SameCardinality DEF Store!Teach, Store!Full, Store!stored
<1>5. CASE i \in Slots
  <2>1. eeprom' = learnt(e, n, v) /\ answerOf' = Store!Ack
    BY <1>5 DEF EVLRN, WRACK, answerOf, Store!Ack
  <2>2. /\ \A j \in Slots \ {i} : eeprom'[j] = eeprom[j]
        /\ readEvent(eeprom', i) = IF n = 1 THEN e ELSE readEvent(eeprom, i)
        /\ evsOf(eeprom', i) = [evsOf(eeprom, i) EXCEPT ![n] = v]
    BY <1>1, <1>5, <2>1, LearntType, LearntEVs
  <2>3. CASE e \in DOMAIN storeOf
    <3>1. i \in usedIn(eeprom) /\ readEvent(eeprom, i) = e /\ storeOf[e] = evsOf(eeprom, i)
      BY <1>1, <2>3, FoundIsStored DEF RInv, learnSlot
    <3>2. i \in usedIn(eeprom') /\ readEvent(eeprom', i) = e
      BY <1>1, <1>5, <2>2, <3>1 DEF usedIn
    <3>3. storeOf' = [x \in DOMAIN storeOf \cup {e} |->
                        IF x = e THEN [storeOf[e] EXCEPT ![n] = v] ELSE storeOf[x]]
      <4>1. storeIn(eeprom') = [x \in DOMAIN storeIn(eeprom) \cup {readEvent(eeprom', i)} |->
                                  IF x = readEvent(eeprom', i) THEN evsOf(eeprom', i)
                                  ELSE storeIn(eeprom)[x]]
        <5>1. i \in usedIn(eeprom) => readEvent(eeprom, i) = readEvent(eeprom', i)
          BY <3>1, <3>2
        <5>2. \A j \in Slots \ {i} : eeprom'[j] = eeprom[j]
          BY <2>2
        <5> HIDE DEF i
        <5> QED
          BY <1>2, <3>2, <5>1, <5>2, SlotStored
      <4> QED
        BY <1>2, <2>2, <3>1, <3>2, <4>1
    <3> QED
      BY <1>3, <2>1, <2>3, <3>3 DEF Store!Teach, Store!Put, Store!stored
  <2>4. CASE e \notin DOMAIN storeOf
    <3>1. i \in Slots \ usedIn(eeprom) /\ Cardinality(DOMAIN storeOf) # EE_MAX_EVENTS
      BY <1>1, <1>5, <2>4, FoundIsStored, SpaceIsFree DEF RInv, learnSlot
    <3>2. CASE n = 1
      <4>1. i \in usedIn(eeprom') /\ readEvent(eeprom', i) = e
        BY <1>1, <2>2, <3>1, <3>2 DEF usedIn
      <4>2. storeOf' = [x \in DOMAIN storeOf \cup {e} |->
                          IF x = e THEN evsOf(eeprom', i) ELSE storeOf[x]]
        BY <1>2, <2>2, <3>1, <4>1, SlotStored
      <4>3. evsOf(eeprom', i) \in [1 .. EE_NUM_EVS -> Byte] /\ evsOf(eeprom', i)[n] = v
        BY <1>1, <1>5, <2>2, StoreType
      <4> QED
        BY <1>3, <2>1, <2>4, <3>1, <3>2, <4>2, <4>3, SameCardinality
           DEF Store!Teach, Store!Put, Store!stored, Store!EVs, Store!Full
    <3>3. CASE n > 1
      <4>1. i \in Slots \ usedIn(eeprom')
        BY <1>1, <2>2, <3>1, <3>3 DEF usedIn
      <4>2. storeOf' = [x \in DOMAIN storeOf \ {} |-> storeOf[x]]
        <5>1. eventOf(eeprom, i) = {}
          BY <3>1 DEF eventOf
        <5>2. \A j \in Slots \ {i} : eeprom'[j] = eeprom[j]
          BY <2>2
        <5> HIDE DEF i
        <5>3. storeIn(eeprom') =
                [x \in DOMAIN storeIn(eeprom) \ eventOf(eeprom, i) |-> storeIn(eeprom)[x]]
          BY <1>2, <4>1, <5>2, SlotFreed
        <5> QED
          BY <1>2, <5>1, <5>3
      <4>3. storeOf' = storeOf
        BY <1>2, <4>2 DEF storeIn
      <4> QED
        BY <1>3, <2>1, <2>4, <3>1, <3>3, <4>3, SameCardinality DEF Store!Teach, Store!stored, Store!Full
    <3> QED
      BY <1>1, <3>2, <3>3
  <2> QED
    BY <2>3, <2>4
<1> QED
  BY <1>4, <1>5

\* The handlers that teach, forget and clear are those of a learning node.
LEMMA ForgetRefines ==
    ASSUME LegalFrames, RInv, RInv', NEW e \in Events, EVULN(e)
    PROVE  Store!Forget(e)
<1> DEFINE i == unlearnSlot
<1>1. /\ e \in Event /\ e # unused_entry /\ i \in Slots /\ eeprom \in Memory
      /\ 4 \in 0 .. EE_HASH_BYTES
  BY FrameAssumption, SizeAssumption
     DEF LegalFrames, RInv, IInv, unlearnSlot, Slots, EE_HASH_BYTES
<1>2. /\ storeOf = storeIn(eeprom) /\ storeOf' = storeIn(eeprom')
      /\ Distinct(eeprom) /\ Distinct(eeprom')
  BY StoreOfSlots, StoreOfSlotsNext DEF RInv, Distinct
<1>3. bLearn /\ UNCHANGED bLearn /\ frame' = [op |-> "EVULN", event |-> e]
  BY DEF EVULN, About
<1>4. e \in DOMAIN storeOf <=> findExistingEvent(e) \in Slots
  BY <1>1, FoundIsStored DEF RInv
<1>5. CASE findExistingEvent(e) \notin Slots
  <2>1. storeOf' = storeOf /\ answerOf' = Store!Refused
    BY <1>3, <1>5, AnswerKeepsStore DEF EVULN, CMDERR, answerOf, Store!Refused
  <2> QED
    BY <1>3, <1>4, <1>5, <2>1 DEF Store!Forget, Store!stored
<1>6. CASE findExistingEvent(e) \in Slots
  <2>1. eeprom' = writeEvent(eeprom, i, unused_entry) /\ answerOf' = Store!Ack
    BY <1>6 DEF EVULN, WRACK, answerOf, Store!Ack
  <2>2. /\ \A j \in Slots \ {i} : eeprom'[j] = eeprom[j]
        /\ readEvent(eeprom', i) = unused_entry
    BY <1>1, <2>1, WriteBytesType, WriteEventReads, UnusedType DEF writeEvent, EE_HASH_BYTES
  <2>3. i \in Slots \ usedIn(eeprom')
    BY <1>1, <2>2 DEF usedIn
  <2> DEFINE gone == eventOf(eeprom, i)
  <2>4. /\ gone \in SUBSET DOMAIN storeOf /\ Cardinality(gone) <= 1
        /\ storeOf' = [x \in DOMAIN storeOf \ gone |-> storeOf[x]]
    BY <1>2, <2>2, <2>3, SlotFreed
  <2> HIDE DEF gone
  <2> QED
    BY <1>3, <1>4, <1>6, <2>1, <2>4, SameCardinality DEF Store!Forget, Store!stored
<1> QED
  BY <1>5, <1>6

\* NNCLR clears the store.
LEMMA ClearRefines ==
    ASSUME RInv, RInv', NNCLR
    PROVE  Store!Clear
<1>1. \A i \in Slots : readEvent(eeprom', i) = unused_entry
  <2>1. EE_MAX_EVENTS \in Nat /\ \A i \in Slots : i < EE_MAX_EVENTS
    BY SizeAssumption DEF Slots
  <2> QED
    BY <2>1, ClearedType DEF NNCLR, RInv, IInv
<1>2. eventsIn(eeprom') = {}
  BY <1>1 DEF eventsIn, usedIn
<1>3. storeOf' = <<>>
  BY <1>2, StoreOfSlotsNext DEF RInv, storeIn
<1>4. answerOf' = Store!Ack
  BY DEF NNCLR, WRACK, answerOf, Store!Ack
<1> QED
  BY <1>3, <1>4 DEF NNCLR, Simple, Store!Clear

\* NNLRN and NNULN switch learning in the store.
LEMMA SetLearningRefines ==
    ASSUME RInv, NNLRN \/ NNULN
    PROVE  \E b \in BOOLEAN : Store!SetLearning(b)
<1>1. storeOf' = storeOf
  BY DEF NNLRN, NNULN, setLearn, table, storeOf, slotOf, usedSlots
<1>2. answerOf' = Store!None
  BY DEF NNLRN, NNULN, setLearn, NoReply, answerOf, Store!None
<1>3. CASE NNLRN
  BY <1>1, <1>2, <1>3 DEF NNLRN, setLearn, Simple, Store!SetLearning
<1>4. CASE NNULN
  BY <1>1, <1>2, <1>4 DEF NNULN, setLearn, Simple, Store!SetLearning
<1> QED
  BY <1>3, <1>4

\* The two counts and the list.
LEMMA CountsRefine ==
    ASSUME RInv, RQEVN \/ NNEVN \/ NERD
    PROVE  Store!Count \/ Store!CountFree \/ Store!List
<1>1. storeOf' = storeOf /\ UNCHANGED bLearn
  BY AnswerKeepsStore DEF RQEVN, NNEVN, NERD, Answer
<1>2. /\ usedSlots = usedIn(eeprom) /\ DOMAIN storeOf = eventsIn(eeprom)
      /\ Cardinality(eventsIn(eeprom)) = Cardinality(usedIn(eeprom))
      /\ Cardinality(Slots \ usedIn(eeprom)) = EE_MAX_EVENTS - Cardinality(usedIn(eeprom))
  BY StoreOfSlots, StoreValue, StoreSize DEF RInv
<1>3. CASE RQEVN
  <2>1. answerOf' = [kind |-> "count", count |-> Cardinality(DOMAIN storeOf)]
    BY <1>2, <1>3 DEF RQEVN, Answer, answerOf
  <2> QED
    BY <1>1, <1>3, <2>1, SameCardinality
       DEF RQEVN, Answer, Simple, Store!Count, Store!Say, Store!stored
<1>4. CASE NNEVN
  <2>1. answerOf' = [kind |-> "free", count |-> EE_MAX_EVENTS - Cardinality(DOMAIN storeOf)]
    BY <1>2, <1>4 DEF NNEVN, Answer, answerOf, freeSlots
  <2> QED
    BY <1>1, <1>4, <2>1, SameCardinality
       DEF NNEVN, Answer, Simple, Store!CountFree, Store!Say, Store!stored
<1>5. CASE NERD
  <2>1. {x[2] : x \in {<<i, readEvent(eeprom, i)>> : i \in usedIn(eeprom)}} = eventsIn(eeprom)
    <3> DEFINE entries == {<<i, readEvent(eeprom, i)>> : i \in usedIn(eeprom)}
    <3>1. \A x \in entries : x[2] \in eventsIn(eeprom)
      BY DEF eventsIn
    <3>2. \A i \in usedIn(eeprom) : \E x \in entries : x[2] = readEvent(eeprom, i)
      <4>1. ASSUME NEW i \in usedIn(eeprom)
            PROVE  \E x \in entries : x[2] = readEvent(eeprom, i)
        <5>1. <<i, readEvent(eeprom, i)>> \in entries
          OBVIOUS
        <5>2. <<i, readEvent(eeprom, i)>>[2] = readEvent(eeprom, i)
          OBVIOUS
        <5> QED
          BY <5>1, <5>2
      <4> QED
        BY <4>1
    <3> HIDE DEF entries
    <3>3. {x[2] : x \in entries} = eventsIn(eeprom)
      BY <3>1, <3>2 DEF eventsIn
    <3> QED
      BY <3>3 DEF entries
  <2>2. reply' = [op |-> "ENRSP", entries |-> {<<i, readEvent(eeprom, i)>> : i \in usedIn(eeprom)}]
    BY <1>2, <1>5 DEF NERD, Answer
  <2>3. answerOf' = [kind |-> "list", events |-> {x[2] : x \in reply'.entries}]
    BY <2>2 DEF answerOf
  <2>4. answerOf' = [kind |-> "list", events |-> DOMAIN storeOf]
    BY <1>2, <2>1, <2>2, <2>3
  <2> QED
    BY <1>1, <1>5, <2>4 DEF NERD, Answer, Simple, Store!List, Store!Say, Store!stored
<1> QED
  BY <1>3, <1>4, <1>5

\* A variable is read by slot number.
LEMMA ReadRefines ==
    ASSUME LegalFrames, RInv, NEW i \in 0 .. EE_MAX_EVENTS, NEW n \in EVIndices, REVAL(i, n)
    PROVE  Store!Read(n)
<1>1. storeOf' = storeOf /\ UNCHANGED bLearn /\ frame' = [op |-> "REVAL", ev |-> n]
  BY AnswerKeepsStore DEF REVAL, Answer
<1>2. n \in 1 .. EE_NUM_EVS
  BY DEF LegalFrames, NoEVZero
<1>3. CASE i \notin usedSlots
  <2>1. answerOf' = Store!Refused
    BY <1>3 DEF REVAL, Answer, CMDERR, answerOf, Store!Refused
  <2> QED
    BY <1>1, <2>1 DEF Store!Read, Store!Say
<1>4. CASE i \in usedSlots
  <2> DEFINE e == readEvent(eeprom, i)
  <2>1. e \in DOMAIN storeOf /\ storeOf[e] = evsOf(eeprom, i) /\ i \in Slots
    BY <1>4, StoreOfSlots, StoreValue DEF RInv, usedIn
  <2>2. getEventEVval(i, n) = storeOf[e][n]
    <3>1. EVCell(i, n) = [slot |-> i, offset |-> n + 3]
      BY <1>2, SizeAssumption DEF EVCell
    <3> QED
      BY <1>2, <2>1, <3>1 DEF getEventEVval, evsOf
  <2>3. answerOf' = [kind |-> "value", value |-> storeOf[e][n]]
    BY <1>4, <2>2 DEF REVAL, Answer, answerOf
  <2> HIDE DEF e
  <2>4. answerOf' \in {[kind |-> "value", value |-> storeOf[x][n]] : x \in DOMAIN storeOf}
    BY <2>1, <2>3
  <2> QED
    BY <1>1, <2>4 DEF Store!Read, Store!Say, Store!stored
<1> QED
  BY <1>3, <1>4

\* An accessory event, long or short.
LEMMA AccessoryRefines ==
    ASSUME RInv, NEW e \in Event, e # unused_entry, NEW on, processAccessoryEvent(e, on)
    PROVE  Store!Hear(e, on)
<1> DEFINE index == findExistingEvent(e)
<1>1. storeOf' = storeOf /\ UNCHANGED bLearn /\ frame' = [op |-> "accessory", event |-> e]
  BY AnswerKeepsStore DEF processAccessoryEvent, Answer, About
<1>2. /\ e \in DOMAIN storeOf <=> index \in Slots
      /\ index \in Slots => storeOf[e] = evsOf(eeprom, index)
  BY FoundIsStored DEF RInv
<1>3. CASE index \notin Slots
  <2>1. answerOf' = Store!None
    BY <1>3 DEF processAccessoryEvent, Answer, NoReply, answerOf, Store!None
  <2> QED
    BY <1>1, <1>2, <1>3, <2>1 DEF Store!Hear, Store!Say, Store!stored
<1>4. CASE index \in Slots
  <2>1. EE_NUM_EVS > 0 => getEventEVval(index, 1) = storeOf[e][1]
    <3>1. EE_NUM_EVS > 0 => 1 \in 1 .. EE_NUM_EVS /\ EVCell(index, 1) = [slot |-> index, offset |-> 4]
      BY SizeAssumption DEF EVCell
    <3>2. EE_NUM_EVS > 0 => getEventEVval(index, 1) = eeprom[index][4]
      BY <1>4, <3>1 DEF getEventEVval
    <3>3. EE_NUM_EVS > 0 => evsOf(eeprom, index)[1] = eeprom[index][4]
      BY <3>1 DEF evsOf
    <3> QED
      BY <1>2, <1>4, <3>2, <3>3
  <2>2. answerOf' = [kind |-> "event", event |-> e, on |-> on,
                     ev1 |-> IF EE_NUM_EVS > 0 THEN storeOf[e][1] ELSE 0]
    BY <1>4, <2>1 DEF processAccessoryEvent, Answer, answerOf
  <2> QED
    BY <1>1, <1>2, <1>4, <2>2 DEF Store!Hear, Store!Say, Store!stored
<1> QED
  BY <1>3, <1>4

\* Every step is a step of the store, or leaves it.
LEMMA StepRefines ==
    ASSUME LegalFrames, RInv, RInv', [Step]_vars
    PROVE  [Store!Next]_(Store!vars)
<1>1. ASSUME NEW e \in Events, NEW opc \in {ACON, ACOF, ARON, AROF, ASON, ASOF}, Accessory(opc, e)
      PROVE  Store!Next
  <2>1. e \in Event /\ e # unused_entry /\ (opc % 2 = 0) \in BOOLEAN
    BY FrameAssumption DEF LegalFrames
  <2>2. Store!Short(e) \in Event /\ Store!Short(e) # unused_entry
    BY <2>1, ByteAssumption DEF Store!Short, Event, unused_entry, EE_HASH_BYTES
  <2>3. Store!Hear(e, opc % 2 = 0) \/ Store!Hear(Store!Short(e), opc % 2 = 0)
    BY <1>1, <2>1, <2>2, AccessoryRefines DEF Accessory, Store!Short
  <2> QED
    BY <2>1, <2>3 DEF Store!Next
<1>2. CASE UNCHANGED vars
  BY <1>2 DEF vars, Store!vars, storeOf, slotOf, usedSlots, answerOf
<1> QED
  BY <1>1, <1>2, LearnRefines, ForgetRefines, ClearRefines, SetLearningRefines, CountsRefine,
     ReadRefines DEF Step, Store!Next

\* A powered node whose frames carry EV numbers 1..EE_NUM_EVS, and events other than
\* the erased pattern, implements the event store, for every number of slots and
\* every hash function: slots, hashes, collisions and the reuse of slots never show.
THEOREM StoreImplemented ==
    ASSUME LegalFrames PROVE SpecPowered => ImplementsStore
<1>1. Init => RInv /\ Store!Init
  <2> SUFFICES ASSUME Init PROVE RInv /\ Store!Init
    OBVIOUS
  <2>1. \A i \in Slots : readEvent(eeprom, i) = unused_entry
    <3>1. 0 .. EE_HASH_BYTES - 1 \subseteq Offsets
      BY SizeAssumption DEF Offsets, EE_BYTES_PER_EVENT, EE_HASH_BYTES
    <3> QED
      BY <3>1 DEF Init, readEvent, unused_entry
  <2>2. RInv
    BY <2>1, InitIInv DEF RInv, Distinct
  <2>3. eventsIn(eeprom) = {}
    BY <2>1 DEF eventsIn, usedIn
  <2>4. storeOf = <<>>
    BY <2>2, <2>3, StoreOfSlots DEF RInv, storeIn
  <2>5. answerOf = Store!None
    BY DEF Init, NoReply, answerOf, Store!None
  <2> QED
    BY <2>2, <2>4, <2>5 DEF Init, NoFrame, Store!Init
<1>2. RInv /\ [Step]_vars => RInv'
  <2> SUFFICES ASSUME RInv, [Step]_vars PROVE IInv' /\ Distinct(eeprom')
    BY DEF RInv, Distinct
  <2>1. NoEVZero /\ LegalEVs /\ [Next]_vars
    BY DEF LegalFrames, NoEVZero, LegalEVs, Next
  <2> QED
    BY <2>1, NextIInv, StepDistinct DEF RInv
<1>3. RInv /\ RInv' /\ [Step]_vars => [Store!Next]_(Store!vars)
  BY StepRefines
<1> QED
  BY <1>1, <1>2, <1>3, PTL DEF SpecPowered, ImplementsStore, Store!Spec

=============================================================================
